-------------------------- MODULE LimitSync_proofs --------------------------
(***************************************************************************)
(* The limit sync, for any number of users, profiles, keys, changes and    *)
(* faults: nobody is without a profile, and a key whose record is up to    *)
(* date carries what the record says. Where no key is generated: owners'   *)
(* allowances are in line too, and no kick of the sync is lost.            *)
(***************************************************************************)
EXTENDS LimitSync, TLAPS

-----------------------------------------------------------------------------
(* The values that stand for nothing have their types.                      *)
LEMMA Defaults ==
  /\ AnyName \in Names /\ AnyScalar \in Scalars
  /\ NoRow \in KeyRows /\ NoTask \in Tasks /\ NoGwKey \in GwKeys /\ Unborn \in ProfileRows
  /\ NoTask.at = "out" /\ NoTask.key = NoKey /\ NoTask.old = NoKey /\ NoRow.key = NoKey
<1>1. AnyName \in Names /\ AnyScalar \in Scalars
  BY SyncAssumption DEF AnyName, AnyScalar
<1>. QED
  BY <1>1, SyncAssumption DEF NoRow, KeyRows, NoTask, Tasks, NoGwKey, GwKeys, Unborn,
     ProfileRows, Revs

-----------------------------------------------------------------------------
(* What single steps do to a task. *)

(* What one step makes of the push of u: it goes on, keeping what it is     *)
(* about, or it has nothing left to do but to record how it ended.          *)
Turns(u) == push' \in [Users -> Tasks] /\ \A v \in Users \ {u} : push'[v] = push[v]
Advances(u, at) == /\ Turns(u)
                   /\ push'[u].at = at
                   /\ push'[u].key = push[u].key /\ push'[u].p = push[u].p
                   /\ push'[u].name = push[u].name /\ push'[u].relabel = push[u].relabel
SameLimits(u) == /\ push'[u].rev = push[u].rev
                 /\ push'[u].s = push[u].s /\ push'[u].q = push[u].q
Ends(u) == /\ Turns(u)
           /\ push'[u].at \in {"out", "fail", "missing"}
           /\ push'[u].key \in {push[u].key, NoKey}

LEMMA GoDoes ==
  ASSUME push \in [Users -> Tasks], NEW u \in Users, NEW at \in {"key", "alias", "mark"},
         Go(u, at)
  PROVE  Advances(u, at) /\ SameLimits(u)
  BY DEF Go, Advances, Turns, SameLimits, Tasks

LEMMA GiveUpDoes ==
  ASSUME push \in [Users -> Tasks], NEW u \in Users, NEW at \in {"fail", "missing"},
         GiveUp(u, at)
  PROVE  Ends(u)
<1>1. push[u].key \in Keys \union {NoKey}
  BY DEF Tasks
<1>2. ASSUME NEW t, t = [NoTask EXCEPT !.at = at, !.key = push[u].key]
      PROVE  t \in Tasks /\ t.at = at /\ t.key = push[u].key
  BY <1>1, <1>2, Defaults DEF Tasks
<1>3. push' = [push EXCEPT ![u] = push'[u]] /\ push'[u] = [NoTask EXCEPT !.at = at, !.key = push[u].key]
  BY DEF GiveUp
<1>4. push'[u] \in Tasks /\ push'[u].at = at /\ push'[u].key = push[u].key
  BY <1>2, <1>3
<1>. QED
  BY <1>3, <1>4 DEF Ends, Turns

LEMMA DoneDoes ==
  ASSUME push \in [Users -> Tasks], NEW u \in Users, Done(u)
  PROVE  Ends(u)
  BY Defaults DEF Done, Ends, Turns

LEMMA LoadProfileDoes ==
  ASSUME push \in [Users -> Tasks], prof \in [Profiles -> ProfileRows],
         NEW u \in Users, LoadProfile(u), push[u].p \in Profiles
  PROVE  \/ /\ Advances(u, "quotas")
            /\ prof[push[u].p].st = "alive"
            /\ push'[u].rev = prof[push[u].p].rev /\ push'[u].s = prof[push[u].p].s
         \/ Ends(u)
<1>1. PICK r \in Revs, s \in Scalars : r = prof[push[u].p].rev /\ s = prof[push[u].p].s
  BY DEF ProfileRows
<1>2. CASE GiveUp(u, "fail")
  BY <1>2, GiveUpDoes
<1>3. CASE ~GiveUp(u, "fail")
  <2>1. /\ prof[push[u].p].st = "alive"
        /\ push' = [push EXCEPT ![u].at = "quotas", ![u].rev = r, ![u].s = s]
    BY <1>1, <1>3 DEF LoadProfile
  <2>2. PICK t \in Tasks : t = push[u]
    OBVIOUS
  <2>3. PICK n : n = [t EXCEPT !.at = "quotas", !.rev = r, !.s = s]
    OBVIOUS
  <2>4. /\ n \in Tasks /\ n.at = "quotas" /\ n.rev = r /\ n.s = s
        /\ n.key = t.key /\ n.p = t.p /\ n.name = t.name /\ n.relabel = t.relabel
    BY <2>3 DEF Tasks
  <2>5. push' = [push EXCEPT ![u] = n]
    BY <2>1, <2>2, <2>3, Zenon
  <2>. QED
    BY <1>1, <2>1, <2>2, <2>4, <2>5 DEF Advances, Turns
<1>. QED
  BY <1>2, <1>3

LEMMA LoadQuotasDoes ==
  ASSUME push \in [Users -> Tasks], prof \in [Profiles -> ProfileRows],
         NEW u \in Users, LoadQuotas(u), push[u].p \in Profiles
  PROVE  \/ /\ Advances(u, "owner")
            /\ push'[u].rev = push[u].rev /\ push'[u].s = push[u].s
            /\ push'[u].q = prof[push[u].p].q
         \/ Ends(u)
<1>1. ASSUME NEW q \in Quotas, push' = [push EXCEPT ![u].at = "owner", ![u].q = q]
      PROVE  /\ Advances(u, "owner") /\ push'[u].q = q
             /\ push'[u].rev = push[u].rev /\ push'[u].s = push[u].s
  BY <1>1, ZenonT(40) DEF Advances, Turns, Tasks
<1>2. prof[push[u].p].q \in Quotas
  BY DEF ProfileRows
<1>. QED
  BY <1>1, <1>2, GiveUpDoes DEF LoadQuotas

LEMMA PushDoes ==
  ASSUME push \in [Users -> Tasks], NEW u \in Users
  PROVE  /\ PushOwner(u) => (Advances(u, "key") /\ SameLimits(u)) \/ Ends(u)
         /\ PushKey(u) => (/\ Advances(u, IF push[u].relabel THEN "alias" ELSE "mark")
                           /\ SameLimits(u)
                           /\ gk' = [gk EXCEPT ![push[u].key].s = push[u].s,
                                               ![push[u].key].q = push[u].q])
                          \/ Ends(u)
         /\ PushAlias(u) => (/\ Advances(u, "mark") /\ SameLimits(u)
                             /\ gk' = [gk EXCEPT ![push[u].key].alias = push[u].name])
                            \/ Ends(u)
  BY GoDoes, GiveUpDoes DEF PushOwner, PushKey, PushAlias

(* The same for the GenerateKey of u. *)
GenTurns(u) == gen' \in [Users -> Tasks] /\ \A v \in Users \ {u} : gen'[v] = gen[v]
GenAdvances(u, at) == /\ GenTurns(u)
                      /\ gen'[u].at = at /\ gen'[u].old = gen[u].old
                      /\ gen'[u].p = gen[u].p /\ gen'[u].name = gen[u].name
                      /\ gen'[u].rev = gen[u].rev /\ gen'[u].s = gen[u].s
GenEnds(u) == GenTurns(u) /\ gen'[u] = NoTask

LEMMA QuitDoes ==
  ASSUME gen \in [Users -> Tasks], NEW u \in Users, Quit(u)
  PROVE  GenEnds(u)
  BY Defaults DEF Quit, GenEnds, GenTurns

LEMMA ProceedDoes ==
  ASSUME gen \in [Users -> Tasks], NEW u \in Users, Proceed(u, "create")
  PROVE  GenAdvances(u, "create") /\ gen'[u].key = gen[u].key /\ gen'[u].q = gen[u].q
  BY DEF Proceed, GenAdvances, GenTurns, Tasks

LEMMA StartDoes ==
  ASSUME gen \in [Users -> Tasks], assigned \in [Users -> Profiles \union {NoProfile}],
         name \in [Users -> Names], NEW u \in Users, StartGenerate(u)
  PROVE  /\ GenTurns(u) /\ gen[u].at = "out"
         /\ gen'[u].at = "profile" /\ gen'[u].key = NoKey /\ gen'[u].old = NoKey
<1>1. ASSUME NEW t, NEW p \in Profiles \union {NoProfile}, NEW n \in Names,
             t = [NoTask EXCEPT !.at = "profile", !.p = p, !.name = n]
      PROVE  t \in Tasks /\ t.at = "profile" /\ t.key = NoKey /\ t.old = NoKey
  BY <1>1, Defaults DEF Tasks, NoTask
<1>2. gen'[u] = [NoTask EXCEPT !.at = "profile", !.p = assigned[u], !.name = name[u]]
  BY DEF StartGenerate
<1>3. gen'[u] \in Tasks /\ gen'[u].at = "profile" /\ gen'[u].key = NoKey /\ gen'[u].old = NoKey
  BY <1>1, <1>2
<1>. QED
  BY <1>3 DEF StartGenerate, GenTurns

LEMMA ReadProfileDoes ==
  ASSUME gen \in [Users -> Tasks], prof \in [Profiles -> ProfileRows], dflt \in Profiles,
         row \in [Users -> KeyRows], NEW u \in Users, ReadProfile(u)
  PROVE  \/ /\ GenTurns(u) /\ gen[u].at = "profile"
            /\ gen'[u].at = "quotas" /\ gen'[u].key = gen[u].key /\ gen'[u].old = row[u].key
            /\ gen'[u].p \in Profiles /\ prof[gen'[u].p].st = "alive"
            /\ gen'[u].rev = prof[gen'[u].p].rev /\ gen'[u].s = prof[gen'[u].p].s
         \/ GenEnds(u)
<1>. DEFINE p == IF gen[u].p # NoProfile THEN gen[u].p ELSE dflt
<1>1. p \in Profiles /\ row[u].key \in Keys \union {NoKey}
  BY DEF Tasks, KeyRows
<1>2. PICK r \in Revs, s \in Scalars : r = prof[p].rev /\ s = prof[p].s
  BY <1>1 DEF ProfileRows
<1>3. PICK k \in Keys \union {NoKey} : k = row[u].key
  BY <1>1
<1>. HIDE DEF p
<1>4. ASSUME NEW t, t = [gen[u] EXCEPT !.at = "quotas", !.old = k, !.p = p, !.rev = r, !.s = s]
      PROVE  /\ t \in Tasks /\ t.at = "quotas" /\ t.key = gen[u].key /\ t.old = k /\ t.p = p
             /\ t.rev = r /\ t.s = s
  BY <1>1, <1>4, ZenonT(40) DEF Tasks
<1>5. CASE Quit(u)
  BY <1>5, QuitDoes
<1>6. CASE ~Quit(u)
  <2>1. /\ gen[u].at = "profile" /\ prof[p].st = "alive"
        /\ gen' = [gen EXCEPT ![u].at = "quotas", ![u].old = row[u].key, ![u].p = p,
                              ![u].rev = prof[p].rev, ![u].s = prof[p].s]
    BY <1>6 DEF ReadProfile, p
  <2>2. /\ GenTurns(u)
        /\ gen'[u].at = "quotas" /\ gen'[u].key = gen[u].key
        /\ gen'[u].old = k /\ gen'[u].p = p /\ gen'[u].rev = r /\ gen'[u].s = s
    <3>1. gen' = [gen EXCEPT ![u].at = "quotas", ![u].old = k, ![u].p = p,
                             ![u].rev = r, ![u].s = s]
      BY <1>2, <1>3, <2>1
    <3>2. gen'[u] = [gen[u] EXCEPT !.at = "quotas", !.old = k, !.p = p, !.rev = r, !.s = s]
      BY <3>1
    <3>3. \A v \in Users \ {u} : gen'[v] = gen[v]
      BY <3>1
    <3>4. gen' = [gen EXCEPT ![u] = gen'[u]]
      BY <3>1
    <3>. QED
      BY <1>4, <3>2, <3>3, <3>4 DEF GenTurns
  <2>. QED
    BY <1>1, <1>2, <1>3, <2>1, <2>2
<1>. QED
  BY <1>5, <1>6

LEMMA ReadQuotasDoes ==
  ASSUME gen \in [Users -> Tasks], prof \in [Profiles -> ProfileRows],
         NEW u \in Users, ReadQuotas(u), gen[u].p \in Profiles
  PROVE  \/ /\ GenAdvances(u, "owner") /\ gen'[u].key = gen[u].key
            /\ gen'[u].q = prof[gen[u].p].q
         \/ GenEnds(u)
<1>1. ASSUME NEW q \in Quotas, gen' = [gen EXCEPT ![u].at = "owner", ![u].q = q]
      PROVE  GenAdvances(u, "owner") /\ gen'[u].key = gen[u].key /\ gen'[u].q = q
  BY <1>1, ZenonT(40) DEF GenAdvances, GenTurns, Tasks
<1>2. prof[gen[u].p].q \in Quotas
  BY DEF ProfileRows
<1>. QED
  BY <1>1, <1>2, QuitDoes DEF ReadQuotas

LEMMA IssueKeyDoes ==
  ASSUME gen \in [Users -> Tasks], NEW u \in Users, NEW k \in Keys,
         gen' = [gen EXCEPT ![u].at = "store", ![u].key = k]
  PROVE  GenAdvances(u, "store") /\ gen'[u].key = k /\ gen'[u].q = gen[u].q
  BY ZenonT(40) DEF GenAdvances, GenTurns, Tasks

LEMMA StoreKeyDoes ==
  ASSUME gen \in [Users -> Tasks], NEW u \in Users, StoreKey(u)
  PROVE  \/ /\ GenTurns(u) /\ gen[u].old # NoKey
            /\ gen'[u].at = "revoke" /\ gen'[u].key = NoKey /\ gen'[u].old = gen[u].old
         \/ GenEnds(u)
<1>1. ASSUME NEW t, NEW k \in Keys \union {NoKey},
             t = [NoTask EXCEPT !.at = "revoke", !.old = k]
      PROVE  t \in Tasks /\ t.at = "revoke" /\ t.key = NoKey /\ t.old = k
  BY <1>1, Defaults DEF Tasks, NoTask
<1>2. CASE Quit(u)
  BY <1>2, QuitDoes
<1>3. CASE ~Quit(u)
  <2>1. /\ gen[u].old # NoKey
        /\ gen' = [gen EXCEPT ![u] = [NoTask EXCEPT !.at = "revoke", !.old = gen[u].old]]
    BY <1>3 DEF StoreKey
  <2>2. gen[u].old \in Keys \union {NoKey}
    BY DEF Tasks
  <2>3. gen'[u] = [NoTask EXCEPT !.at = "revoke", !.old = gen[u].old]
    BY <2>1
  <2>4. /\ gen'[u] \in Tasks /\ gen'[u].at = "revoke"
        /\ gen'[u].key = NoKey /\ gen'[u].old = gen[u].old
    BY <1>1, <2>2, <2>3
  <2>. QED
    BY <2>1, <2>4 DEF GenTurns
<1>. QED
  BY <1>2, <1>3

LEMMA StoreKeyWrites ==
  ASSUME row \in [Users -> KeyRows], gen \in [Users -> Tasks], NEW u \in Users, StoreKey(u)
  PROVE  /\ \A v \in Users \ {u} : row'[v] = row[v]
         /\ \/ row' = row /\ Quit(u) /\ gk' = [gk EXCEPT ![gen[u].key] = NoGwKey]
            \/ /\ gk' = gk
               /\ row'[u].key = gen[u].key /\ row'[u].sp = gen[u].p
               /\ row'[u].srev = gen[u].rev /\ row'[u].sname = gen[u].name
<1>1. PICK r : r = [NoRow EXCEPT !.key = gen[u].key, !.sp = gen[u].p, !.srev = gen[u].rev,
                                 !.sname = gen[u].name]
  OBVIOUS
<1>2. gen[u] \in Tasks
  OBVIOUS
<1>3. /\ r.key = gen[u].key /\ r.sp = gen[u].p
      /\ r.srev = gen[u].rev /\ r.sname = gen[u].name
  BY <1>1, <1>2, Defaults DEF KeyRows, Tasks
<1>4. \/ row' = row /\ Quit(u) /\ gk' = [gk EXCEPT ![gen[u].key] = NoGwKey]
      \/ row' = [row EXCEPT ![u] = r] /\ gk' = gk
  BY <1>1 DEF StoreKey
<1>. QED
  BY <1>3, <1>4

LEMMA BeginRunDoes ==
  ASSUME push \in [Users -> Tasks], row \in [Users -> KeyRows], BeginRun
  PROVE  \/ push' = push
         \/ /\ push' \in [Users -> Tasks]
            /\ \A u \in Users : /\ push'[u].at \in {"out", "check"}
                                /\ push'[u].key \in {row[u].key, NoKey}
<1>1. ASSUME NEW t, NEW k \in Keys \union {NoKey}, t = [NoTask EXCEPT !.at = "check", !.key = k]
      PROVE  t \in Tasks /\ t.at = "check" /\ t.key = k
  BY <1>1, Defaults DEF Tasks
<1>2. CASE push' = [u \in Users |-> IF row[u].missing
             THEN [NoTask EXCEPT !.at = "check", !.key = row[u].key] ELSE NoTask]
  <2>1. ASSUME NEW u \in Users
        PROVE  /\ push'[u] \in Tasks /\ push'[u].at \in {"out", "check"}
               /\ push'[u].key \in {row[u].key, NoKey}
    <3>1. row[u].key \in Keys \union {NoKey}
      BY DEF KeyRows
    <3>2. CASE row[u].missing
      <4>1. push'[u] = [NoTask EXCEPT !.at = "check", !.key = row[u].key]
        BY <1>2, <3>2, Zenon
      <4>. QED
        BY <1>1, <3>1, <4>1
    <3>3. CASE ~row[u].missing
      <4>1. push'[u] = NoTask
        BY <1>2, <3>3, Zenon
      <4>. QED
        BY <4>1, Defaults
    <3>. QED
      BY <3>2, <3>3
  <2>2. push' = [u \in Users |-> push'[u]]
    BY <1>2
  <2>. QED
    BY <2>1, <2>2, Zenon
<1>. QED
  BY <1>2 DEF BeginRun

LEMMA FetchDoes ==
  ASSUME push \in [Users -> Tasks], row \in [Users -> KeyRows], name \in [Users -> Names],
         dflt \in Profiles, assigned \in [Users -> Profiles \union {NoProfile}], Fetch
  PROVE  \/ push' = push
         \/ /\ push' \in [Users -> Tasks]
            /\ \A u \in Users :
                 \/ push'[u] = NoTask
                 \/ /\ push'[u].at = "profile"
                    /\ push'[u].key = row[u].key /\ row[u].key \in Keys
                    /\ push'[u].p \in Profiles /\ push'[u].name = name[u]
                    /\ push'[u].relabel = (row[u].sname # name[u])
<1>2. CASE push' # push
  <2>1. PICK batch \in SUBSET {u \in Users : Pending(u) /\ (run = "push" => ~row[u].failed)} :
          push' = [u \in Users |-> IF u \in batch
            THEN [NoTask EXCEPT !.at = "profile", !.key = row[u].key,
                                !.p = Effective(u), !.name = name[u],
                                !.relabel = row[u].sname # name[u]]
            ELSE NoTask]
    BY <1>2, Zenon DEF Fetch
  <2>2. ASSUME NEW u \in Users
        PROVE  /\ push'[u] \in Tasks
               /\ \/ push'[u] = NoTask
                  \/ /\ push'[u].at = "profile"
                     /\ push'[u].key = row[u].key /\ row[u].key \in Keys
                     /\ push'[u].p \in Profiles /\ push'[u].name = name[u]
                     /\ push'[u].relabel = (row[u].sname # name[u])
    <3>1. CASE u \in batch
      <4>1. push'[u] = [NoTask EXCEPT !.at = "profile", !.key = row[u].key,
                                !.p = Effective(u), !.name = name[u],
                                !.relabel = row[u].sname # name[u]]
        BY <2>1, <3>1, Zenon
      <4>2. row[u].key \in Keys
        BY <3>1, SyncAssumption DEF Pending, Covered, KeyRows
      <4>3. Effective(u) \in Profiles /\ name[u] \in Names
        BY DEF Effective
      <4>4. PICK k \in Keys, p \in Profiles, n \in Names, b \in BOOLEAN :
              /\ k = row[u].key /\ p = Effective(u) /\ n = name[u]
              /\ b = (row[u].sname # name[u])
        BY <4>2, <4>3, Zenon
      <4>5. push'[u] = [NoTask EXCEPT !.at = "profile", !.key = k, !.p = p, !.name = n,
                                      !.relabel = b]
        BY <4>1, <4>4, Zenon
      <4>6. /\ push'[u] \in Tasks /\ push'[u].at = "profile" /\ push'[u].key = k
            /\ push'[u].p = p /\ push'[u].name = n /\ push'[u].relabel = b
        BY <4>5, Defaults DEF Tasks
      <4>. QED
        BY <4>4, <4>6, Zenon
    <3>2. CASE u \notin batch
      <4>1. push'[u] = NoTask
        BY <2>1, <3>2, Zenon
      <4>. QED
        BY <4>1, Defaults
    <3>. QED
      BY <3>1, <3>2
  <2>3. push' = [u \in Users |-> push'[u]]
    BY <2>1
  <2>. QED
    BY <2>2, <2>3, Zenon
<1>. QED
  BY <1>2

(* These steps leave what the rows say of their keys, or make them pending. *)
Keeps(r, s) == /\ r.key = s.key /\ r.sp = s.sp /\ r.sname = s.sname
               /\ r.srev \in {s.srev, 0}

LEMMA RowsKept ==
  ASSUME row \in [Users -> KeyRows],
         Resync \/ Fetch \/ \E u \in Users : Expire(u) \/ Extend(u)
  PROVE  row' \in [Users -> KeyRows] /\ \A u \in Users : Keeps(row'[u], row[u])
<1>1. CASE Resync
  <2>1. ASSUME NEW x \in KeyRows, NEW y, y = [x EXCEPT !.srev = 0]
        PROVE  y \in KeyRows /\ Keeps(y, x)
    BY <2>1 DEF KeyRows, Keeps, Revs
  <2>2. \A u \in Users : row'[u] = [row[u] EXCEPT !.srev = 0]
    BY <1>1 DEF Resync
  <2>. QED
    BY <1>1, <2>1, <2>2 DEF Resync
<1>2. CASE Fetch
  <2>1. ASSUME NEW x \in KeyRows, NEW y, y = [x EXCEPT !.failed = FALSE]
        PROVE  y \in KeyRows /\ Keeps(y, x)
    BY <2>1 DEF KeyRows, Keeps
  <2>2. CASE row' = row
    BY <2>2 DEF Keeps
  <2>3. CASE row' = [u \in Users |-> [row[u] EXCEPT !.failed = FALSE]]
    <3>1. \A u \in Users : row'[u] = [row[u] EXCEPT !.failed = FALSE]
      BY <2>3
    <3>. QED
      BY <2>1, <2>3, <3>1
  <2>. QED
    BY <1>2, <2>2, <2>3 DEF Fetch
<1>3. ASSUME NEW u \in Users, Expire(u) \/ Extend(u)
      PROVE  row' \in [Users -> KeyRows] /\ \A v \in Users : Keeps(row'[v], row[v])
  <2>1. ASSUME NEW b \in BOOLEAN, row' = [row EXCEPT ![u].expired = b]
        PROVE  row' \in [Users -> KeyRows] /\ \A v \in Users : Keeps(row'[v], row[v])
    BY <2>1 DEF KeyRows, Keeps
  <2>. QED
    BY <1>3, <2>1 DEF Expire, Extend
<1>. QED
  BY <1>1, <1>2, <1>3

-----------------------------------------------------------------------------
(* Types. *)
LEMMA TypeInit == Init => TypeOK
<1>. SUFFICES ASSUME Init PROVE TypeOK
  OBVIOUS
<1>. USE Defaults, SyncAssumption
<1>1. PICK d \in Profiles, keyOf \in [Owners -> Keys], q \in Quotas : InService(d, keyOf, q)
  BY DEF Init
<1>2. FirstRev(q) \in Revs
  BY DEF FirstRev, Bump, Revs
<1>3. prof \in [Profiles -> ProfileRows]
  <2>1. PICK born \in SUBSET Profiles : prof = [p \in Profiles |->
         IF p = d THEN [st |-> "alive", rev |-> FirstRev(q), s |-> AnyScalar, q |-> q]
         ELSE IF p \in born THEN [st |-> "alive", rev |-> 1, s |-> AnyScalar, q |-> NoQuota]
         ELSE Unborn]
    BY <1>1, Zenon DEF InService
  <2>2. /\ [st |-> "alive", rev |-> FirstRev(q), s |-> AnyScalar, q |-> q] \in ProfileRows
        /\ [st |-> "alive", rev |-> 1, s |-> AnyScalar, q |-> NoQuota] \in ProfileRows
    BY <1>2 DEF ProfileRows, Revs
  <2>. QED
    BY <2>1, <2>2, Zenon
<1>4. row \in [Users -> KeyRows]
  <2>1. ASSUME NEW k \in Keys
        PROVE  [NoRow EXCEPT !.key = k, !.sp = d, !.srev = FirstRev(q)] \in KeyRows
    BY <1>2 DEF KeyRows
  <2>. QED
    BY <1>1, <2>1, Zenon DEF InService
<1>5. gk \in [Keys -> GwKeys]
  <2>1. [NoGwKey EXCEPT !.on = TRUE, !.q = q] \in GwKeys
    BY DEF GwKeys
  <2>. QED
    BY <1>1, <2>1, Zenon DEF InService
<1>6. dflt \in Profiles /\ owner \in [Users -> Quotas]
  BY <1>1, Zenon DEF InService
<1>. QED
  BY <1>3, <1>4, <1>5, <1>6 DEF Init, TypeOK, Runs

LEMMA TypeAdmin ==
  ASSUME IInv, Admin
  PROVE  TypeOK'
<1>. USE Defaults, SyncAssumption DEF Change, admin, gateway, loop
<1>0. TypeOK
  BY DEF IInv
<1>1. ASSUME NEW p \in Profiles, NEW s \in Scalars, NEW q \in Quotas,
             NEW default \in BOOLEAN, CreateProfile(p, s, q, default)
      PROVE  TypeOK'
  BY <1>0, <1>1 DEF CreateProfile, TypeOK, ProfileRows, Revs, FirstRev, Bump
<1>2. ASSUME NEW p \in Profiles, NEW s \in Scalars, NEW q \in Quotas,
             NEW default \in BOOLEAN, UpdateProfile(p, s, q, default)
      PROVE  TypeOK'
  BY <1>0, <1>2 DEF UpdateProfile, TypeOK, ProfileRows, Revs, Bump
<1>3. ASSUME NEW p \in Profiles, DeleteProfile(p)
      PROVE  TypeOK'
  BY <1>0, <1>3 DEF DeleteProfile, TypeOK, ProfileRows, Unborn
<1>4. ASSUME NEW u \in Users, NEW p \in Profiles \union {NoProfile}, Assign(u, p)
      PROVE  TypeOK'
  BY <1>0, <1>4 DEF Assign, TypeOK
<1>5. ASSUME Resync
      PROVE  TypeOK'
  BY <1>0, <1>5, RowsKept DEF Resync, TypeOK
<1>. QED
  BY <1>1, <1>2, <1>3, <1>4, <1>5 DEF Admin

LEMMA TypeLoop ==
  ASSUME IInv, BeginRun \/ Fetch \/ Abort \/ Kill
  PROVE  TypeOK'
<1>. USE Defaults, SyncAssumption DEF admin, gateway, loop
<1>0. TypeOK
  BY DEF IInv
<1>1. ASSUME BeginRun PROVE TypeOK'
  <2>1. push' \in [Users -> Tasks]
    BY <1>0, <1>1, BeginRunDoes DEF TypeOK
  <2>. QED
    BY <1>0, <1>1, <2>1 DEF BeginRun, TypeOK, Runs
<1>2. ASSUME Fetch PROVE TypeOK'
  <2>1. push' \in [Users -> Tasks] /\ row' \in [Users -> KeyRows]
    BY <1>0, <1>2, FetchDoes, RowsKept DEF TypeOK
  <2>. QED
    BY <1>0, <1>2, <2>1 DEF Fetch, TypeOK, Runs
<1>3. ASSUME Abort PROVE TypeOK'
  BY <1>0, <1>3 DEF Abort, TypeOK, Runs
<1>4. ASSUME Kill PROVE TypeOK'
  BY <1>0, <1>4 DEF Kill, TypeOK, Runs
<1>. QED
  BY <1>1, <1>2, <1>3, <1>4

(* Recording an outcome puts in a row that has its type, or nothing.        *)
LEMMA TypeRecord ==
  ASSUME TypeOK, NEW u \in Users, NEW r \in KeyRows, NEW settled, Record(u, r, settled)
  PROVE  TypeOK'
<1>. USE Defaults, SyncAssumption DEF admin, gateway, loop
<1>1. row' \in [Users -> KeyRows]
  BY DEF Record, Write, TypeOK
<1>2. push' \in [Users -> Tasks]
  BY DEF Record, Done, TypeOK
<1>3. run' \in Runs /\ unrecorded' \subseteq Keys \X {"limits", "alias"}
  BY DEF Record, TypeOK, Runs
<1>. QED
  BY <1>1, <1>2, <1>3 DEF Record, TypeOK

LEMMA TypePush ==
  ASSUME IInv, NEW u \in Users, Push(u)
  PROVE  TypeOK'
<1>. USE Defaults, SyncAssumption DEF admin, gateway, loop
<1>0. /\ TypeOK
      /\ row[u] \in KeyRows /\ push[u] \in Tasks
      /\ push[u].at \in PushStages => push[u].key \in Keys /\ push[u].p \in Profiles
  BY DEF IInv, TypeOK, TasksRead
<1>1. push \in [Users -> Tasks] /\ prof \in [Profiles -> ProfileRows] /\ gk \in [Keys -> GwKeys]
  BY <1>0 DEF TypeOK
<1>2. ASSUME CheckMissing(u) PROVE TypeOK'
  <2>1. [row[u] EXCEPT !.missing = FALSE, !.srev = 0] \in KeyRows
    BY <1>0 DEF KeyRows, Revs
  <2>. QED
    BY <1>0, <1>2, <2>1, TypeRecord DEF CheckMissing
<1>3. ASSUME LoadProfile(u) PROVE TypeOK'
  <2>1. push' \in [Users -> Tasks]
    BY <1>0, <1>1, <1>3, LoadProfileDoes DEF LoadProfile, Advances, Ends, Turns, PushStages
  <2>. QED
    BY <1>0, <1>3, <2>1 DEF LoadProfile, TypeOK
<1>4. ASSUME LoadQuotas(u) PROVE TypeOK'
  <2>1. push' \in [Users -> Tasks]
    BY <1>0, <1>1, <1>4, LoadQuotasDoes DEF LoadQuotas, Advances, Ends, Turns, PushStages
  <2>. QED
    BY <1>0, <1>4, <2>1 DEF LoadQuotas, TypeOK
<1>5. ASSUME PushOwner(u) PROVE TypeOK'
  <2>1. push' \in [Users -> Tasks]
    BY <1>1, <1>5, PushDoes DEF Advances, Ends, Turns
  <2>2. owner' \in [Users -> Quotas] /\ unrecorded' \subseteq Keys \X {"limits", "alias"}
    BY <1>0, <1>5 DEF PushOwner, TypeOK, Tasks, PushStages
  <2>. QED
    BY <1>0, <1>5, <2>1, <2>2 DEF PushOwner, TypeOK
<1>6. ASSUME PushKey(u) PROVE TypeOK'
  <2>1. push' \in [Users -> Tasks]
    BY <1>1, <1>6, PushDoes DEF Advances, Ends, Turns
  <2>2. push[u].key \in Keys /\ push[u].s \in Scalars /\ push[u].q \in Quotas
    BY <1>0, <1>6 DEF PushKey, PushStages, Tasks
  <2>3. gk' \in [Keys -> GwKeys]
    BY <1>1, <1>6, <2>2 DEF PushKey, GwKeys
  <2>4. unrecorded' \subseteq Keys \X {"limits", "alias"}
    BY <1>0, <1>6, <2>2 DEF PushKey, TypeOK
  <2>. QED
    BY <1>0, <1>6, <2>1, <2>3, <2>4 DEF PushKey, TypeOK
<1>7. ASSUME PushAlias(u) PROVE TypeOK'
  <2>1. push' \in [Users -> Tasks]
    BY <1>1, <1>7, PushDoes DEF Advances, Ends, Turns
  <2>2. push[u].key \in Keys /\ push[u].name \in Names
    BY <1>0, <1>7 DEF PushAlias, PushStages, Tasks
  <2>3. gk' \in [Keys -> GwKeys]
    BY <1>1, <1>7, <2>2 DEF PushAlias, GwKeys
  <2>4. unrecorded' \subseteq Keys \X {"limits", "alias"}
    BY <1>0, <1>7, <2>2 DEF PushAlias, TypeOK
  <2>. QED
    BY <1>0, <1>7, <2>1, <2>3, <2>4 DEF PushAlias, TypeOK
<1>8. ASSUME Mark(u) PROVE TypeOK'
  <2>1. [row[u] EXCEPT !.sp = push[u].p, !.srev = push[u].rev, !.sname = push[u].name,
                       !.failed = FALSE] \in KeyRows
    BY <1>0 DEF KeyRows, Tasks
  <2>. QED
    BY <1>0, <1>8, <2>1, TypeRecord DEF Mark
<1>9. ASSUME MarkFailed(u) \/ MarkMissing(u) PROVE TypeOK'
  <2>1. /\ [row[u] EXCEPT !.failed = TRUE] \in KeyRows
        /\ [row[u] EXCEPT !.missing = TRUE] \in KeyRows
    BY <1>0 DEF KeyRows
  <2>. QED
    BY <1>0, <1>9, <2>1, TypeRecord DEF MarkFailed, MarkMissing
<1>. QED
  BY <1>2, <1>3, <1>4, <1>5, <1>6, <1>7, <1>8, <1>9 DEF Push

LEMMA TypeUser ==
  ASSUME IInv, NEW u \in Users, User(u)
  PROVE  TypeOK'
<1>. USE Defaults, SyncAssumption DEF admin, gateway, loop, Change
<1>0. /\ TypeOK
      /\ row[u] \in KeyRows /\ gen[u] \in Tasks
      /\ gen[u].at \in Reading => gen[u].p \in Profiles
  BY DEF IInv, TypeOK, TasksRead, Reads
<1>1. /\ gen \in [Users -> Tasks] /\ prof \in [Profiles -> ProfileRows] /\ gk \in [Keys -> GwKeys]
      /\ row \in [Users -> KeyRows] /\ dflt \in Profiles /\ name \in [Users -> Names]
      /\ assigned \in [Users -> Profiles \union {NoProfile}]
  BY <1>0 DEF TypeOK
<1>2. ASSUME NEW n \in Names, Login(u, n) PROVE TypeOK'
  BY <1>0, <1>2 DEF Login, TypeOK
<1>3. ASSUME Expire(u) \/ Extend(u) PROVE TypeOK'
  <2>1. row' \in [Users -> KeyRows]
    BY <1>1, <1>3, RowsKept
  <2>2. /\ UNCHANGED <<prof, dflt, assigned, name, gk, owner, run, push, gen, unrecorded>>
        /\ edits' = edits + 1
    BY <1>3 DEF Expire, Extend
  <2>3. kick' = kick \/ kick' = TRUE
    BY <1>3 DEF Expire, Extend
  <2>4. kick \in BOOLEAN /\ edits' \in Nat
    BY <1>0, <2>2 DEF TypeOK
  <2>5. kick' \in BOOLEAN
    BY <2>3, <2>4, Zenon
  <2>. QED
    BY <1>0, <2>1, <2>2, <2>4, <2>5 DEF TypeOK
<1>4. ASSUME LoseOrRegain(u) PROVE TypeOK'
  <2>1. gk' \in [Keys -> GwKeys]
    BY <1>0, <1>4 DEF LoseOrRegain, TypeOK, GwKeys, KeyRows
  <2>. QED
    BY <1>0, <1>4, <2>1 DEF LoseOrRegain, TypeOK
<1>5. ASSUME StartGenerate(u) PROVE TypeOK'
  <2>1. gen' \in [Users -> Tasks]
    BY <1>1, <1>5, StartDoes DEF GenTurns
  <2>. QED
    BY <1>0, <1>5, <2>1 DEF StartGenerate, TypeOK
<1>6. ASSUME ReadProfile(u) PROVE TypeOK'
  <2>1. gen' \in [Users -> Tasks]
    BY <1>1, <1>6, ReadProfileDoes DEF GenTurns, GenEnds
  <2>. QED
    BY <1>0, <1>6, <2>1 DEF ReadProfile, TypeOK
<1>7. ASSUME ReadQuotas(u) PROVE TypeOK'
  <2>1. gen' \in [Users -> Tasks]
    BY <1>0, <1>1, <1>7, ReadQuotasDoes DEF ReadQuotas, Reading, GenAdvances, GenTurns, GenEnds
  <2>. QED
    BY <1>0, <1>7, <2>1 DEF ReadQuotas, TypeOK
<1>8. ASSUME GiveAllowance(u) PROVE TypeOK'
  <2>1. gen' \in [Users -> Tasks]
    BY <1>1, <1>8, ProceedDoes, QuitDoes DEF GiveAllowance, GenAdvances, GenTurns, GenEnds
  <2>2. owner' \in [Users -> Quotas]
    BY <1>0, <1>8 DEF GiveAllowance, TypeOK, Tasks
  <2>. QED
    BY <1>0, <1>8, <2>1, <2>2 DEF GiveAllowance, TypeOK
<1>9. ASSUME IssueKey(u) PROVE TypeOK'
  <2>1. gen' \in [Users -> Tasks]
    BY <1>1, <1>9, IssueKeyDoes, QuitDoes DEF IssueKey, GenAdvances, GenTurns, GenEnds
  <2>2. gk' \in [Keys -> GwKeys]
    <3>1. [on |-> TRUE, s |-> gen[u].s, q |-> gen[u].q, alias |-> gen[u].name] \in GwKeys
      BY <1>0 DEF GwKeys, Tasks
    <3>. QED
      BY <1>1, <1>9, <3>1 DEF IssueKey
  <2>3. unrecorded' \subseteq Keys \X {"limits", "alias"}
    BY <1>0, <1>9 DEF IssueKey, TypeOK
  <2>. QED
    BY <1>0, <1>9, <2>1, <2>2, <2>3 DEF IssueKey, TypeOK
<1>10. ASSUME StoreKey(u) PROVE TypeOK'
  <2>1. [NoRow EXCEPT !.key = gen[u].key, !.sp = gen[u].p, !.srev = gen[u].rev,
                      !.sname = gen[u].name] \in KeyRows
    BY <1>0 DEF KeyRows, Tasks
  <2>2. row' \in [Users -> KeyRows]
    BY <1>1, <1>10, <2>1 DEF StoreKey
  <2>3. gen' \in [Users -> Tasks]
    BY <1>1, <1>10, StoreKeyDoes DEF GenTurns, GenEnds
  <2>4. gk' \in [Keys -> GwKeys]
    BY <1>1, <1>10 DEF StoreKey
  <2>. QED
    BY <1>0, <1>10, <2>2, <2>3, <2>4 DEF StoreKey, TypeOK
<1>11. ASSUME RevokeOld(u) PROVE TypeOK'
  <2>1. gen' \in [Users -> Tasks] /\ gk' \in [Keys -> GwKeys]
    BY <1>1, <1>11 DEF RevokeOld, Quit
  <2>. QED
    BY <1>0, <1>11, <2>1 DEF RevokeOld, TypeOK
<1>. QED
  BY <1>2, <1>3, <1>4, <1>5, <1>6, <1>7, <1>8, <1>9, <1>10, <1>11 DEF User, Generate

LEMMA TypeNext == IInv /\ [Next]_vars => TypeOK'
<1>1. IInv /\ UNCHANGED vars => TypeOK'
  BY DEF vars, IInv, TypeOK
<1>. QED
  BY <1>1, TypeAdmin, TypeLoop, TypePush, TypeUser DEF Next

-----------------------------------------------------------------------------
(* What the groups of steps leave alone. *)
LEMMA AdminFrame == Admin => UNCHANGED <<name, gk, push, gen, unrecorded>>
  BY DEF Admin, CreateProfile, UpdateProfile, DeleteProfile, Assign, Resync, gateway, admin

LEMMA LoopFrame ==
  BeginRun \/ Fetch \/ Abort \/ Kill
    => UNCHANGED <<prof, dflt, assigned, name, gk, unrecorded>>
  BY DEF BeginRun, Fetch, Abort, Kill, admin, gateway

LEMMA PushFrame ==
  ASSUME NEW u \in Users, Push(u)
  PROVE  UNCHANGED <<prof, dflt, assigned, name, gen>>
  BY DEF Push, CheckMissing, LoadProfile, LoadQuotas, PushOwner, PushKey, PushAlias, Mark,
     MarkFailed, MarkMissing, Record, admin

LEMMA UserFrame ==
  ASSUME NEW u \in Users, User(u)
  PROVE  UNCHANGED <<prof, dflt, assigned, push>>
  BY DEF User, Generate, Login, Expire, Extend, LoseOrRegain, StartGenerate, ReadProfile,
     ReadQuotas, GiveAllowance, IssueKey, StoreKey, RevokeOld, admin

-----------------------------------------------------------------------------
(* Profiles. *)

(* No edit goes back, and one that leaves the revision leaves the limits.   *)
Onward(p, q) == /\ p.st # "unborn" => q.st # "unborn"
                /\ q.st = "alive" /\ p.st # "unborn" =>
                     /\ p.st = "alive" /\ p.rev <= q.rev
                     /\ p.rev = q.rev => p.s = q.s /\ p.q = q.q

LEMMA ProfilesGoOn ==
  ASSUME prof \in [Profiles -> ProfileRows], Admin
  PROVE  \A p \in Profiles : Onward(prof[p], prof'[p])
<1>1. ASSUME NEW p \in Profiles, NEW s \in Scalars, NEW q \in Quotas,
             NEW default \in BOOLEAN, CreateProfile(p, s, q, default)
      PROVE  \A x \in Profiles : Onward(prof[x], prof'[x])
  BY <1>1 DEF CreateProfile, Onward, ProfileRows, Revs
<1>2. ASSUME NEW p \in Profiles, NEW s \in Scalars, NEW q \in Quotas,
             NEW default \in BOOLEAN, UpdateProfile(p, s, q, default)
      PROVE  \A x \in Profiles : Onward(prof[x], prof'[x])
  BY <1>2 DEF UpdateProfile, Onward, ProfileRows, Revs, Bump
<1>3. ASSUME NEW p \in Profiles, DeleteProfile(p)
      PROVE  \A x \in Profiles : Onward(prof[x], prof'[x])
  <2>1. ASSUME NEW d, d = [Unborn EXCEPT !.st = "dead"] PROVE d.st = "dead"
    BY <2>1 DEF Unborn
  <2>2. prof'[p].st = "dead"
    BY <1>3, <2>1 DEF DeleteProfile
  <2>3. \A x \in Profiles \ {p} : prof'[x] = prof[x]
    BY <1>3 DEF DeleteProfile
  <2>. QED
    BY <2>2, <2>3 DEF Onward, ProfileRows, Revs
<1>4. ASSUME UNCHANGED prof
      PROVE  \A x \in Profiles : Onward(prof[x], prof'[x])
  BY <1>4 DEF Onward, ProfileRows, Revs
<1>. QED
  BY <1>1, <1>2, <1>3, <1>4 DEF Admin, Assign, Resync, admin

LEMMA StandNext == IInv /\ [Next]_vars => ProfilesStand'
<1>. SUFFICES ASSUME IInv, [Next]_vars PROVE ProfilesStand'
  OBVIOUS
<1>1. /\ prof \in [Profiles -> ProfileRows] /\ dflt \in Profiles
      /\ assigned \in [Users -> Profiles \union {NoProfile}]
      /\ ProfilesStand
  BY DEF IInv, TypeOK
<1>2. ASSUME NEW p \in Profiles, NEW s \in Scalars, NEW q \in Quotas,
             NEW default \in BOOLEAN, CreateProfile(p, s, q, default)
      PROVE  ProfilesStand'
  BY <1>1, <1>2 DEF CreateProfile, ProfilesStand, ProfileRows, Revs, FirstRev, Bump
<1>3. ASSUME NEW p \in Profiles, NEW s \in Scalars, NEW q \in Quotas,
             NEW default \in BOOLEAN, UpdateProfile(p, s, q, default)
      PROVE  ProfilesStand'
  BY <1>1, <1>3 DEF UpdateProfile, ProfilesStand, ProfileRows, Revs, Bump
<1>4. ASSUME NEW p \in Profiles, DeleteProfile(p)
      PROVE  ProfilesStand'
  <2>1. ASSUME NEW d, d = [Unborn EXCEPT !.st = "dead"] PROVE d.st = "dead"
    BY <2>1 DEF Unborn
  <2>2. prof'[p].st = "dead" /\ \A x \in Profiles \ {p} : prof'[x] = prof[x]
    BY <1>1, <1>4, <2>1 DEF DeleteProfile
  <2>3. /\ p # dflt /\ \A u \in Users : assigned[u] # p
        /\ dflt' = dflt /\ assigned' = assigned
    BY <1>4 DEF DeleteProfile
  <2>. QED
    BY <1>1, <2>2, <2>3 DEF ProfilesStand
<1>5. ASSUME NEW u \in Users, NEW p \in Profiles \union {NoProfile}, Assign(u, p)
      PROVE  ProfilesStand'
  BY <1>1, <1>5 DEF Assign, ProfilesStand
<1>6. ASSUME UNCHANGED <<prof, dflt, assigned>>
      PROVE  ProfilesStand'
  BY <1>1, <1>6 DEF ProfilesStand
<1>7. UNCHANGED vars => UNCHANGED <<prof, dflt, assigned>>
  BY DEF vars
<1>8. Resync => UNCHANGED <<prof, dflt, assigned>>
  BY DEF Resync, admin
<1>. QED
  BY <1>2, <1>3, <1>4, <1>5, <1>6, <1>7, <1>8, LoopFrame, PushFrame, UserFrame DEF Next, Admin

-----------------------------------------------------------------------------
(* What the tasks have read. *)

(* A reading stays good while profiles are edited.                          *)
LEMMA ReadingsLast ==
  ASSUME IInv, Admin, NEW t \in Tasks, Reads(t)
  PROVE  t.at \in Reading =>
    /\ t.p \in Profiles /\ prof'[t.p].st # "unborn"
    /\ prof'[t.p].st = "alive" => t.rev <= prof'[t.p].rev
    /\ prof'[t.p].st = "alive" /\ t.rev = prof'[t.p].rev
         => t.s = prof'[t.p].s /\ (t.at # "quotas" => t.q = prof'[t.p].q)
<1>. SUFFICES ASSUME t.at \in Reading
              PROVE  /\ t.p \in Profiles /\ prof'[t.p].st # "unborn"
                     /\ prof'[t.p].st = "alive" => t.rev <= prof'[t.p].rev
                     /\ prof'[t.p].st = "alive" /\ t.rev = prof'[t.p].rev
                          => t.s = prof'[t.p].s /\ (t.at # "quotas" => t.q = prof'[t.p].q)
  OBVIOUS
<1>1. /\ t.p \in Profiles /\ prof[t.p].st # "unborn"
      /\ prof[t.p].st = "alive" => t.rev <= prof[t.p].rev
      /\ prof[t.p].st = "alive" /\ t.rev = prof[t.p].rev
           => t.s = prof[t.p].s /\ (t.at # "quotas" => t.q = prof[t.p].q)
  BY DEF Reads
<1>2. prof \in [Profiles -> ProfileRows] /\ prof' \in [Profiles -> ProfileRows]
  BY TypeAdmin DEF IInv, TypeOK
<1>3. Onward(prof[t.p], prof'[t.p])
  BY <1>1, <1>2, ProfilesGoOn
<1>4. t.rev \in Nat /\ prof[t.p].rev \in Nat /\ prof'[t.p].rev \in Nat
  BY <1>1, <1>2 DEF Tasks, ProfileRows, Revs
<1>. QED
  BY <1>1, <1>3, <1>4 DEF Onward

LEMMA ReadAdmin == ASSUME IInv, Admin PROVE TasksRead'
<1>1. push' = push /\ gen' = gen
  BY AdminFrame
<1>2. TasksRead /\ \A u \in Users : push[u] \in Tasks /\ gen[u] \in Tasks
  BY DEF IInv, TypeOK
<1>3. \A u \in Users : Reads(push[u])' /\ Reads(gen[u])'
  BY <1>1, <1>2, ReadingsLast DEF Reads, TasksRead
<1>. QED
  BY <1>1, <1>2, <1>3 DEF TasksRead

LEMMA ReadLoop == ASSUME IInv, BeginRun \/ Fetch \/ Abort \/ Kill PROVE TasksRead'
<1>. USE DEF PushStages, Reading
<1>1. /\ prof' = prof /\ TasksRead
      /\ push \in [Users -> Tasks] /\ row \in [Users -> KeyRows] /\ name \in [Users -> Names]
      /\ dflt \in Profiles /\ assigned \in [Users -> Profiles \union {NoProfile}]
  BY LoopFrame DEF IInv, TypeOK
<1>2. CASE Kill
  BY <1>1, <1>2, Defaults DEF Kill, TasksRead, Reads
<1>3. ASSUME gen' = gen, push' = push PROVE TasksRead'
  BY <1>1, <1>3 DEF TasksRead, Reads
<1>4. CASE BeginRun
  BY <1>1, <1>3, <1>4, BeginRunDoes DEF BeginRun, TasksRead, Reads
<1>5. CASE Fetch
  BY <1>1, <1>3, <1>5, FetchDoes, Defaults DEF Fetch, TasksRead, Reads
<1>6. CASE Abort
  BY <1>3, <1>6 DEF Abort
<1>. QED
  BY <1>2, <1>4, <1>5, <1>6

LEMMA ReadPush == ASSUME IInv, NEW u \in Users, Push(u) PROVE TasksRead'
<1>. USE DEF PushStages, Reading
<1>1. /\ prof' = prof /\ gen' = gen /\ TasksRead
      /\ push \in [Users -> Tasks] /\ prof \in [Profiles -> ProfileRows]
  BY PushFrame DEF IInv, TypeOK
<1>2. ASSUME Turns(u), push'[u].at \in PushStages => /\ push'[u].key \in Keys
                                                     /\ push'[u].p \in Profiles,
             Reads(push[u])'
      PROVE  TasksRead'
  <2>1. \A v \in Users : Reads(gen[v])'
    BY <1>1 DEF TasksRead, Reads
  <2>2. \A v \in Users \ {u} : Reads(push[v])'
    BY <1>1, <1>2 DEF TasksRead, Reads, Turns
  <2>. QED
    BY <1>1, <1>2, <2>1, <2>2 DEF TasksRead, Turns
<1>3. Ends(u) => TasksRead'
  BY <1>2 DEF Ends, Reads
<1>4. push[u].at \in PushStages => push[u].key \in Keys /\ push[u].p \in Profiles
  BY <1>1 DEF TasksRead
<1>5. CASE LoadProfile(u)
  <2>1. push[u].key \in Keys /\ push[u].p \in Profiles
    BY <1>4, <1>5 DEF LoadProfile
  <2>2. CASE Ends(u)
    BY <1>3, <2>2
  <2>3. CASE ~Ends(u)
    <3>1. /\ Turns(u) /\ push'[u].at = "quotas"
          /\ push'[u].key = push[u].key /\ push'[u].p = push[u].p
          /\ prof[push[u].p].st = "alive"
          /\ push'[u].rev = prof[push[u].p].rev /\ push'[u].s = prof[push[u].p].s
      BY <1>1, <1>5, <2>1, <2>3, LoadProfileDoes DEF Advances
    <3>2. prof[push[u].p].rev \in Nat
      BY <1>1, <2>1 DEF ProfileRows, Revs
    <3>. QED
      BY <1>1, <1>2, <2>1, <3>1, <3>2 DEF Reads
  <2>. QED
    BY <2>2, <2>3
<1>6. CASE LoadQuotas(u)
  BY <1>1, <1>2, <1>3, <1>4, <1>6, LoadQuotasDoes, SMTT(20)
     DEF LoadQuotas, Advances, Reads, TasksRead
<1>7. ASSUME NEW at \in {"key", "alias", "mark"}, push[u].at \in {"owner", "key", "alias"},
             Advances(u, at), SameLimits(u)
      PROVE  TasksRead'
  BY <1>1, <1>2, <1>4, <1>7 DEF Advances, SameLimits, Reads, TasksRead
<1>8. CASE PushOwner(u) \/ PushKey(u) \/ PushAlias(u)
  <2>1. push[u].at \in {"owner", "key", "alias"}
    BY <1>8 DEF PushOwner, PushKey, PushAlias
  <2>. QED
    BY <1>1, <1>3, <1>7, <1>8, <2>1, PushDoes
<1>9. CASE CheckMissing(u) \/ Mark(u) \/ MarkFailed(u) \/ MarkMissing(u)
  BY <1>1, <1>3, <1>9, DoneDoes DEF CheckMissing, Mark, MarkFailed, MarkMissing, Record
<1>. QED
  BY <1>5, <1>6, <1>8, <1>9 DEF Push

LEMMA ReadUser == ASSUME IInv, NEW u \in Users, User(u) PROVE TasksRead'
<1>. USE DEF PushStages, Reading
<1>1. /\ prof' = prof /\ push' = push /\ TasksRead
      /\ gen \in [Users -> Tasks] /\ prof \in [Profiles -> ProfileRows]
      /\ row \in [Users -> KeyRows] /\ dflt \in Profiles /\ name \in [Users -> Names]
      /\ assigned \in [Users -> Profiles \union {NoProfile}]
  BY UserFrame DEF IInv, TypeOK
<1>2. ASSUME GenTurns(u), Reads(gen[u])'
      PROVE  TasksRead'
  <2>1. \A v \in Users : Reads(push[v])'
    BY <1>1 DEF TasksRead, Reads
  <2>2. \A v \in Users \ {u} : Reads(gen[v])'
    BY <1>1, <1>2 DEF TasksRead, Reads, GenTurns
  <2>. QED
    BY <1>1, <1>2, <2>1, <2>2 DEF TasksRead, GenTurns
<1>3. GenEnds(u) => TasksRead'
  BY <1>2, Defaults DEF GenEnds, Reads
<1>4. CASE gen' = gen
  BY <1>1, <1>4 DEF TasksRead, Reads
<1>5. CASE StartGenerate(u)
  BY <1>1, <1>2, <1>5, StartDoes DEF Reads
<1>6. CASE ReadProfile(u)
  BY <1>1, <1>2, <1>3, <1>6, ReadProfileDoes DEF Reads, ProfileRows, Revs
<1>7. CASE ReadQuotas(u)
  BY <1>1, <1>2, <1>3, <1>7, ReadQuotasDoes, SMTT(20) DEF ReadQuotas, GenAdvances, Reads, TasksRead
<1>8. CASE GiveAllowance(u)
  BY <1>1, <1>2, <1>3, <1>8, ProceedDoes, QuitDoes
     DEF GiveAllowance, GenAdvances, Reads, TasksRead
<1>9. CASE IssueKey(u)
  <2>1. CASE Quit(u)
    BY <1>1, <1>3, <2>1, QuitDoes
  <2>2. CASE ~Quit(u)
    <3>1. PICK k \in Keys : gen' = [gen EXCEPT ![u].at = "store", ![u].key = k]
      BY <1>9, <2>2 DEF IssueKey
    <3>2. gen[u].at = "create" /\ GenAdvances(u, "store") /\ gen'[u].q = gen[u].q
      BY <1>1, <1>9, <3>1, IssueKeyDoes DEF IssueKey
    <3>. QED
      BY <1>1, <1>2, <3>2 DEF GenAdvances, Reads, TasksRead
  <2>. QED
    BY <2>1, <2>2
<1>10. CASE StoreKey(u)
  BY <1>1, <1>2, <1>3, <1>10, StoreKeyDoes DEF Reads
<1>11. CASE RevokeOld(u)
  BY <1>1, <1>3, <1>11, QuitDoes DEF RevokeOld
<1>. QED
  BY <1>4, <1>5, <1>6, <1>7, <1>8, <1>9, <1>10, <1>11
     DEF User, Generate, Login, Expire, Extend, LoseOrRegain

LEMMA ReadNext == IInv /\ [Next]_vars => TasksRead'
<1>1. IInv /\ UNCHANGED vars => TasksRead'
  BY DEF vars, IInv, TasksRead, Reads
<1>. QED
  BY <1>1, ReadAdmin, ReadLoop, ReadPush, ReadUser DEF Next

-----------------------------------------------------------------------------
(* Whose keys they are. *)

(* What recording an outcome does to the rows.                              *)
LEMMA RecordDoes ==
  ASSUME row \in [Users -> KeyRows], push \in [Users -> Tasks],
         NEW u \in Users, NEW r \in KeyRows, NEW settled, Record(u, r, settled)
  PROVE  /\ Ends(u)
         /\ \A v \in Users \ {u} : row'[v] = row[v]
         /\ \/ row'[u] = row[u] /\ unrecorded' = unrecorded
            \/ row'[u] = row[u] /\ unrecorded' = unrecorded \ settled /\ row[u].key # push[u].key
            \/ row'[u] = r /\ unrecorded' = unrecorded \ settled /\ row[u].key = push[u].key
<1>1. Ends(u)
  BY DoneDoes DEF Record
<1>. QED
  BY <1>1 DEF Record, Write

LEMMA OutcomeDoes ==
  ASSUME row \in [Users -> KeyRows], push \in [Users -> Tasks], NEW u \in Users,
         CheckMissing(u) \/ MarkFailed(u) \/ MarkMissing(u)
  PROVE  /\ Ends(u) /\ gk' = gk /\ unrecorded' = unrecorded
         /\ \A v \in Users : Keeps(row'[v], row[v]) \/ row'[v].key = NoKey
<1>1. ASSUME NEW r \in KeyRows, Record(u, r, {}), Keeps(r, row[u]) \/ r.key = NoKey
      PROVE  /\ Ends(u) /\ gk' = gk /\ unrecorded' = unrecorded
             /\ \A v \in Users : Keeps(row'[v], row[v]) \/ row'[v].key = NoKey
  <2>1. gk' = gk
    BY <1>1 DEF Record, gateway
  <2>2. unrecorded \ {} = unrecorded
    OBVIOUS
  <2>3. /\ Ends(u) /\ unrecorded' = unrecorded
        /\ \A v \in Users \ {u} : row'[v] = row[v]
        /\ row'[u] = row[u] \/ row'[u] = r
    BY <1>1, <2>2, RecordDoes
  <2>. QED
    BY <1>1, <2>1, <2>3 DEF Keeps
<1>2. /\ NoRow \in KeyRows /\ NoRow.key = NoKey
      /\ row[u] \in KeyRows /\ Keeps(row[u], row[u])
  BY Defaults DEF Keeps
<1>3. ASSUME NEW x, x = [row[u] EXCEPT !.missing = FALSE, !.srev = 0]
      PROVE  x \in KeyRows /\ Keeps(x, row[u])
  BY <1>2, <1>3 DEF KeyRows, Keeps, Revs
<1>4. ASSUME NEW x, x = [row[u] EXCEPT !.failed = TRUE]
      PROVE  x \in KeyRows /\ Keeps(x, row[u])
  BY <1>2, <1>4 DEF KeyRows, Keeps
<1>5. ASSUME NEW x, x = [row[u] EXCEPT !.missing = TRUE]
      PROVE  x \in KeyRows /\ Keeps(x, row[u])
  BY <1>2, <1>5 DEF KeyRows, Keeps
<1>6. PICK x : x = [row[u] EXCEPT !.missing = FALSE, !.srev = 0]
  OBVIOUS
<1>7. CheckMissing(u) => Record(u, x, {}) \/ Record(u, NoRow, {}) \/ Record(u, row[u], {})
  BY <1>6 DEF CheckMissing
<1>8. MarkFailed(u) => \E y : y = [row[u] EXCEPT !.failed = TRUE] /\ Record(u, y, {})
  BY DEF MarkFailed
<1>9. MarkMissing(u) => \E y : y = [row[u] EXCEPT !.missing = TRUE] /\ Record(u, y, {})
  BY DEF MarkMissing
<1>. QED
  BY <1>1, <1>2, <1>3, <1>4, <1>5, <1>6, <1>7, <1>8, <1>9

LEMMA MarkDoes ==
  ASSUME row \in [Users -> KeyRows], push \in [Users -> Tasks], NEW u \in Users, Mark(u)
  PROVE  /\ Ends(u) /\ gk' = gk /\ push[u].at = "mark"
         /\ \A v \in Users \ {u} : row'[v] = row[v]
         /\ \/ row'[u] = row[u] /\ unrecorded' = unrecorded
            \/ /\ \A x \in unrecorded \ unrecorded' : x[1] = push[u].key
               /\ row'[u] = row[u] /\ row[u].key # push[u].key
            \/ /\ \A x \in unrecorded \ unrecorded' :
                    x[1] = push[u].key /\ (x[2] = "alias" => push[u].relabel)
               /\ row[u].key = push[u].key /\ row'[u].key = row[u].key
               /\ row'[u].sp = push[u].p /\ row'[u].srev = push[u].rev
               /\ row'[u].sname = push[u].name
<1>. DEFINE settled == {push[u].key} \X IF push[u].relabel THEN {"limits", "alias"}
                                                           ELSE {"limits"}
<1>1. PICK r : r = [row[u] EXCEPT !.sp = push[u].p, !.srev = push[u].rev,
                                  !.sname = push[u].name, !.failed = FALSE]
  OBVIOUS
<1>2. row[u] \in KeyRows /\ push[u] \in Tasks
  OBVIOUS
<1>3. /\ r \in KeyRows /\ r.key = row[u].key
      /\ r.sp = push[u].p /\ r.srev = push[u].rev /\ r.sname = push[u].name
  BY <1>1, <1>2 DEF KeyRows, Tasks
<1>4. push[u].at = "mark" /\ Record(u, r, settled)
  BY <1>1 DEF Mark
<1>5. gk' = gk
  BY <1>4 DEF Record, gateway
<1>6. \A x \in settled : x[1] = push[u].key /\ (x[2] = "alias" => push[u].relabel)
  OBVIOUS
<1>. HIDE DEF settled
<1>. QED
  BY <1>3, <1>4, <1>5, <1>6, RecordDoes

LEMMA ApartKept ==
  ASSUME IInv, gen' = gen,
         \A v \in Users : /\ row'[v].key \in {row[v].key, NoKey}
                          /\ push'[v].key \in {push[v].key, row[v].key, NoKey}
  PROVE  KeysApart'
<1>1. KeysApart
  BY DEF IInv
<1>2. \A v \in Users : Held(v)' \subseteq Held(v)
  BY DEF Held
<1>3. \A u, v \in Users : u # v => Held(u)' \intersect Held(v)' = {}
  BY <1>1, <1>2, Zenon DEF KeysApart
<1>4. ASSUME NEW u \in Users
      PROVE  /\ gen'[u].at # "store" => gen'[u].key = NoKey
             /\ gen'[u].at = "store" => /\ gen'[u].key \in Keys
                                        /\ gen'[u].key \notin {row'[u].key, push'[u].key,
                                                               gen'[u].old}
             /\ gen'[u].at = "revoke" => gen'[u].old \in Keys /\ gen'[u].old # row'[u].key
  BY <1>1, SyncAssumption DEF KeysApart
<1>. QED
  BY <1>3, <1>4 DEF KeysApart

LEMMA ApartGen ==
  ASSUME IInv, NEW u \in Users, GenTurns(u), row' = row, push' = push,
         gen'[u].key = NoKey, gen'[u].at \notin {"store", "revoke"},
         gen'[u].old \in {gen[u].old, row[u].key, NoKey}
  PROVE  KeysApart'
<1>1. KeysApart
  BY DEF IInv
<1>2. \A v \in Users : Held(v)' \subseteq Held(v)
  BY DEF Held, GenTurns
<1>3. \A x, v \in Users : x # v => Held(x)' \intersect Held(v)' = {}
  BY <1>1, <1>2, Zenon DEF KeysApart
<1>. QED
  BY <1>1, <1>3 DEF KeysApart, GenTurns

LEMMA ApartLoop ==
  ASSUME IInv, Admin \/ BeginRun \/ Fetch \/ Abort \/ Kill
  PROVE  KeysApart'
<1>1. /\ push \in [Users -> Tasks] /\ row \in [Users -> KeyRows] /\ name \in [Users -> Names]
      /\ dflt \in Profiles /\ assigned \in [Users -> Profiles \union {NoProfile}]
      /\ KeysApart
  BY DEF IInv, TypeOK
<1>2. CASE Admin
  <2>1. \A v \in Users : row'[v].key = row[v].key
    BY <1>1, <1>2, RowsKept
       DEF Admin, CreateProfile, UpdateProfile, DeleteProfile, Assign, Keeps
  <2>. QED
    BY <1>2, <2>1, ApartKept, AdminFrame
<1>3. CASE BeginRun
  <2>1. row' = row /\ gen' = gen
    BY <1>3 DEF BeginRun
  <2>. QED
    BY <1>1, <1>3, <2>1, ApartKept, BeginRunDoes
<1>4. CASE Fetch
  <2>1. gen' = gen
    BY <1>4 DEF Fetch
  <2>2. \A v \in Users : row'[v].key = row[v].key
    BY <1>1, <1>4, RowsKept DEF Keeps
  <2>3. \A v \in Users : push'[v].key \in {push[v].key, row[v].key, NoKey}
    BY <1>1, <1>4, FetchDoes, Defaults
  <2>. QED
    BY <2>1, <2>2, <2>3, ApartKept
<1>5. CASE Abort
  BY <1>5, ApartKept DEF Abort
<1>6. CASE Kill
  <2>1. row' = row /\ \A v \in Users : push'[v] = NoTask /\ gen'[v] = NoTask
    BY <1>6 DEF Kill
  <2>2. \A v \in Users : Held(v)' \subseteq Held(v)
    BY <2>1, Defaults DEF Held
  <2>3. \A x, v \in Users : x # v => Held(x)' \intersect Held(v)' = {}
    BY <1>1, <2>2, Zenon DEF KeysApart
  <2>. QED
    BY <2>1, <2>3, Defaults DEF KeysApart
<1>. QED
  BY <1>2, <1>3, <1>4, <1>5, <1>6

LEMMA ApartPush ==
  ASSUME IInv, NEW u \in Users, Push(u)
  PROVE  KeysApart'
<1>1. /\ push \in [Users -> Tasks] /\ row \in [Users -> KeyRows]
      /\ prof \in [Profiles -> ProfileRows]
      /\ push[u].at \in PushStages => push[u].p \in Profiles
  BY DEF IInv, TypeOK, TasksRead
<1>2. gen' = gen
  BY PushFrame
<1>3. ASSUME Ends(u), \A v \in Users : row'[v].key \in {row[v].key, NoKey}
      PROVE  KeysApart'
  BY <1>2, <1>3, ApartKept DEF Ends, Turns
<1>4. ASSUME NEW at, Advances(u, at) \/ Ends(u), row' = row
      PROVE  KeysApart'
  BY <1>2, <1>4, ApartKept DEF Advances, Ends, Turns
<1>5. CASE LoadProfile(u) \/ LoadQuotas(u)
  BY <1>1, <1>4, <1>5, LoadProfileDoes, LoadQuotasDoes DEF LoadProfile, LoadQuotas, PushStages
<1>6. CASE PushOwner(u) \/ PushKey(u) \/ PushAlias(u)
  <2>1. row' = row
    BY <1>6 DEF PushOwner, PushKey, PushAlias
  <2>. QED
    BY <1>1, <1>4, <1>6, <2>1, PushDoes
<1>7. CASE Mark(u)
  BY <1>1, <1>3, <1>7, MarkDoes
<1>8. CASE CheckMissing(u) \/ MarkFailed(u) \/ MarkMissing(u)
  BY <1>1, <1>3, <1>8, OutcomeDoes DEF Keeps
<1>. QED
  BY <1>5, <1>6, <1>7, <1>8 DEF Push

LEMMA ApartUser ==
  ASSUME IInv, NEW u \in Users, User(u)
  PROVE  KeysApart'
<1>1. /\ gen \in [Users -> Tasks] /\ prof \in [Profiles -> ProfileRows]
      /\ row \in [Users -> KeyRows] /\ dflt \in Profiles /\ name \in [Users -> Names]
      /\ assigned \in [Users -> Profiles \union {NoProfile}]
      /\ gen[u].at \in Reading => gen[u].p \in Profiles
      /\ KeysApart
  BY DEF IInv, TypeOK, TasksRead, Reads
<1>2. push' = push
  BY UserFrame
<1>3. ASSUME NEW n \in Names, Login(u, n) PROVE KeysApart'
  BY <1>2, <1>3, ApartKept DEF Login
<1>4. CASE LoseOrRegain(u)
  BY <1>2, <1>4, ApartKept DEF LoseOrRegain
<1>5. CASE Expire(u) \/ Extend(u)
  <2>1. gen' = gen /\ \A v \in Users : row'[v].key = row[v].key
    BY <1>1, <1>5, RowsKept DEF Expire, Extend, Keeps
  <2>. QED
    BY <1>2, <2>1, ApartKept
<1>6. ASSUME row' = row, GenEnds(u) PROVE KeysApart'
  BY <1>2, <1>6, ApartGen, Defaults DEF GenEnds
<1>7. CASE StartGenerate(u)
  BY <1>1, <1>2, <1>7, StartDoes, ApartGen DEF StartGenerate
<1>8. CASE ReadProfile(u)
  <2>1. row' = row
    BY <1>8 DEF ReadProfile
  <2>2. gen[u].at = "profile" => gen[u].key = NoKey
    BY <1>1 DEF KeysApart
  <2>. QED
    BY <1>1, <1>2, <1>6, <1>8, <2>1, <2>2, ReadProfileDoes, ApartGen
<1>9. CASE ReadQuotas(u) \/ GiveAllowance(u)
  <2>1. /\ row' = row /\ gen[u].key = NoKey /\ gen[u].p \in Profiles
        /\ GenAdvances(u, "owner") \/ GenAdvances(u, "create") \/ GenEnds(u)
        /\ gen'[u].key \in {gen[u].key, NoKey}
    BY <1>1, <1>9, ReadQuotasDoes, ProceedDoes, QuitDoes, Defaults
       DEF ReadQuotas, GiveAllowance, KeysApart, Reading, GenEnds
  <2>. QED
    BY <1>2, <1>6, <2>1, ApartGen DEF GenAdvances
<1>10. CASE IssueKey(u)
  <2>1. row' = row
    BY <1>10 DEF IssueKey
  <2>2. CASE Quit(u)
    BY <1>1, <1>6, <2>1, <2>2, QuitDoes
  <2>3. CASE ~Quit(u)
    <3>1. PICK k \in Keys : /\ k \notin Known
                            /\ gen' = [gen EXCEPT ![u].at = "store", ![u].key = k]
      BY <1>10, <2>3 DEF IssueKey
    <3>2. GenAdvances(u, "store") /\ gen'[u].key = k
      BY <1>1, <3>1, IssueKeyDoes
    <3>3. \A v \in Users : k \notin Held(v) /\ k # NoKey
      BY <3>1, SyncAssumption DEF Known, Held
    <3>4. \A v \in Users \ {u} : Held(v)' = Held(v)
      BY <1>2, <2>1, <3>2 DEF Held, GenAdvances, GenTurns
    <3>5. Held(u)' \subseteq Held(u) \union {k}
      BY <1>2, <2>1, <3>2 DEF Held, GenAdvances
    <3>6. \A x, v \in Users : x # v => Held(x)' \intersect Held(v)' = {}
      BY <1>1, <3>3, <3>4, <3>5 DEF KeysApart
    <3>7. k \notin {row[u].key, push[u].key, gen[u].old}
      BY <3>1 DEF Known
    <3>. QED
      BY <1>1, <1>2, <2>1, <3>2, <3>6, <3>7 DEF KeysApart, GenAdvances, GenTurns
  <2>. QED
    BY <2>2, <2>3
<1>11. CASE StoreKey(u)
  <2>1. GenTurns(u) /\ gen'[u].key = NoKey /\ gen'[u].old \in {gen[u].old, NoKey}
    BY <1>1, <1>11, StoreKeyDoes, Defaults DEF GenEnds
  <2>2. gen[u].at = "store" /\ gen[u].key \in Keys /\ gen[u].key # gen[u].old
    BY <1>1, <1>11 DEF StoreKey, KeysApart
  <2>3. \/ row' = row
        \/ /\ \A v \in Users \ {u} : row'[v] = row[v]
           /\ row'[u].key = gen[u].key
    BY <1>1, <1>11, StoreKeyWrites
  <2>4. \A v \in Users : Held(v)' \subseteq Held(v)
    BY <1>2, <2>1, <2>3 DEF Held, GenTurns
  <2>5. \A x, v \in Users : x # v => Held(x)' \intersect Held(v)' = {}
    BY <1>1, <2>4, Zenon DEF KeysApart
  <2>6. ASSUME gen'[u].at = "revoke"
        PROVE  gen'[u].old \in Keys /\ gen'[u].old # row'[u].key
    <3>1. gen'[u].old = gen[u].old /\ gen[u].old # NoKey
      BY <1>1, <1>11, <2>6, StoreKeyDoes, Defaults DEF GenEnds
    <3>2. gen[u].old \in Keys
      BY <1>1, <3>1 DEF Tasks
    <3>3. row'[u].key = gen[u].key
      <4>1. ~Quit(u)
        BY <1>1, <2>6, Defaults DEF Quit
      <4>. QED
        BY <1>1, <1>11, <4>1, StoreKeyWrites
    <3>. QED
      BY <2>2, <3>1, <3>2, <3>3
  <2>7. gen'[u].at # "store"
    BY <1>1, <1>11, StoreKeyDoes, Defaults DEF GenEnds
  <2>8. \A v \in Users \ {u} : gen'[v] = gen[v] /\ row'[v] = row[v] /\ push'[v] = push[v]
    BY <1>2, <2>1, <2>3 DEF GenTurns
  <2>9. ASSUME NEW v \in Users \ {u}
        PROVE  /\ gen'[v].at # "store" => gen'[v].key = NoKey
               /\ gen'[v].at = "store" => /\ gen'[v].key \in Keys
                                          /\ gen'[v].key \notin {row'[v].key, push'[v].key,
                                                                 gen'[v].old}
               /\ gen'[v].at = "revoke" => gen'[v].old \in Keys /\ gen'[v].old # row'[v].key
    BY <1>1, <2>8 DEF KeysApart
  <2>. QED
    BY <2>1, <2>5, <2>6, <2>7, <2>9 DEF KeysApart
<1>12. CASE RevokeOld(u)
  BY <1>1, <1>6, <1>12, QuitDoes DEF RevokeOld
<1>. QED
  BY <1>3, <1>4, <1>5, <1>7, <1>8, <1>9, <1>10, <1>11, <1>12 DEF User, Generate

LEMMA ApartNext == IInv /\ [Next]_vars => KeysApart'
<1>1. IInv /\ UNCHANGED vars => KeysApart'
  BY ApartKept DEF vars
<1>. QED
  BY <1>1, ApartLoop, ApartPush, ApartUser DEF Next

-----------------------------------------------------------------------------
(* What was written, and what the rows say of it. *)

(* The profiles after a step, as the rows and tasks need them.              *)
GoOn == \A p \in Profiles : /\ Onward(prof[p], prof'[p])
                            /\ prof[p].rev \in Nat /\ prof'[p].rev \in Nat
                            /\ prof'[p].st = "alive" => prof'[p].rev >= 1

LEMMA AllGoOn == IInv /\ [Next]_vars => GoOn
<1>. SUFFICES ASSUME IInv, [Next]_vars PROVE GoOn
  OBVIOUS
<1>1. prof \in [Profiles -> ProfileRows] /\ prof' \in [Profiles -> ProfileRows]
  BY TypeNext DEF IInv, TypeOK
<1>2. \A p \in Profiles : prof'[p].st = "alive" => prof'[p].rev >= 1
  BY StandNext DEF ProfilesStand
<1>3. Admin \/ prof' = prof
  BY LoopFrame, PushFrame, UserFrame DEF Next, vars
<1>4. prof' = prof => \A p \in Profiles : Onward(prof[p], prof'[p])
  BY <1>1 DEF Onward, ProfileRows, Revs
<1>5. \A p \in Profiles : Onward(prof[p], prof'[p])
  BY <1>1, <1>3, <1>4, ProfilesGoOn
<1>6. \A p \in Profiles : prof[p].rev \in Nat /\ prof'[p].rev \in Nat
  BY <1>1 DEF ProfileRows, Revs
<1>. QED
  BY <1>2, <1>5, <1>6 DEF GoOn

(* A key nobody writes to in this step, or whose change is not on record.   *)
SameKey(k) == gk'[k].s = gk[k].s /\ gk'[k].q = gk[k].q /\ gk'[k].alias = gk[k].alias

Stays(k) == /\ \/ <<k, "limits">> \in unrecorded'
               \/ /\ <<k, "limits">> \notin unrecorded
                  /\ gk'[k].s = gk[k].s /\ gk'[k].q = gk[k].q
            /\ \/ <<k, "alias">> \in unrecorded'
               \/ <<k, "alias">> \notin unrecorded /\ gk'[k].alias = gk[k].alias

LEMMA Others ==
  ASSUME IInv, NEW u \in Users, NEW v \in Users, u # v, NEW k \in Keys,
         k \in {row[u].key, push[u].key, gen[u].key, gen[u].old}
  PROVE  k \notin {row[v].key, push[v].key, gen[v].key, gen[v].old}
  BY SyncAssumption DEF IInv, KeysApart, Held

LEMMA PushCarriedKept ==
  ASSUME IInv, NEW v \in Users,
         push'[v].at \in PushStages =>
           push'[v] = push[v] /\ (row[v].key = push[v].key => SameKey(push[v].key)),
         Keeps(row'[v], row[v]) \/ row'[v].key = NoKey \/ row'[v].key # push'[v].key
  PROVE  PushCarried(v)'
<1>1. /\ PushCarried(v)
      /\ push[v].at \in PushStages => push[v].key \in Keys
  BY DEF IInv, Carried, TasksRead
<1>. QED
  BY <1>1, SyncAssumption DEF PushCarried, Keeps, SameKey

LEMMA GenCarriedKept ==
  ASSUME IInv, NEW v \in Users,
         gen'[v].at = "store" => gen'[v] = gen[v] /\ SameKey(gen[v].key)
  PROVE  GenCarried(v)'
  BY DEF IInv, Carried, GenCarried, SameKey

LEMMA TellsKept ==
  ASSUME IInv, GoOn, NEW v \in Users,
         Keeps(row'[v], row[v]) \/ row'[v].key = NoKey,
         row[v].key # NoKey => Stays(row[v].key)
  PROVE  Tells(v)'
<1>. SUFFICES ASSUME row'[v].key # NoKey PROVE Tells(v)'
  BY DEF Tells
<1>1. Tells(v) /\ row[v].srev \in Nat
  BY DEF IInv, RowsTell, TypeOK, KeyRows, Revs
<1>2. Keeps(row'[v], row[v]) /\ Stays(row[v].key) /\ row[v].key # NoKey
  BY DEF Keeps
<1>3. /\ row[v].sp \in Profiles /\ prof[row[v].sp].st # "unborn"
      /\ prof[row[v].sp].st = "alive" => row[v].srev <= prof[row[v].sp].rev
      /\ prof[row[v].sp].st = "alive" /\ row[v].srev = prof[row[v].sp].rev
           /\ <<row[v].key, "limits">> \notin unrecorded
         => gk[row[v].key].s = prof[row[v].sp].s /\ gk[row[v].key].q = prof[row[v].sp].q
      /\ <<row[v].key, "alias">> \notin unrecorded => gk[row[v].key].alias = row[v].sname
  BY <1>1, <1>2 DEF Tells
<1>4. PICK p \in Profiles : p = row[v].sp
  BY <1>3
<1>5. /\ Onward(prof[p], prof'[p])
      /\ prof[p].rev \in Nat /\ prof'[p].rev \in Nat
      /\ prof'[p].st = "alive" => prof'[p].rev >= 1
  BY DEF GoOn
<1>6. /\ row'[v].key = row[v].key /\ row'[v].sp = p /\ row'[v].sname = row[v].sname
      /\ row'[v].srev \in {row[v].srev, 0}
  BY <1>2, <1>4 DEF Keeps
<1>7. /\ prof'[p].st # "unborn"
      /\ prof'[p].st = "alive" => row'[v].srev <= prof'[p].rev
  BY <1>1, <1>3, <1>4, <1>5, <1>6 DEF Onward
<1>8. ASSUME prof'[p].st = "alive", row'[v].srev = prof'[p].rev,
             <<row[v].key, "limits">> \notin unrecorded'
      PROVE  gk'[row[v].key].s = prof'[p].s /\ gk'[row[v].key].q = prof'[p].q
  <2>1. row[v].srev = prof'[p].rev
    BY <1>5, <1>6, <1>8
  <2>2. prof[p].st = "alive" /\ row[v].srev = prof[p].rev
        /\ prof[p].s = prof'[p].s /\ prof[p].q = prof'[p].q
    BY <1>1, <1>3, <1>4, <1>5, <1>8, <2>1 DEF Onward
  <2>3. <<row[v].key, "limits">> \notin unrecorded
        /\ gk'[row[v].key].s = gk[row[v].key].s /\ gk'[row[v].key].q = gk[row[v].key].q
    BY <1>2, <1>8 DEF Stays
  <2>. QED
    BY <1>3, <1>4, <2>2, <2>3
<1>9. <<row[v].key, "alias">> \notin unrecorded' => gk'[row[v].key].alias = row'[v].sname
  BY <1>2, <1>3, <1>6 DEF Stays
<1>. QED
  BY <1>6, <1>7, <1>8, <1>9 DEF Tells

(* A step that writes to no key and records nothing.                        *)
LEMMA AllKept ==
  ASSUME IInv, GoOn, UNCHANGED <<gk, unrecorded>>,
         \A v \in Users : Keeps(row'[v], row[v]) \/ row'[v].key = NoKey,
         \A v \in Users : push'[v].at \in PushStages => push'[v] = push[v],
         \A v \in Users : gen'[v].at = "store" => gen'[v] = gen[v]
  PROVE  Carried' /\ RowsTell'
<1>1. \A v \in Users : PushCarried(v)'
  BY PushCarriedKept DEF SameKey
<1>2. \A v \in Users : GenCarried(v)'
  BY GenCarriedKept DEF SameKey
<1>3. \A v \in Users : Tells(v)'
  BY TellsKept DEF Stays
<1>. QED
  BY <1>1, <1>2, <1>3 DEF Carried, RowsTell

LEMMA TellAdmin == ASSUME IInv, GoOn, Admin PROVE Carried' /\ RowsTell'
<1>1. UNCHANGED <<gk, unrecorded, push, gen>>
  BY AdminFrame
<1>2. row \in [Users -> KeyRows]
  BY DEF IInv, TypeOK
<1>3. \A v \in Users : Keeps(row'[v], row[v])
  BY <1>2, RowsKept DEF Admin, CreateProfile, UpdateProfile, DeleteProfile, Assign, Keeps
<1>. QED
  BY <1>1, <1>3, AllKept

LEMMA TellLoop ==
  ASSUME IInv, GoOn, BeginRun \/ Fetch \/ Abort \/ Kill
  PROVE  Carried' /\ RowsTell'
<1>1. UNCHANGED <<gk, unrecorded>>
  BY LoopFrame
<1>2. /\ push \in [Users -> Tasks] /\ row \in [Users -> KeyRows] /\ name \in [Users -> Names]
      /\ dflt \in Profiles /\ assigned \in [Users -> Profiles \union {NoProfile}]
  BY DEF IInv, TypeOK
<1>3. CASE BeginRun
  <2>1. gen' = gen /\ \A v \in Users : Keeps(row'[v], row[v])
    BY <1>3 DEF BeginRun, Keeps
  <2>2. \A v \in Users : push'[v].at \in PushStages => push'[v] = push[v]
    BY <1>2, <1>3, BeginRunDoes DEF PushStages
  <2>. QED
    BY <1>1, <2>1, <2>2, AllKept
<1>4. CASE Fetch
  <2>1. gen' = gen /\ \A v \in Users : Keeps(row'[v], row[v])
    BY <1>2, <1>4, RowsKept DEF Fetch
  <2>2. ASSUME NEW v \in Users PROVE PushCarried(v)'
    <3>1. CASE push'[v] = push[v] \/ push'[v] = NoTask
      BY <1>1, <2>1, <3>1, PushCarriedKept, Defaults DEF PushStages, SameKey
    <3>2. CASE /\ push'[v].at = "profile"
               /\ push'[v].name = name[v] /\ push'[v].relabel = (row[v].sname # name[v])
      BY <2>1, <3>2 DEF PushCarried, Keeps
    <3>. QED
      BY <1>2, <1>4, <3>1, <3>2, FetchDoes
  <2>3. \A v \in Users : GenCarried(v)'
    BY <1>1, <2>1, GenCarriedKept DEF SameKey
  <2>4. \A v \in Users : Tells(v)'
    BY <1>1, <2>1, TellsKept DEF Stays
  <2>. QED
    BY <2>2, <2>3, <2>4 DEF Carried, RowsTell
<1>5. CASE Abort
  BY <1>1, <1>5, AllKept DEF Abort, Keeps
<1>6. CASE Kill
  <2>1. \A v \in Users : push'[v].at = "out" /\ gen'[v].at = "out" /\ Keeps(row'[v], row[v])
    BY <1>6, Defaults DEF Kill, Keeps
  <2>. QED
    BY <1>1, <2>1, AllKept DEF PushStages
<1>. QED
  BY <1>3, <1>4, <1>5, <1>6

LEMMA TellPush == ASSUME IInv, GoOn, NEW u \in Users, Push(u) PROVE Carried' /\ RowsTell'
<1>1. gen' = gen
  BY PushFrame
<1>2. /\ push \in [Users -> Tasks] /\ row \in [Users -> KeyRows] /\ gk \in [Keys -> GwKeys]
      /\ prof \in [Profiles -> ProfileRows]
      /\ push[u].at \in PushStages => push[u].key \in Keys /\ push[u].p \in Profiles
      /\ PushCarried(u) /\ Reads(push[u])
  BY DEF IInv, TypeOK, TasksRead, Carried
<1>3. \A v \in Users : Keeps(row[v], row[v])
  BY DEF Keeps
<1>4. CASE CheckMissing(u) \/ MarkFailed(u) \/ MarkMissing(u)
  <2>1. Ends(u) /\ UNCHANGED <<gk, unrecorded>>
        /\ \A v \in Users : Keeps(row'[v], row[v]) \/ row'[v].key = NoKey
    BY <1>2, <1>4, OutcomeDoes
  <2>. QED
    BY <1>1, <2>1, AllKept DEF Ends, Turns, PushStages
(* The profile's row, its windows, the owner: the key is not written to.    *)
<1>5. ASSUME Advances(u, "quotas") \/ Advances(u, "owner") \/ Advances(u, "key") \/ Ends(u),
             UNCHANGED <<gk, row>>, unrecorded \subseteq unrecorded',
             push[u].at \in PushStages
      PROVE  Carried' /\ RowsTell'
  <2>1. PushCarried(u)'
    <3>1. CASE Ends(u)
      BY <1>3, <1>5, <3>1, PushCarriedKept DEF Ends, PushStages
    <3>2. CASE ~Ends(u)
      BY <1>2, <1>5, <3>2 DEF Advances, PushCarried
    <3>. QED
      BY <3>1, <3>2
  <2>2. \A v \in Users \ {u} : PushCarried(v)'
    BY <1>3, <1>5, PushCarriedKept DEF Advances, Ends, Turns, SameKey
  <2>3. \A v \in Users : GenCarried(v)'
    BY <1>1, <1>5, GenCarriedKept DEF SameKey
  <2>4. \A v \in Users : Tells(v)'
    BY <1>3, <1>5, TellsKept DEF Stays
  <2>. QED
    BY <2>1, <2>2, <2>3, <2>4 DEF Carried, RowsTell
<1>6. CASE LoadProfile(u) \/ LoadQuotas(u)
  <2>1. UNCHANGED <<gk, row>> /\ unrecorded \subseteq unrecorded' /\ push[u].at \in PushStages
    BY <1>6 DEF LoadProfile, LoadQuotas, gateway, PushStages
  <2>. QED
    BY <1>2, <1>5, <1>6, <2>1, LoadProfileDoes, LoadQuotasDoes
<1>7. CASE PushOwner(u)
  <2>1. UNCHANGED <<gk, row>> /\ unrecorded \subseteq unrecorded' /\ push[u].at \in PushStages
    BY <1>7 DEF PushOwner, PushStages
  <2>. QED
    BY <1>2, <1>5, <1>7, <2>1, PushDoes
(* The key is written to: nobody else is about it, and it is not on record. *)
<1>8. ASSUME NEW k \in Keys, k = push[u].key, push[u].at \in PushStages, Turns(u), row' = row,
             \A x \in Keys \ {k} : gk'[x] = gk[x],
             unrecorded \subseteq unrecorded', Stays(k), PushCarried(u)'
      PROVE  Carried' /\ RowsTell'
  <2>1. ASSUME NEW v \in Users \ {u}
        PROVE  PushCarried(v)' /\ GenCarried(v)'
    <3>1. k \notin {row[v].key, push[v].key, gen[v].key, gen[v].old}
      BY <1>8, Others
    <3>2. /\ push[v].at \in PushStages => push[v].key \in Keys
          /\ gen[v].at = "store" => gen[v].key \in Keys
      BY DEF IInv, TasksRead, KeysApart
    <3>3. push'[v] = push[v]
      BY <1>8 DEF Turns
    <3>. QED
      BY <1>1, <1>3, <1>8, <3>1, <3>2, <3>3, PushCarriedKept, GenCarriedKept DEF SameKey
  <2>2. GenCarried(u)'
    <3>1. gen[u].at = "store" => gen[u].key \in Keys /\ gen[u].key # push[u].key
      BY DEF IInv, KeysApart
    <3>. QED
      BY <1>1, <1>8, <3>1, GenCarriedKept DEF SameKey
  <2>3. \A v \in Users : Tells(v)'
    <3>1. \A x \in Keys : Stays(x)
      BY <1>8 DEF Stays
    <3>2. \A v \in Users : row[v].key # NoKey => row[v].key \in Keys
      BY <1>2 DEF KeyRows
    <3>. QED
      BY <1>3, <1>8, <3>1, <3>2, TellsKept
  <2>. QED
    BY <1>8, <2>1, <2>2, <2>3 DEF Carried, RowsTell
<1>9. CASE PushKey(u)
  <2>1. PICK k \in Keys : k = push[u].key
    BY <1>2, <1>9 DEF PushKey, PushStages
  <2>2. /\ push[u].at = "key" /\ push[u].at \in PushStages /\ row' = row
        /\ unrecorded \subseteq unrecorded'
        /\ \/ UNCHANGED <<gk, unrecorded>> /\ Ends(u)
           \/ /\ gk' = [gk EXCEPT ![k].s = push[u].s, ![k].q = push[u].q]
              /\ <<k, "limits">> \in unrecorded'
              /\ unrecorded' = unrecorded \union {<<k, "limits">>}
              /\ \/ Ends(u)
                 \/ /\ SameLimits(u)
                    /\ Advances(u, IF push[u].relabel THEN "alias" ELSE "mark")
    BY <1>2, <1>9, <2>1, GoDoes, GiveUpDoes DEF PushKey, PushStages
  <2>3. CASE UNCHANGED <<gk, unrecorded>> /\ Ends(u)
    BY <1>5, <2>2, <2>3
  <2>4. CASE /\ gk' = [gk EXCEPT ![k].s = push[u].s, ![k].q = push[u].q]
             /\ unrecorded' = unrecorded \union {<<k, "limits">>}
             /\ \/ Ends(u)
                \/ /\ SameLimits(u)
                   /\ Advances(u, IF push[u].relabel THEN "alias" ELSE "mark")
    <3>1. /\ gk'[k].s = push[u].s /\ gk'[k].q = push[u].q /\ gk'[k].alias = gk[k].alias
          /\ \A x \in Keys \ {k} : gk'[x] = gk[x]
      BY <1>2, <2>4 DEF GwKeys
    <3>2. Stays(k)
      BY <2>4, <3>1 DEF Stays
    <3>3. CASE Ends(u)
      <4>1. PushCarried(u)'
        BY <3>3 DEF Ends, PushCarried, PushStages
      <4>. QED
        BY <1>8, <2>1, <2>2, <2>4, <3>1, <3>2, <3>3, <4>1 DEF Ends
    <3>4. CASE SameLimits(u) /\ Advances(u, IF push[u].relabel THEN "alias" ELSE "mark")
      <4>1. PushCarried(u)'
        BY <1>2, <2>1, <2>2, <3>1, <3>4 DEF Advances, SameLimits, PushCarried
      <4>. QED
        BY <1>8, <2>1, <2>2, <2>4, <3>1, <3>2, <3>4, <4>1 DEF Advances
    <3>. QED
      BY <2>4, <3>3, <3>4
  <2>. QED
    BY <2>2, <2>3, <2>4
<1>10. CASE PushAlias(u)
  <2>1. PICK k \in Keys : k = push[u].key
    BY <1>2, <1>10 DEF PushAlias, PushStages
  <2>2. /\ push[u].at = "alias" /\ push[u].at \in PushStages /\ row' = row
        /\ unrecorded \subseteq unrecorded'
        /\ \/ UNCHANGED <<gk, unrecorded>> /\ Ends(u)
           \/ /\ gk' = [gk EXCEPT ![k].alias = push[u].name]
              /\ unrecorded' = unrecorded \union {<<k, "alias">>}
              /\ \/ Ends(u)
                 \/ SameLimits(u) /\ Advances(u, "mark")
    BY <1>2, <1>10, <2>1, GoDoes, GiveUpDoes DEF PushAlias, PushStages
  <2>3. CASE UNCHANGED <<gk, unrecorded>> /\ Ends(u)
    BY <1>5, <2>2, <2>3
  <2>4. CASE /\ gk' = [gk EXCEPT ![k].alias = push[u].name]
             /\ unrecorded' = unrecorded \union {<<k, "alias">>}
             /\ \/ Ends(u)
                \/ SameLimits(u) /\ Advances(u, "mark")
    <3>1. /\ gk'[k].s = gk[k].s /\ gk'[k].q = gk[k].q /\ gk'[k].alias = push[u].name
          /\ \A x \in Keys \ {k} : gk'[x] = gk[x]
      BY <1>2, <2>4 DEF GwKeys
    <3>2. Stays(k)
      BY <2>4, <3>1 DEF Stays
    <3>3. CASE Ends(u)
      <4>1. PushCarried(u)'
        BY <3>3 DEF Ends, PushCarried, PushStages
      <4>. QED
        BY <1>8, <2>1, <2>2, <2>4, <3>1, <3>2, <3>3, <4>1 DEF Ends
    <3>4. CASE SameLimits(u) /\ Advances(u, "mark")
      <4>1. PushCarried(u)'
        BY <1>2, <2>1, <2>2, <3>1, <3>4 DEF Advances, SameLimits, PushCarried
      <4>. QED
        BY <1>8, <2>1, <2>2, <2>4, <3>1, <3>2, <3>4, <4>1 DEF Advances
    <3>. QED
      BY <2>4, <3>3, <3>4
  <2>. QED
    BY <2>2, <2>3, <2>4
(* The record is made of what the key was given.                            *)
<1>11. CASE Mark(u)
  <2>1. /\ Ends(u) /\ gk' = gk /\ push[u].at = "mark"
        /\ \A v \in Users \ {u} : row'[v] = row[v]
        /\ row'[u].key = row[u].key
    BY <1>2, <1>11, MarkDoes
  <2>2. PICK k \in Keys : k = push[u].key
    BY <1>2, <2>1 DEF PushStages
  <2>3. \A x \in unrecorded \ unrecorded' : x[1] = k
    BY <1>2, <1>11, <2>2, MarkDoes
  <2>4. \A x \in Keys \ {k} : Stays(x)
    BY <2>1, <2>3 DEF Stays
  <2>5. ASSUME NEW v \in Users \ {u}
        PROVE  PushCarried(v)' /\ Tells(v)'
    <3>1. row[v].key # k /\ (row[v].key # NoKey => row[v].key \in Keys)
      BY <1>2, <2>2, Others DEF KeyRows
    <3>2. push'[v] = push[v] /\ Keeps(row'[v], row[v])
      BY <1>3, <2>1 DEF Ends, Turns
    <3>. QED
      BY <2>1, <2>4, <3>1, <3>2, PushCarriedKept, TellsKept DEF SameKey
  <2>6. PushCarried(u)' /\ \A v \in Users : GenCarried(v)'
    BY <1>1, <2>1, GenCarriedKept DEF Ends, PushCarried, PushStages, SameKey
  <2>7. Tells(u)'
    <3>1. CASE row'[u] = row[u] /\ unrecorded' = unrecorded
      BY <1>3, <2>1, <3>1, TellsKept DEF Stays
    <3>2. CASE row'[u] = row[u] /\ row[u].key # push[u].key
      <4>1. row[u].key # NoKey => Stays(row[u].key)
        BY <1>2, <2>2, <2>4, <3>2 DEF KeyRows
      <4>. QED
        BY <1>3, <3>2, <4>1, TellsKept
    <3>3. CASE /\ \A x \in unrecorded \ unrecorded' :
                    x[1] = push[u].key /\ (x[2] = "alias" => push[u].relabel)
               /\ row[u].key = push[u].key /\ row'[u].key = row[u].key
               /\ row'[u].sp = push[u].p /\ row'[u].srev = push[u].rev
               /\ row'[u].sname = push[u].name
      <4>1. /\ gk[k].s = push[u].s /\ gk[k].q = push[u].q
            /\ push[u].relabel => gk[k].alias = push[u].name
            /\ ~push[u].relabel => row[u].sname = push[u].name
        BY <1>2, <2>1, <2>2, <3>3 DEF PushCarried, PushStages
      <4>2. PICK p \in Profiles : p = push[u].p
        BY <1>2, <2>1 DEF PushStages
      <4>3. /\ prof[p].st # "unborn"
            /\ prof[p].st = "alive" => push[u].rev <= prof[p].rev
            /\ prof[p].st = "alive" /\ push[u].rev = prof[p].rev
                 => push[u].s = prof[p].s /\ push[u].q = prof[p].q
        BY <1>2, <2>1, <4>2 DEF Reads, Reading
      <4>4. prof' = prof
        BY PushFrame
      <4>5. <<k, "alias">> \notin unrecorded' => gk[k].alias = push[u].name
        <5>1. CASE push[u].relabel
          BY <4>1, <5>1
        <5>2. CASE ~push[u].relabel
          <6>1. <<k, "alias">> \notin unrecorded' => <<k, "alias">> \notin unrecorded
            BY <3>3, <5>2
          <6>2. <<k, "alias">> \notin unrecorded => gk[k].alias = row[u].sname
            BY <2>2, <3>3, SyncAssumption DEF IInv, RowsTell, Tells
          <6>. QED
            BY <4>1, <5>2, <6>1, <6>2
        <5>. QED
          BY <5>1, <5>2
      <4>. QED
        BY <2>1, <2>2, <3>3, <4>1, <4>2, <4>3, <4>4, <4>5 DEF Tells
    <3>. QED
      BY <1>2, <1>11, <3>1, <3>2, <3>3, MarkDoes
  <2>. QED
    BY <2>5, <2>6, <2>7 DEF Carried, RowsTell
<1>. QED
  BY <1>4, <1>6, <1>7, <1>9, <1>10, <1>11 DEF Push

LEMMA TellUser == ASSUME IInv, GoOn, NEW u \in Users, User(u) PROVE Carried' /\ RowsTell'
<1>1. push' = push /\ prof' = prof
  BY UserFrame
<1>2. /\ gen \in [Users -> Tasks] /\ row \in [Users -> KeyRows] /\ gk \in [Keys -> GwKeys]
      /\ prof \in [Profiles -> ProfileRows] /\ dflt \in Profiles /\ name \in [Users -> Names]
      /\ assigned \in [Users -> Profiles \union {NoProfile}]
      /\ gen[u].at \in Reading => gen[u].p \in Profiles
  BY DEF IInv, TypeOK, TasksRead, Reads
<1>3. \A v \in Users : Keeps(row[v], row[v])
  BY DEF Keeps
<1>4. /\ \A v \in Users : row[v].key # NoKey => row[v].key \in Keys
      /\ \A v \in Users : push[v].at \in PushStages => push[v].key \in Keys
      /\ \A v \in Users : gen[v].at = "store" => gen[v].key \in Keys
  BY <1>2 DEF IInv, TasksRead, KeysApart, KeyRows
<1>5. ASSUME NEW n \in Names, Login(u, n) PROVE Carried' /\ RowsTell'
  BY <1>1, <1>3, <1>5, AllKept DEF Login, gateway
<1>6. CASE Expire(u) \/ Extend(u)
  <2>1. UNCHANGED <<gk, unrecorded, gen>>
    BY <1>6 DEF Expire, Extend, gateway
  <2>. QED
    BY <1>1, <1>2, <1>6, <2>1, RowsKept, AllKept
<1>7. ASSUME \A k \in Keys : SameKey(k) /\ Stays(k), row' = row,
             \A v \in Users : gen'[v].at = "store" => gen'[v] = gen[v]
      PROVE  Carried' /\ RowsTell'
  BY <1>1, <1>3, <1>4, <1>7, PushCarriedKept, GenCarriedKept, TellsKept DEF Carried, RowsTell
<1>8. CASE LoseOrRegain(u)
  <2>1. row[u].key \in Keys /\ unrecorded' = unrecorded /\ row' = row /\ gen' = gen
    BY <1>4, <1>8 DEF LoseOrRegain
  <2>2. \A k \in Keys : SameKey(k)
    BY <1>2, <1>8, <2>1 DEF LoseOrRegain, GwKeys, SameKey
  <2>. QED
    BY <1>7, <2>1, <2>2 DEF Stays, SameKey
(* Reading, and the owner's allowance: no key is written to.                *)
<1>9. ASSUME GenTurns(u), gen'[u].at # "store", UNCHANGED <<gk, row, unrecorded>>
      PROVE  Carried' /\ RowsTell'
  BY <1>7, <1>9 DEF GenTurns, SameKey, Stays
<1>10. CASE StartGenerate(u)
  BY <1>2, <1>9, <1>10, StartDoes DEF StartGenerate, gateway
<1>11. CASE ReadProfile(u) \/ ReadQuotas(u) \/ GiveAllowance(u)
  <2>1. UNCHANGED <<gk, row, unrecorded>>
    BY <1>11 DEF ReadProfile, ReadQuotas, GiveAllowance, gateway
  <2>2. GenTurns(u) /\ gen'[u].at # "store"
    BY <1>2, <1>11, ReadProfileDoes, ReadQuotasDoes, ProceedDoes, QuitDoes, Defaults
       DEF ReadQuotas, GiveAllowance, Reading, GenAdvances, GenEnds
  <2>. QED
    BY <1>9, <2>1, <2>2
(* A key is written to that no row and no push is about.                    *)
<1>12. ASSUME NEW k \in Keys, row' = row,
              \A x \in Keys \ {k} : gk'[x] = gk[x],
              \A x \in Keys \ {k}, f \in {"limits", "alias"} :
                <<x, f>> \in unrecorded' <=> <<x, f>> \in unrecorded,
              \A v \in Users : k # row[v].key,
              \A v \in Users : k # push[v].key \/ k # row[v].key,
              \A v \in Users : gen'[v].at = "store" => GenCarried(v)'
       PROVE  Carried' /\ RowsTell'
  <2>1. \A x \in Keys \ {k} : SameKey(x) /\ Stays(x)
    BY <1>12 DEF SameKey, Stays
  <2>2. \A v \in Users : PushCarried(v)'
    BY <1>1, <1>3, <1>4, <1>12, <2>1, PushCarriedKept
  <2>3. \A v \in Users : GenCarried(v)'
    BY <1>12 DEF GenCarried
  <2>4. \A v \in Users : Tells(v)'
    BY <1>3, <1>4, <1>12, <2>1, TellsKept
  <2>. QED
    BY <2>2, <2>3, <2>4 DEF Carried, RowsTell
<1>13. CASE IssueKey(u)
  <2>1. row' = row /\ gen[u].at = "create"
    BY <1>13 DEF IssueKey
  <2>2. CASE UNCHANGED <<gk, unrecorded>> /\ Quit(u)
    BY <1>2, <1>9, <2>1, <2>2, QuitDoes, Defaults DEF GenEnds
  <2>3. CASE ~(UNCHANGED <<gk, unrecorded>> /\ Quit(u))
    <3>1. PICK k \in Keys :
            /\ k \notin Known
            /\ gk' = [gk EXCEPT ![k] = [on |-> TRUE, s |-> gen[u].s, q |-> gen[u].q,
                                        alias |-> gen[u].name]]
            /\ unrecorded' = unrecorded \ ({k} \X {"limits", "alias"})
            /\ \/ gen' = [gen EXCEPT ![u].at = "store", ![u].key = k]
               \/ Quit(u)
      BY <1>13, <2>3 DEF IssueKey
    <3>2. /\ gk'[k].s = gen[u].s /\ gk'[k].q = gen[u].q /\ gk'[k].alias = gen[u].name
          /\ \A x \in Keys \ {k} : gk'[x] = gk[x]
      BY <1>2, <3>1
    <3>3. \A v \in Users : k # row[v].key /\ k # gen[v].key
      BY <3>1 DEF Known
    <3>4. \A x \in Keys \ {k}, f \in {"limits", "alias"} :
            <<x, f>> \in unrecorded' <=> <<x, f>> \in unrecorded
      BY <3>1
    <3>5. GenCarried(u)'
      <4>1. CASE Quit(u)
        BY <1>2, <4>1, QuitDoes, Defaults DEF GenEnds, GenCarried
      <4>2. CASE gen' = [gen EXCEPT ![u].at = "store", ![u].key = k]
        <5>1. /\ gen'[u].key = k /\ gen'[u].s = gen[u].s /\ gen'[u].q = gen[u].q
              /\ gen'[u].name = gen[u].name
          BY <1>2, <4>2, IssueKeyDoes DEF GenAdvances
        <5>. QED
          BY <3>2, <5>1 DEF GenCarried
      <4>. QED
        BY <3>1, <4>1, <4>2
    <3>6. \A v \in Users \ {u} : GenCarried(v)'
      <4>1. \A v \in Users \ {u} : gen'[v] = gen[v]
        BY <1>2, <3>1, IssueKeyDoes, QuitDoes DEF GenAdvances, GenTurns, GenEnds
      <4>. QED
        BY <1>4, <3>2, <3>3, <4>1, GenCarriedKept DEF SameKey
    <3>. QED
      BY <1>12, <2>1, <3>2, <3>3, <3>4, <3>5, <3>6
  <2>. QED
    BY <2>2, <2>3
<1>14. CASE StoreKey(u)
  <2>1. PICK k \in Keys : k = gen[u].key
    BY <1>4, <1>14 DEF StoreKey
  <2>2. /\ gen[u].at = "store" /\ k \notin {row[u].key, push[u].key, gen[u].old}
        /\ unrecorded' = unrecorded
    BY <1>14, <2>1 DEF StoreKey, IInv, KeysApart
  <2>3. \A v \in Users \ {u} : k \notin {row[v].key, push[v].key, gen[v].key, gen[v].old}
    BY <2>1, Others
  <2>4. GenTurns(u) /\ gen'[u].at # "store"
    BY <1>2, <1>14, StoreKeyDoes, Defaults DEF GenEnds
  <2>5. CASE row' = row /\ gk' = [gk EXCEPT ![gen[u].key] = NoGwKey]
    <3>1. \A x \in Keys \ {k} : gk'[x] = gk[x]
      BY <1>2, <2>1, <2>5
    <3>2. \A v \in Users : gen'[v].at = "store" => GenCarried(v)'
      BY <1>4, <2>3, <2>4, <3>1, GenCarriedKept DEF GenTurns, SameKey
    <3>. QED
      BY <1>12, <2>2, <2>3, <2>5, <3>1, <3>2
  <2>6. CASE /\ gk' = gk
             /\ row'[u].key = gen[u].key /\ row'[u].sp = gen[u].p
             /\ row'[u].srev = gen[u].rev /\ row'[u].sname = gen[u].name
    <3>1. \A v \in Users \ {u} : row'[v] = row[v]
      BY <1>2, <1>14, StoreKeyWrites
    <3>2. \A v \in Users : GenCarried(v)'
      BY <2>4, <2>6, GenCarriedKept DEF GenTurns, SameKey
    <3>3. \A v \in Users \ {u} : PushCarried(v)' /\ Tells(v)'
      BY <1>1, <1>3, <2>2, <2>6, <3>1, PushCarriedKept, TellsKept DEF SameKey, Stays
    <3>4. PushCarried(u)'
      BY <1>1, <2>1, <2>2, <2>6, PushCarriedKept DEF SameKey
    <3>5. Tells(u)'
      <4>1. gk[k].s = gen[u].s /\ gk[k].q = gen[u].q /\ gk[k].alias = gen[u].name
        BY <2>1, <2>2 DEF IInv, Carried, GenCarried
      <4>2. PICK p \in Profiles : p = gen[u].p
        BY <1>2, <2>2 DEF Reading
      <4>3. /\ prof[p].st # "unborn"
            /\ prof[p].st = "alive" => gen[u].rev <= prof[p].rev
            /\ prof[p].st = "alive" /\ gen[u].rev = prof[p].rev
                 => gen[u].s = prof[p].s /\ gen[u].q = prof[p].q
        BY <2>2, <4>2 DEF IInv, TasksRead, Reads, Reading
      <4>. QED
        BY <1>1, <2>1, <2>6, <4>1, <4>2, <4>3 DEF Tells
    <3>. QED
      BY <3>2, <3>3, <3>4, <3>5 DEF Carried, RowsTell
  <2>. QED
    BY <1>2, <1>14, <2>5, <2>6, StoreKeyWrites
<1>15. CASE RevokeOld(u)
  <2>1. PICK k \in Keys : k = gen[u].old
    BY <1>15 DEF RevokeOld, IInv, KeysApart
  <2>2. /\ gen[u].at = "revoke" /\ k # row[u].key
        /\ unrecorded' = unrecorded /\ row' = row
        /\ \A x \in Keys \ {k} : gk'[x] = gk[x]
    BY <1>2, <1>15, <2>1 DEF RevokeOld, IInv, KeysApart
  <2>3. \A v \in Users \ {u} : k \notin {row[v].key, push[v].key, gen[v].key, gen[v].old}
    BY <2>1, Others
  <2>4. GenTurns(u) /\ gen'[u].at # "store"
    BY <1>2, <1>15, QuitDoes, Defaults DEF RevokeOld, GenEnds
  <2>5. \A v \in Users : gen'[v].at = "store" => GenCarried(v)'
    BY <1>4, <2>2, <2>3, <2>4, GenCarriedKept DEF GenTurns, SameKey
  <2>. QED
    BY <1>12, <2>2, <2>3, <2>5
<1>. QED
  BY <1>5, <1>6, <1>8, <1>10, <1>11, <1>13, <1>14, <1>15 DEF User, Generate

-----------------------------------------------------------------------------
(* The invariant and what it is for. *)

LEMMA InitIInv == Init => IInv
<1>. SUFFICES ASSUME Init PROVE IInv
  OBVIOUS
<1>. USE Defaults, SyncAssumption
<1>1. PICK d \in Profiles, keyOf \in [Owners -> Keys], q \in Quotas : InService(d, keyOf, q)
  BY DEF Init
<1>2. FirstRev(q) \in Nat /\ FirstRev(q) >= 1
  BY DEF FirstRev, Bump
<1>3. /\ dflt = d /\ \A u \in Users : assigned[u] = NoProfile
      /\ \A u \in Users : push[u] = NoTask /\ gen[u] = NoTask
      /\ unrecorded = {}
  BY <1>1 DEF Init, InService
<1>4. \A p \in Profiles :
        IF p = d
          THEN /\ prof[p].st = "alive" /\ prof[p].rev = FirstRev(q)
               /\ prof[p].s = AnyScalar /\ prof[p].q = q
          ELSE prof[p].st = "alive" => prof[p].rev = 1
  <2>1. PICK born \in SUBSET Profiles : prof = [p \in Profiles |->
         IF p = d THEN [st |-> "alive", rev |-> FirstRev(q), s |-> AnyScalar, q |-> q]
         ELSE IF p \in born THEN [st |-> "alive", rev |-> 1, s |-> AnyScalar, q |-> NoQuota]
         ELSE Unborn]
    BY <1>1, Zenon DEF InService
  <2>2. Unborn.st = "unborn"
    BY DEF Unborn
  <2>. QED
    BY <2>1, <2>2
<1>5. ASSUME NEW u \in Users
      PROVE  IF u \in Owners
               THEN /\ row[u].key = keyOf[u] /\ row[u].sp = d /\ row[u].srev = FirstRev(q)
                    /\ row[u].sname = AnyName
               ELSE row[u].key = NoKey
  <2>1. CASE u \in Owners
    <3>1. row[u] = [NoRow EXCEPT !.key = keyOf[u], !.sp = d, !.srev = FirstRev(q)]
      BY <1>1, <2>1, Zenon DEF InService
    <3>2. NoRow.sname = AnyName
      BY DEF NoRow
    <3>. QED
      BY <2>1, <3>1, <3>2 DEF KeyRows
  <2>2. CASE u \notin Owners
    <3>1. row[u] = NoRow
      BY <1>1, <2>2, Zenon DEF InService
    <3>. QED
      BY <2>2, <3>1
  <2>. QED
    BY <2>1, <2>2
<1>6. ASSUME NEW u \in Owners
      PROVE  /\ gk[keyOf[u]].s = AnyScalar /\ gk[keyOf[u]].q = q
             /\ gk[keyOf[u]].alias = AnyName
  <2>1. gk[keyOf[u]] = [NoGwKey EXCEPT !.on = TRUE, !.q = q]
    BY <1>1, Zenon DEF InService
  <2>2. NoGwKey.s = AnyScalar /\ NoGwKey.alias = AnyName
    BY DEF NoGwKey
  <2>. QED
    BY <2>1, <2>2 DEF GwKeys
<1>7. ProfilesStand
  BY <1>2, <1>3, <1>4 DEF ProfilesStand
<1>8. TasksRead
  BY <1>3 DEF TasksRead, Reads, PushStages, Reading
<1>9. KeysApart
  <2>1. \A u, v \in Owners : keyOf[u] = keyOf[v] => u = v
    BY <1>1 DEF InService
  <2>2. \A u \in Users : Held(u) = IF u \in Owners THEN {keyOf[u]} ELSE {}
    BY <1>3, <1>5 DEF Held
  <2>. QED
    BY <1>3, <2>1, <2>2 DEF KeysApart
<1>10. Carried
  BY <1>3 DEF Carried, PushCarried, GenCarried, PushStages
<1>11. RowsTell
  BY <1>2, <1>4, <1>5, <1>6 DEF RowsTell, Tells
<1>. QED
  BY <1>7, <1>8, <1>9, <1>10, <1>11, TypeInit DEF IInv

LEMMA NextIInv == IInv /\ [Next]_vars => IInv'
<1>1. IInv /\ UNCHANGED vars => Carried' /\ RowsTell'
  BY DEF vars, IInv, Carried, PushCarried, GenCarried, RowsTell, Tells
<1>2. IInv /\ [Next]_vars => Carried' /\ RowsTell'
  BY <1>1, AllGoOn, TellAdmin, TellLoop, TellPush, TellUser DEF Next
<1>. QED
  BY <1>2, TypeNext, StandNext, ReadNext, ApartNext DEF IInv

(* Profiles only go forward, every reading of one is behind it or equal to  *)
(* it, keys belong to one user, and what a row says of its key is so.       *)
THEOREM Invariance == Spec => []IInv
  BY InitIInv, NextIInv, PTL DEF Spec

(* No edit, deletion, assignment or change of the default ever leaves a     *)
(* user without a profile: DeleteProfile's two refusals and the foreign key *)
(* suffice.                                                                 *)
THEOREM ProfileForEveryone == Spec => []EveryoneHasAProfile
<1>1. IInv => EveryoneHasAProfile
  BY DEF IInv, ProfilesStand, EveryoneHasAProfile, Effective
<1>. QED
  BY <1>1, Invariance, PTL

(* A key that pendingLimitSyncs does not select carries the limits and the  *)
(* name its owner has now, unless a push of it is not on record: the record *)
(* MarkLimitsSynced and ReplaceAPIKey keep never says more than the gateway *)
(* was told, whatever overtakes what.                                       *)
THEOREM RecordsTellTheTruth == Spec => []KeyInLine
<1>1. IInv => KeyInLine
  <2>. SUFFICES ASSUME IInv, NEW u \in Users, Covered(u), ~Pending(u)
                PROVE  /\ <<row[u].key, "limits">> \notin unrecorded
                            => /\ gk[row[u].key].s = prof[Effective(u)].s
                               /\ gk[row[u].key].q = prof[Effective(u)].q
                       /\ <<row[u].key, "alias">> \notin unrecorded
                            => gk[row[u].key].alias = name[u]
    BY DEF KeyInLine
  <2>1. Tells(u)
    BY DEF IInv, RowsTell
  <2>. QED
    BY <2>1 DEF Covered, Pending, Tells
<1>. QED
  BY <1>1, Invariance, PTL

-----------------------------------------------------------------------------
(* The owners' allowances. Where no key is generated, one push at a time    *)
(* writes an owner's record, so that what was sent there is still there     *)
(* when the key has been given the same, and when both are put on record.   *)
OwnerCarried(u) == push[u].at \in {"key", "alias", "mark"} => owner[u] = push[u].q
OwnerTells(u) == row[u].key # NoKey /\ <<row[u].key, "limits">> \notin unrecorded
                   => owner[u] = gk[row[u].key].q
OnItsRow(u) == push[u].at \in PushStages => row[u].key \in {push[u].key, NoKey}
OwnersTold == \A u \in Users : /\ gen[u].at = "out" /\ OnItsRow(u)
                              /\ OwnerCarried(u) /\ OwnerTells(u)

NoneGenerated == {"generate", "regenerate"} \intersect Changes = {}

LEMMA OwnerCarriedKept ==
  ASSUME OwnersTold, NEW v \in Users, owner'[v] = owner[v],
         push'[v].at \in {"key", "alias", "mark"} => push'[v] = push[v]
  PROVE  OwnerCarried(v)'
  BY DEF OwnersTold, OwnerCarried

LEMMA OnItsRowKept ==
  ASSUME OwnersTold, NEW v \in Users, row'[v].key \in {row[v].key, NoKey},
         push'[v].at \in PushStages =>
           push[v].at \in PushStages /\ push'[v].key = push[v].key
  PROVE  OnItsRow(v)'
  BY DEF OwnersTold, OnItsRow

LEMMA OwnerTellsKept ==
  ASSUME OwnersTold, NEW v \in Users, owner'[v] = owner[v],
         row'[v].key \in {row[v].key, NoKey},
         row[v].key # NoKey => Stays(row[v].key)
  PROVE  OwnerTells(v)'
  BY DEF OwnersTold, OwnerTells, Stays

(* A step that writes neither to an owner nor to a key.                     *)
LEMMA OwnersKept ==
  ASSUME OwnersTold, UNCHANGED <<owner, gk, unrecorded>>,
         \A v \in Users : gen'[v].at = "out",
         \A v \in Users : row'[v].key \in {row[v].key, NoKey},
         \A v \in Users : OnItsRow(v)',
         \A v \in Users : push'[v].at \in {"key", "alias", "mark"} => push'[v] = push[v]
  PROVE  OwnersTold'
<1>1. \A v \in Users : OwnerCarried(v)'
  BY OwnerCarriedKept
<1>2. \A v \in Users : OwnerTells(v)'
  BY OwnerTellsKept DEF Stays
<1>. QED
  BY <1>1, <1>2 DEF OwnersTold

LEMMA OwnersAdmin == ASSUME IInv, OwnersTold, Admin PROVE OwnersTold'
<1>1. UNCHANGED <<gk, push, gen, unrecorded>>
  BY AdminFrame
<1>2. owner' = owner
  BY DEF Admin, CreateProfile, UpdateProfile, DeleteProfile, Assign, Resync, gateway
<1>3. row \in [Users -> KeyRows]
  BY DEF IInv, TypeOK
<1>4. \A v \in Users : row'[v].key = row[v].key
  BY <1>3, RowsKept DEF Admin, CreateProfile, UpdateProfile, DeleteProfile, Assign, Keeps
<1>. QED
  BY <1>1, <1>2, <1>4, OwnersKept, OnItsRowKept DEF OwnersTold

LEMMA OwnersLoop ==
  ASSUME IInv, OwnersTold, BeginRun \/ Fetch \/ Abort \/ Kill
  PROVE  OwnersTold'
<1>1. UNCHANGED <<gk, unrecorded, owner>>
  BY LoopFrame DEF BeginRun, Fetch, Abort, Kill, gateway
<1>2. /\ push \in [Users -> Tasks] /\ row \in [Users -> KeyRows] /\ name \in [Users -> Names]
      /\ dflt \in Profiles /\ assigned \in [Users -> Profiles \union {NoProfile}]
  BY DEF IInv, TypeOK
<1>3. \A v \in Users : row'[v].key = row[v].key
  BY <1>2, RowsKept DEF BeginRun, Fetch, Abort, Kill, Keeps
<1>4. \A v \in Users : gen'[v].at = "out"
  BY Defaults DEF BeginRun, Fetch, Abort, Kill, OwnersTold
<1>5. \A v \in Users : push'[v].at \in {"key", "alias", "mark"} => push'[v] = push[v]
  <2>1. CASE BeginRun
    BY <1>2, <2>1, BeginRunDoes
  <2>2. CASE Fetch
    BY <1>2, <2>2, FetchDoes, Defaults
  <2>3. CASE Abort \/ Kill
    BY <2>3, Defaults DEF Abort, Kill
  <2>. QED
    BY <2>1, <2>2, <2>3
<1>6. ASSUME NEW v \in Users PROVE OnItsRow(v)'
  <2>1. CASE BeginRun
    BY <1>2, <1>3, <2>1, BeginRunDoes, OnItsRowKept DEF PushStages
  <2>2. CASE Fetch
    <3>1. \/ push' = push
          \/ push'[v] = NoTask
          \/ push'[v].key = row[v].key
      BY <1>2, <2>2, FetchDoes
    <3>. QED
      BY <1>3, <3>1, OnItsRowKept, Defaults DEF PushStages, OnItsRow
  <2>3. CASE Abort
    BY <1>3, <2>3, OnItsRowKept DEF Abort
  <2>4. CASE Kill
    BY <2>4, Defaults DEF Kill, OnItsRow, PushStages
  <2>. QED
    BY <2>1, <2>2, <2>3, <2>4
<1>. QED
  BY <1>1, <1>3, <1>4, <1>5, <1>6, OwnersKept

LEMMA OwnersPush == ASSUME IInv, OwnersTold, NEW u \in Users, Push(u) PROVE OwnersTold'
<1>1. gen' = gen
  BY PushFrame
<1>2. /\ push \in [Users -> Tasks] /\ row \in [Users -> KeyRows] /\ gk \in [Keys -> GwKeys]
      /\ prof \in [Profiles -> ProfileRows] /\ owner \in [Users -> Quotas]
      /\ push[u].at \in PushStages => push[u].key \in Keys /\ push[u].p \in Profiles
      /\ PushCarried(u)
  BY DEF IInv, TypeOK, TasksRead, Carried
<1>3. \A v \in Users : gen'[v].at = "out"
  BY <1>1 DEF OwnersTold
<1>4. CASE CheckMissing(u) \/ MarkFailed(u) \/ MarkMissing(u)
  <2>1. /\ Ends(u) /\ UNCHANGED <<gk, unrecorded>>
        /\ \A v \in Users : row'[v].key \in {row[v].key, NoKey}
    BY <1>2, <1>4, OutcomeDoes DEF Keeps
  <2>2. owner' = owner
    BY <1>4 DEF CheckMissing, MarkFailed, MarkMissing, Record, gateway
  <2>. QED
    BY <1>3, <2>1, <2>2, OwnersKept, OnItsRowKept DEF Ends, Turns, PushStages
<1>5. CASE LoadProfile(u) \/ LoadQuotas(u)
  <2>1. UNCHANGED <<gk, row, owner, unrecorded>> /\ push[u].at \in PushStages
    BY <1>5 DEF LoadProfile, LoadQuotas, gateway, PushStages
  <2>2. Advances(u, "quotas") \/ Advances(u, "owner") \/ Ends(u)
    BY <1>2, <1>5, <2>1, LoadProfileDoes, LoadQuotasDoes
  <2>. QED
    BY <1>3, <2>1, <2>2, OwnersKept, OnItsRowKept DEF Advances, Ends, Turns, PushStages
(* A write to the owner, or to the key that u's push is about.              *)
<1>6. ASSUME NEW k \in Keys, k = push[u].key, push[u].at \in PushStages, row' = row,
             Turns(u), push'[u].at \in PushStages => push'[u].key = k,
             \A v \in Users \ {u} : owner'[v] = owner[v],
             \A x \in Keys \ {k} : gk'[x] = gk[x],
             \A x \in Keys \ {k} : <<x, "limits">> \in unrecorded'
                                     <=> <<x, "limits">> \in unrecorded,
             OwnerCarried(u)', row[u].key = k => OwnerTells(u)'
      PROVE  OwnersTold'
  <2>1. row[u].key \in {k, NoKey}
    BY <1>6 DEF OwnersTold, OnItsRow
  <2>2. OnItsRow(u)' /\ OwnerTells(u)'
    BY <1>6, <2>1 DEF OnItsRow, OwnerTells
  <2>3. ASSUME NEW v \in Users \ {u}
        PROVE  OnItsRow(v)' /\ OwnerCarried(v)' /\ OwnerTells(v)'
    <3>1. /\ push'[v] = push[v] /\ owner'[v] = owner[v]
          /\ row'[v].key = row[v].key
      BY <1>6 DEF Turns
    <3>2. row[v].key # k
      BY <1>6, Others
    <3>3. row[v].key # NoKey => row[v].key \in Keys \ {k}
      BY <1>2, <3>2 DEF KeyRows
    <3>4. OwnerTells(v)'
      BY <1>6, <3>1, <3>3 DEF OwnersTold, OwnerTells
    <3>. QED
      BY <3>1, <3>4, OnItsRowKept, OwnerCarriedKept
  <2>. QED
    BY <1>3, <1>6, <2>2, <2>3 DEF OwnersTold
<1>7. CASE PushOwner(u)
  <2>1. PICK k \in Keys : k = push[u].key
    BY <1>2, <1>7 DEF PushOwner, PushStages
  <2>2. /\ push[u].at = "owner" /\ push[u].at \in PushStages /\ UNCHANGED <<gk, row>>
        /\ \/ UNCHANGED <<owner, unrecorded>> /\ Ends(u)
           \/ /\ owner' = [owner EXCEPT ![u] = push[u].q]
              /\ unrecorded' = unrecorded \union {<<k, "limits">>}
              /\ Ends(u) \/ (Advances(u, "key") /\ SameLimits(u))
    BY <1>2, <1>7, <2>1, GoDoes, GiveUpDoes DEF PushOwner, PushStages
  <2>3. CASE UNCHANGED <<owner, unrecorded>> /\ Ends(u)
    BY <1>3, <2>2, <2>3, OwnersKept, OnItsRowKept DEF Ends, Turns, PushStages
  <2>4. CASE /\ owner' = [owner EXCEPT ![u] = push[u].q]
             /\ unrecorded' = unrecorded \union {<<k, "limits">>}
             /\ Ends(u) \/ (Advances(u, "key") /\ SameLimits(u))
    <3>1. owner'[u] = push[u].q /\ \A v \in Users \ {u} : owner'[v] = owner[v]
      BY <1>2, <2>4
    <3>2. \A x \in Keys \ {k} : <<x, "limits">> \in unrecorded'
                                  <=> <<x, "limits">> \in unrecorded
      BY <2>4
    <3>3. OwnerCarried(u)'
      BY <2>4, <3>1 DEF OwnerCarried, Ends, Advances, SameLimits
    <3>4. row[u].key = k => OwnerTells(u)'
      BY <2>2, <2>4 DEF OwnerTells
    <3>5. Turns(u) /\ (push'[u].at \in PushStages => push'[u].key = k)
      BY <2>1, <2>4 DEF Ends, Advances, PushStages
    <3>. QED
      BY <1>6, <2>1, <2>2, <3>1, <3>2, <3>3, <3>4, <3>5
  <2>. QED
    BY <2>2, <2>3, <2>4
<1>8. CASE PushKey(u)
  <2>1. PICK k \in Keys : k = push[u].key
    BY <1>2, <1>8 DEF PushKey, PushStages
  <2>2. /\ push[u].at = "key" /\ push[u].at \in PushStages /\ UNCHANGED <<owner, row>>
        /\ \/ UNCHANGED <<gk, unrecorded>> /\ Ends(u)
           \/ /\ gk' = [gk EXCEPT ![k].s = push[u].s, ![k].q = push[u].q]
              /\ unrecorded' = unrecorded \union {<<k, "limits">>}
              /\ \/ Ends(u)
                 \/ /\ SameLimits(u)
                    /\ Advances(u, IF push[u].relabel THEN "alias" ELSE "mark")
    BY <1>2, <1>8, <2>1, GoDoes, GiveUpDoes DEF PushKey, PushStages
  <2>3. CASE UNCHANGED <<gk, unrecorded>> /\ Ends(u)
    BY <1>3, <2>2, <2>3, OwnersKept, OnItsRowKept DEF Ends, Turns, PushStages
  <2>4. CASE /\ gk' = [gk EXCEPT ![k].s = push[u].s, ![k].q = push[u].q]
             /\ unrecorded' = unrecorded \union {<<k, "limits">>}
             /\ \/ Ends(u)
                \/ /\ SameLimits(u)
                   /\ Advances(u, IF push[u].relabel THEN "alias" ELSE "mark")
    <3>1. \A x \in Keys \ {k} : gk'[x] = gk[x]
      BY <1>2, <2>4
    <3>2. \A x \in Keys \ {k} : <<x, "limits">> \in unrecorded'
                                  <=> <<x, "limits">> \in unrecorded
      BY <2>4
    <3>3. OwnerCarried(u)'
      BY <2>2, <2>4 DEF OwnersTold, OwnerCarried, Ends, Advances, SameLimits
    <3>4. row[u].key = k => OwnerTells(u)'
      BY <2>2, <2>4 DEF OwnerTells
    <3>5. Turns(u) /\ (push'[u].at \in PushStages => push'[u].key = k)
      BY <2>1, <2>4 DEF Ends, Advances, PushStages
    <3>. QED
      BY <1>6, <2>1, <2>2, <3>1, <3>2, <3>3, <3>4, <3>5
  <2>. QED
    BY <2>2, <2>3, <2>4
<1>9. CASE PushAlias(u)
  <2>1. PICK k \in Keys : k = push[u].key
    BY <1>2, <1>9 DEF PushAlias, PushStages
  <2>2. /\ push[u].at = "alias" /\ push[u].at \in PushStages /\ UNCHANGED <<owner, row>>
        /\ \/ UNCHANGED <<gk, unrecorded>> /\ Ends(u)
           \/ /\ gk' = [gk EXCEPT ![k].alias = push[u].name]
              /\ unrecorded' = unrecorded \union {<<k, "alias">>}
              /\ Ends(u) \/ (SameLimits(u) /\ Advances(u, "mark"))
    BY <1>2, <1>9, <2>1, GoDoes, GiveUpDoes DEF PushAlias, PushStages
  <2>3. CASE UNCHANGED <<gk, unrecorded>> /\ Ends(u)
    BY <1>3, <2>2, <2>3, OwnersKept, OnItsRowKept DEF Ends, Turns, PushStages
  <2>4. CASE /\ gk' = [gk EXCEPT ![k].alias = push[u].name]
             /\ unrecorded' = unrecorded \union {<<k, "alias">>}
             /\ Ends(u) \/ (SameLimits(u) /\ Advances(u, "mark"))
    <3>1. gk'[k].q = gk[k].q /\ \A x \in Keys \ {k} : gk'[x] = gk[x]
      BY <1>2, <2>4 DEF GwKeys
    <3>2. \A x \in Keys : <<x, "limits">> \in unrecorded' <=> <<x, "limits">> \in unrecorded
      BY <2>4
    <3>3. OwnerCarried(u)'
      BY <2>2, <2>4 DEF OwnersTold, OwnerCarried, Ends, Advances, SameLimits
    <3>4. row[u].key = k => OwnerTells(u)'
      BY <2>2, <3>1, <3>2 DEF OwnersTold, OwnerTells
    <3>5. Turns(u) /\ (push'[u].at \in PushStages => push'[u].key = k)
      BY <2>1, <2>4 DEF Ends, Advances, PushStages
    <3>. QED
      BY <1>6, <2>1, <2>2, <3>1, <3>2, <3>3, <3>4, <3>5
  <2>. QED
    BY <2>2, <2>3, <2>4
(* Owner and key carry the windows that the push read.                      *)
<1>10. CASE Mark(u)
  <2>1. /\ Ends(u) /\ gk' = gk /\ push[u].at = "mark" /\ push[u].at \in PushStages
        /\ \A v \in Users \ {u} : row'[v] = row[v]
        /\ row'[u].key = row[u].key
    BY <1>2, <1>10, MarkDoes DEF PushStages
  <2>2. owner' = owner
    BY <1>10 DEF Mark, Record, gateway
  <2>3. PICK k \in Keys : k = push[u].key
    BY <1>2, <2>1
  <2>4. \A x \in unrecorded \ unrecorded' : x[1] = k
    BY <1>2, <1>10, <2>3, MarkDoes
  <2>5. \A x \in Keys \ {k} : <<x, "limits">> \notin unrecorded' => <<x, "limits">> \notin unrecorded
    BY <2>4
  <2>6. \A v \in Users : OnItsRow(v)' /\ OwnerCarried(v)'
    BY <2>1, <2>2, OnItsRowKept, OwnerCarriedKept DEF Ends, Turns, PushStages
  <2>7. ASSUME NEW v \in Users \ {u} PROVE OwnerTells(v)'
    <3>1. row[v].key # k /\ (row[v].key # NoKey => row[v].key \in Keys)
      BY <1>2, <2>3, Others DEF KeyRows
    <3>. QED
      BY <2>1, <2>2, <2>5, <3>1 DEF OwnersTold, OwnerTells
  <2>8. OwnerTells(u)'
    <3>1. row[u].key \in {k, NoKey}
      BY <2>1, <2>3 DEF OwnersTold, OnItsRow
    <3>2. row[u].key = k => owner[u] = gk[k].q
      BY <1>2, <2>1, <2>3 DEF OwnersTold, OwnerCarried, PushCarried
    <3>. QED
      BY <2>1, <2>2, <3>1, <3>2 DEF OwnerTells
  <2>. QED
    BY <1>3, <2>6, <2>7, <2>8 DEF OwnersTold
<1>. QED
  BY <1>4, <1>5, <1>7, <1>8, <1>9, <1>10 DEF Push

LEMMA OwnersUser ==
  ASSUME NoneGenerated, IInv, OwnersTold, NEW u \in Users, User(u)
  PROVE  OwnersTold'
<1>1. push' = push
  BY UserFrame
<1>2. row \in [Users -> KeyRows] /\ gk \in [Keys -> GwKeys]
  BY DEF IInv, TypeOK
<1>3. ~StartGenerate(u) /\ ~Generate(u)
  BY DEF NoneGenerated, StartGenerate, Change, OwnersTold, Generate, ReadProfile, ReadQuotas,
     GiveAllowance, IssueKey, StoreKey, RevokeOld
<1>4. CASE Expire(u) \/ Extend(u) \/ \E n \in Names : Login(u, n)
  <2>1. UNCHANGED <<owner, gk, unrecorded, gen>>
    BY <1>4 DEF Expire, Extend, Login, gateway
  <2>2. \A v \in Users : row'[v].key = row[v].key
    BY <1>2, <1>4, RowsKept DEF Login, Keeps
  <2>. QED
    BY <1>1, <2>1, <2>2, OwnersKept, OnItsRowKept DEF OwnersTold
<1>5. CASE LoseOrRegain(u)
  <2>1. UNCHANGED <<owner, row, unrecorded, gen>> /\ row[u].key \in Keys
    BY <1>2, <1>5 DEF LoseOrRegain, KeyRows
  <2>2. \A k \in Keys : gk'[k].q = gk[k].q
    BY <1>2, <1>5, <2>1 DEF LoseOrRegain, GwKeys
  <2>3. \A v \in Users : row[v].key # NoKey => row[v].key \in Keys
    BY <1>2 DEF KeyRows
  <2>4. \A v \in Users : OwnerTells(v)'
    BY <2>1, <2>2, <2>3 DEF OwnersTold, OwnerTells
  <2>. QED
    BY <1>1, <2>1, <2>4, OnItsRowKept, OwnerCarriedKept DEF OwnersTold
<1>. QED
  BY <1>3, <1>4, <1>5 DEF User

LEMMA OwnersInit == Init => OwnersTold
<1>. SUFFICES ASSUME Init PROVE OwnersTold
  OBVIOUS
<1>. USE Defaults, SyncAssumption
<1>1. PICK d \in Profiles, keyOf \in [Owners -> Keys], q \in Quotas : InService(d, keyOf, q)
  BY DEF Init
<1>2. \A u \in Users : push[u] = NoTask /\ gen[u] = NoTask /\ owner[u] = q
  BY <1>1 DEF Init, InService
<1>3. ASSUME NEW u \in Owners
      PROVE  row[u].key = keyOf[u] /\ gk[keyOf[u]].q = q
  <2>1. /\ row[u] = [NoRow EXCEPT !.key = keyOf[u], !.sp = d, !.srev = FirstRev(q)]
        /\ gk[keyOf[u]] = [NoGwKey EXCEPT !.on = TRUE, !.q = q]
    BY <1>1, Zenon DEF InService
  <2>. QED
    BY <2>1 DEF KeyRows, GwKeys
<1>4. ASSUME NEW u \in Users \ Owners PROVE row[u].key = NoKey
  <2>1. row[u] = NoRow
    BY <1>1, Zenon DEF InService
  <2>. QED
    BY <2>1
<1>. QED
  BY <1>2, <1>3, <1>4 DEF OwnersTold, OnItsRow, OwnerCarried, OwnerTells, PushStages

LEMMA OwnersNext == ASSUME NoneGenerated, IInv, OwnersTold, [Next]_vars PROVE OwnersTold'
<1>1. CASE UNCHANGED vars
  BY <1>1 DEF vars, OwnersTold, OnItsRow, OwnerCarried, OwnerTells
<1>. QED
  BY <1>1, OwnersAdmin, OwnersLoop, OwnersPush, OwnersUser DEF Next

(* As long as no key is generated or replaced, the owner of a key that is   *)
(* not out of date holds the allowance of their profile now: a push writes  *)
(* owner and key one after the other, and no failure, crash or resync       *)
(* between the two lets the record claim both. LimitsInLine shows why the   *)
(* assumption is needed: GenerateKey writes the owner as well.              *)
THEOREM AllowancesInLine == ASSUME NoneGenerated PROVE Spec => []OwnerInLine
<1>1. Init => IInv /\ OwnersTold
  BY InitIInv, OwnersInit
<1>2. IInv /\ OwnersTold /\ [Next]_vars => (IInv /\ OwnersTold)'
  BY NextIInv, OwnersNext
<1>3. IInv /\ OwnersTold => OwnerInLine
  <2>. SUFFICES ASSUME IInv, OwnersTold, NEW u \in Users, Covered(u), ~Pending(u),
                       <<row[u].key, "limits">> \notin unrecorded
                PROVE  owner[u] = prof[Effective(u)].q
    BY DEF OwnerInLine
  <2>1. Tells(u) /\ OwnerTells(u)
    BY DEF IInv, RowsTell, OwnersTold
  <2>. QED
    BY <2>1 DEF Covered, Pending, Tells, OwnerTells
<1>. QED
  BY <1>1, <1>2, <1>3, PTL DEF Spec

-----------------------------------------------------------------------------
(* Wakeups. A run that no statement broke off waits only when it has found  *)
(* nothing left to push, and between runs no push is under way.             *)
Idle == /\ run # "abort"
        /\ run \notin {"check", "push"} => BatchDone

(* What would be lost for good without the interval: the sync sleeps, no    *)
(* kick waits for it, and a key is out of date that no push was tried on.   *)
NoWakeupLost == run = "wait" /\ ~kick => \A u \in Users : Pending(u) => row[u].failed

(* Only a handler makes a key pending, and statements do not fail: the      *)
(* command -resync-limits is another process and kicks nobody, a run whose  *)
(* statement fails gives up, and ReplaceAPIKey may store what is out of     *)
(* date already.                                                            *)
HandlersOnly == NoneGenerated /\ "resync" \notin Changes /\ "database" \notin Faults

LEMMA IdleLoop ==
  ASSUME "database" \notin Faults, IInv, Idle, BeginRun \/ Fetch \/ Abort \/ Kill
  PROVE  Idle'
<1>1. CASE BeginRun
  BY <1>1 DEF BeginRun, DbError, Idle
<1>2. CASE Fetch
  <2>1. BatchDone /\ (run' = "push" \/ (run' = "wait" /\ push' = push))
    BY <1>2 DEF Fetch, DbError
  <2>. QED
    BY <2>1 DEF Idle, BatchDone
<1>3. ~Abort
  BY DEF Abort, Idle
<1>4. CASE Kill
  <2>1. run' = "due" /\ \A u \in Users : push'[u] = NoTask
    BY <1>4 DEF Kill
  <2>. QED
    BY <2>1, Defaults DEF Idle, BatchDone
<1>. QED
  BY <1>1, <1>2, <1>3, <1>4

LEMMA IdlePush ==
  ASSUME "database" \notin Faults, IInv, Idle, NEW u \in Users, Push(u)
  PROVE  Idle' /\ run' = run /\ kick' = kick /\ run \in {"check", "push"}
<1>1. run' = run /\ kick' = kick
  BY DEF Push, CheckMissing, LoadProfile, LoadQuotas, PushOwner, PushKey, PushAlias, Mark,
     MarkFailed, MarkMissing, Record, DbError, loop
<1>2. push[u].at # "out"
  BY DEF Push, CheckMissing, LoadProfile, LoadQuotas, PushOwner, PushKey, PushAlias, Mark,
     MarkFailed, MarkMissing
<1>3. run \in {"check", "push"}
  BY <1>2 DEF Idle, BatchDone
<1>. QED
  BY <1>1, <1>3 DEF Idle

LEMMA IdleNext ==
  ASSUME "database" \notin Faults, IInv, Idle, [Next]_vars
  PROVE  Idle'
<1>1. ASSUME run' = run, push' = push PROVE Idle'
  BY <1>1 DEF Idle, BatchDone
<1>2. UNCHANGED vars \/ Admin => run' = run /\ push' = push
  BY DEF vars, Admin, CreateProfile, UpdateProfile, DeleteProfile, Assign, Resync, loop
<1>3. ASSUME NEW u \in Users, User(u) PROVE run' = run /\ push' = push
  BY <1>3, UserFrame DEF User, Generate, Login, Expire, Extend, LoseOrRegain, StartGenerate,
     ReadProfile, ReadQuotas, GiveAllowance, IssueKey, StoreKey, RevokeOld, loop
<1>. QED
  BY <1>1, <1>2, <1>3, IdleLoop, IdlePush DEF Next

LEMMA IdleInit == Init => Idle
<1>. SUFFICES ASSUME Init PROVE Idle
  OBVIOUS
<1>1. run = "due" /\ \A u \in Users : push[u] = NoTask
  BY DEF Init
<1>. QED
  BY <1>1, Defaults DEF Idle, BatchDone

LEMMA PendingKept ==
  ASSUME NEW u \in Users, UNCHANGED <<prof, dflt, assigned, name>>,
         row'[u].key = row[u].key, row'[u].sp = row[u].sp, row'[u].srev = row[u].srev,
         row'[u].sname = row[u].sname, row'[u].expired = row[u].expired,
         row'[u].missing = row[u].missing
  PROVE  Pending(u)' => Pending(u)
  BY DEF Pending, Covered, Effective

(* The end of a run, which is when it matters.                              *)
LEMMA NothingLeft ==
  ASSUME "database" \notin Faults, IInv, Fetch, run' = "wait"
  PROVE  \A u \in Users : Pending(u)' => row'[u].failed
<1>1. row \in [Users -> KeyRows]
  BY DEF IInv, TypeOK
<1>2. UNCHANGED <<prof, dflt, assigned, name>>
  BY LoopFrame
<1>3. \A u \in Users : ~(Pending(u) /\ (run = "push" => ~row[u].failed))
  BY Zenon DEF Fetch, DbError
<1>4. CASE run = "check"
  <2>1. ASSUME NEW x \in KeyRows, NEW y, y = [x EXCEPT !.failed = FALSE]
        PROVE  /\ y.key = x.key /\ y.sp = x.sp /\ y.srev = x.srev /\ y.sname = x.sname
               /\ y.expired = x.expired /\ y.missing = x.missing
    BY <2>1 DEF KeyRows
  <2>2. \A u \in Users : row'[u] = [row[u] EXCEPT !.failed = FALSE]
    BY <1>4 DEF Fetch
  <2>3. \A u \in Users : Pending(u)' => Pending(u)
    BY <1>1, <1>2, <2>1, <2>2, PendingKept
  <2>. QED
    BY <1>3, <1>4, <2>3
<1>5. CASE run = "push"
  <2>1. row' = row
    BY <1>5 DEF Fetch
  <2>. QED
    BY <1>2, <1>3, <1>5, <2>1, PendingKept
<1>. QED
  BY <1>4, <1>5 DEF Fetch

(* Between runs a key goes out of date only with a kick.                    *)
LEMMA QuietUser ==
  ASSUME NoneGenerated, IInv, OwnersTold, NEW u \in Users, User(u), ~kick'
  PROVE  ~kick /\ run' = run /\ \A v \in Users : Pending(v)' => Pending(v) /\ row'[v] = row[v]
<1>1. row \in [Users -> KeyRows]
  BY DEF IInv, TypeOK
<1>2. ~StartGenerate(u) /\ ~Generate(u)
  BY DEF NoneGenerated, StartGenerate, Change, OwnersTold, Generate, ReadProfile, ReadQuotas,
     GiveAllowance, IssueKey, StoreKey, RevokeOld
<1>3. Expire(u) \/ LoseOrRegain(u)
  BY <1>2 DEF User, Login, Extend
<1>4. UNCHANGED <<prof, dflt, assigned, name, run, kick>>
  BY <1>3 DEF Expire, LoseOrRegain, admin, loop
<1>5. CASE Expire(u)
  <2>1. row'[u].expired /\ \A v \in Users \ {u} : row'[v] = row[v]
    BY <1>1, <1>5 DEF Expire, KeyRows
  <2>. QED
    BY <1>4, <2>1 DEF Pending, Covered, Effective
<1>6. CASE LoseOrRegain(u)
  <2>1. row' = row
    BY <1>6 DEF LoseOrRegain
  <2>. QED
    BY <1>4, <2>1 DEF Pending, Covered, Effective
<1>. QED
  BY <1>3, <1>5, <1>6

(* The sync never sleeps on a key that is out of date and was not tried:    *)
(* every edit, assignment, login and extension kicks it awake, and a run    *)
(* that is under way finds the key in a later query. This is what           *)
(* NothingForgotten needs of the states, and what the comment of Kick says  *)
(* ("a run already under way picks up keys that go out of date while it     *)
(* works").                                                                 *)
THEOREM NoKickIsLost == ASSUME HandlersOnly PROVE Spec => []NoWakeupLost
<1>. USE DEF HandlersOnly
<1>1. Init => IInv /\ OwnersTold /\ Idle /\ NoWakeupLost
  <2>1. Init => NoWakeupLost
    BY DEF Init, NoWakeupLost
  <2>. QED
    BY <2>1, InitIInv, OwnersInit, IdleInit
<1>2. ASSUME IInv, OwnersTold, Idle, NoWakeupLost, [Next]_vars
      PROVE  NoWakeupLost'
  <2>. SUFFICES ASSUME run' = "wait", ~kick'
                PROVE  \A u \in Users : Pending(u)' => row'[u].failed
    BY DEF NoWakeupLost
  <2>1. CASE UNCHANGED vars
    BY <1>2, <2>1 DEF vars, NoWakeupLost, Pending, Covered, Effective
  <2>2. ~Admin
    BY DEF Admin, CreateProfile, UpdateProfile, DeleteProfile, Assign, Resync, Change
  <2>3. ASSUME NEW u \in Users, User(u)
        PROVE  \A v \in Users : Pending(v)' => row'[v].failed
    BY <1>2, <2>3, QuietUser DEF NoWakeupLost
  <2>4. ASSUME NEW u \in Users PROVE ~Push(u)
    BY <1>2, IdlePush
  <2>5. CASE Fetch
    BY <1>2, <2>5, NothingLeft
  <2>6. ~BeginRun /\ ~Abort /\ ~Kill
    BY <1>2 DEF BeginRun, DbError, Abort, Idle, Kill
  <2>. QED
    BY <1>2, <2>1, <2>2, <2>3, <2>4, <2>5, <2>6 DEF Next
<1>3. IInv /\ OwnersTold /\ Idle /\ NoWakeupLost /\ [Next]_vars
        => (IInv /\ OwnersTold /\ Idle /\ NoWakeupLost)'
  BY <1>2, NextIInv, OwnersNext, IdleNext
<1>. QED
  BY <1>1, <1>3, PTL DEF Spec

-----------------------------------------------------------------------------
(* Where nothing fails, a push that has written to the gateway leads to a   *)
(* record of it, or of the key's absence, and a key that comes back is out  *)
(* of date: no run ends with a push that is not on record.                  *)
Written == {"key", "alias", "mark", "missing"}
Accounted(u) ==
  /\ row[u].key # NoKey /\ <<row[u].key, "limits">> \in unrecorded
       => row[u].missing \/ row[u].srev = 0 \/ push[u].at \in Written
  /\ push[u].at = "missing" => row[u].key \in {push[u].key, NoKey}
AllAccounted == \A u \in Users : Accounted(u)

LEMMA AccountedKept ==
  ASSUME NEW v \in Users, Accounted(v), row'[v].key \in {row[v].key, NoKey},
         row[v].missing => row'[v].missing, row'[v].srev \in {row[v].srev, 0},
         <<row[v].key, "limits">> \in unrecorded' => <<row[v].key, "limits">> \in unrecorded,
         \/ push'[v].at = push[v].at /\ push'[v].key = push[v].key
         \/ push[v].at \notin Written /\ push'[v].at # "missing"
  PROVE  Accounted(v)'
  BY DEF Accounted

(* None of these steps takes the mark of a missing key away.                *)
LEMMA StillMissing ==
  ASSUME row \in [Users -> KeyRows],
         Resync \/ Fetch \/ \E u \in Users : Expire(u) \/ Extend(u)
  PROVE  \A u \in Users : row'[u].missing = row[u].missing
<1>1. CASE Resync
  <2>1. ASSUME NEW x \in KeyRows, NEW y, y = [x EXCEPT !.srev = 0]
        PROVE  y.missing = x.missing
    BY <2>1 DEF KeyRows
  <2>2. \A u \in Users : row'[u] = [row[u] EXCEPT !.srev = 0]
    BY <1>1 DEF Resync
  <2>. QED
    BY <2>1, <2>2
<1>2. CASE Fetch
  <2>1. ASSUME NEW x \in KeyRows, NEW y, y = [x EXCEPT !.failed = FALSE]
        PROVE  y.missing = x.missing
    BY <2>1 DEF KeyRows
  <2>2. CASE row' = [u \in Users |-> [row[u] EXCEPT !.failed = FALSE]]
    <3>1. \A u \in Users : row'[u] = [row[u] EXCEPT !.failed = FALSE]
      BY <2>2
    <3>. QED
      BY <2>1, <3>1
  <2>. QED
    BY <1>2, <2>2 DEF Fetch
<1>3. ASSUME NEW u \in Users, NEW b \in BOOLEAN, row' = [row EXCEPT ![u].expired = b]
      PROVE  \A v \in Users : row'[v].missing = row[v].missing
  BY <1>3 DEF KeyRows
<1>. QED
  BY <1>1, <1>2, <1>3 DEF Expire, Extend

LEMMA AccountedAdmin == ASSUME IInv, AllAccounted, Admin PROVE AllAccounted'
<1>1. UNCHANGED <<push, unrecorded>>
  BY AdminFrame
<1>2. row \in [Users -> KeyRows]
  BY DEF IInv, TypeOK
<1>3. CASE Resync
  BY <1>1, <1>2, <1>3, RowsKept, StillMissing, AccountedKept DEF AllAccounted, Keeps
<1>4. CASE ~Resync
  <2>1. row' = row
    BY <1>4 DEF Admin, CreateProfile, UpdateProfile, DeleteProfile, Assign
  <2>. QED
    BY <1>1, <2>1, AccountedKept DEF AllAccounted
<1>. QED
  BY <1>3, <1>4

LEMMA AccountedLoop ==
  ASSUME Faults = {}, IInv, Idle, AllAccounted, BeginRun \/ Fetch \/ Abort \/ Kill
  PROVE  AllAccounted'
<1>1. unrecorded' = unrecorded
  BY LoopFrame
<1>2. /\ push \in [Users -> Tasks] /\ row \in [Users -> KeyRows] /\ name \in [Users -> Names]
      /\ dflt \in Profiles /\ assigned \in [Users -> Profiles \union {NoProfile}]
  BY DEF IInv, TypeOK
<1>3. ~Abort /\ ~Kill
  BY DEF Abort, Kill, Idle
<1>4. ASSUME BatchDone, \A v \in Users : push'[v].at \in {"out", "check", "profile"},
             \A v \in Users : row'[v].missing = row[v].missing /\ Keeps(row'[v], row[v])
      PROVE  AllAccounted'
  BY <1>1, <1>4, AccountedKept DEF AllAccounted, BatchDone, Written, Keeps
<1>5. CASE BeginRun
  <2>1. BatchDone /\ row' = row
    BY <1>5 DEF BeginRun, Idle
  <2>2. \A v \in Users : push'[v].at \in {"out", "check", "profile"}
    BY <1>2, <1>5, <2>1, BeginRunDoes DEF BatchDone
  <2>. QED
    BY <1>4, <2>1, <2>2 DEF Keeps
<1>6. CASE Fetch
  <2>1. BatchDone
    BY <1>6 DEF Fetch
  <2>2. \A v \in Users : push'[v].at \in {"out", "check", "profile"}
    BY <1>2, <1>6, <2>1, FetchDoes, Defaults DEF BatchDone
  <2>. QED
    BY <1>2, <1>4, <1>6, <2>1, <2>2, RowsKept, StillMissing
<1>. QED
  BY <1>3, <1>5, <1>6

LEMMA AccountedPush ==
  ASSUME Faults = {}, IInv, OwnersTold, AllAccounted, NEW u \in Users, Push(u)
  PROVE  AllAccounted'
<1>1. /\ push \in [Users -> Tasks] /\ row \in [Users -> KeyRows]
      /\ prof \in [Profiles -> ProfileRows]
      /\ push[u].at \in PushStages => push[u].key \in Keys /\ push[u].p \in Profiles
  BY DEF IInv, TypeOK, TasksRead
<1>2. ~Refused /\ ~NoAnswer /\ ~DbError
  BY DEF Refused, NoAnswer, DbError
(* Only the row and the task of u change, and only their key's record.      *)
<1>3. ASSUME Turns(u), \A v \in Users \ {u} : row'[v] = row[v],
             \A x \in unrecorded' : x[2] = "limits" /\ x[1] # push[u].key => x \in unrecorded,
             push[u].key = NoKey => unrecorded' = unrecorded,
             Accounted(u)'
      PROVE  AllAccounted'
  <2>1. ASSUME NEW v \in Users \ {u} PROVE Accounted(v)'
    <3>1. push[u].key # NoKey => push[u].key # row[v].key
      <4>1. push[u].key # NoKey => push[u].key \in Keys
        BY <1>1 DEF Tasks
      <4>. QED
        BY <4>1, Others
    <3>2. row[v].key = NoKey \/ (<<row[v].key, "limits">> \in unrecorded'
                                   => <<row[v].key, "limits">> \in unrecorded)
      BY <1>3, <3>1
    <3>. QED
      BY <1>3, <3>2 DEF AllAccounted, Accounted, Turns
  <2>. QED
    BY <1>3, <2>1 DEF AllAccounted
(* An outcome is recorded. *)
<1>4. ASSUME push[u].at \notin {"key", "alias", "mark"}, NEW r \in KeyRows, Record(u, r, {}),
             \/ r.key = NoKey
             \/ r.key = row[u].key /\ r.missing
             \/ r.key = row[u].key /\ push[u].at # "missing"
                  /\ (r.srev = 0 \/ (r.srev = row[u].srev /\ r.missing = row[u].missing))
      PROVE  AllAccounted'
  <2>1. /\ Ends(u) /\ unrecorded' = unrecorded /\ push'[u] = NoTask
        /\ \A v \in Users \ {u} : row'[v] = row[v]
        /\ row'[u] = IF row[u].key = push[u].key THEN r ELSE row[u]
    <3>1. unrecorded \ {} = unrecorded
      OBVIOUS
    <3>. QED
      BY <1>1, <1>2, <1>4, <3>1, DoneDoes DEF Record, Write, Done
  <2>2. Accounted(u)'
    BY <1>4, <2>1, Defaults DEF AllAccounted, Accounted, Written
  <2>. QED
    BY <1>3, <2>1, <2>2 DEF Ends
<1>5. CASE CheckMissing(u)
  <2>1. ASSUME NEW x, x = [row[u] EXCEPT !.missing = FALSE, !.srev = 0]
        PROVE  x \in KeyRows /\ x.key = row[u].key /\ x.srev = 0
    BY <1>1, <2>1 DEF KeyRows, Revs
  <2>2. PICK x : x = [row[u] EXCEPT !.missing = FALSE, !.srev = 0]
    OBVIOUS
  <2>3. push[u].at = "check" /\ (Record(u, x, {}) \/ Record(u, NoRow, {}) \/ Record(u, row[u], {}))
    BY <1>5, <2>2 DEF CheckMissing
  <2>. QED
    BY <1>1, <1>4, <2>1, <2>2, <2>3, Defaults
<1>6. CASE MarkFailed(u)
  <2>1. ASSUME NEW x, x = [row[u] EXCEPT !.failed = TRUE]
        PROVE  /\ x \in KeyRows /\ x.key = row[u].key /\ x.srev = row[u].srev
               /\ x.missing = row[u].missing
    BY <1>1, <2>1 DEF KeyRows
  <2>2. PICK x : x = [row[u] EXCEPT !.failed = TRUE]
    OBVIOUS
  <2>3. push[u].at = "fail" /\ Record(u, x, {})
    BY <1>6, <2>2 DEF MarkFailed
  <2>. QED
    BY <1>4, <2>1, <2>2, <2>3
<1>7. CASE MarkMissing(u)
  <2>1. ASSUME NEW x, x = [row[u] EXCEPT !.missing = TRUE]
        PROVE  x \in KeyRows /\ x.key = row[u].key /\ x.missing
    BY <1>1, <2>1 DEF KeyRows
  <2>2. PICK x : x = [row[u] EXCEPT !.missing = TRUE]
    OBVIOUS
  <2>3. push[u].at = "missing" /\ Record(u, x, {})
    BY <1>7, <2>2 DEF MarkMissing
  <2>. QED
    BY <1>4, <2>1, <2>2, <2>3
<1>8. CASE LoadProfile(u) \/ LoadQuotas(u)
  <2>1. UNCHANGED <<row, unrecorded>> /\ push[u].at \in {"profile", "quotas"}
    BY <1>8 DEF LoadProfile, LoadQuotas
  <2>2. /\ Turns(u)
        /\ push'[u].at \in {"quotas", "owner", "fail"}
    <3>1. GiveUp(u, "fail") => push'[u].at = "fail"
      <4>1. ASSUME NEW t, NEW k, t = [NoTask EXCEPT !.at = "fail", !.key = k]
            PROVE  t.at = "fail"
        BY <4>1, Defaults DEF Tasks
      <4>. QED
        BY <1>1, <4>1 DEF GiveUp
    <3>2. push'[u].at \in {"quotas", "owner"} \/ GiveUp(u, "fail")
      <4>1. LoadProfile(u) => push'[u].at = "quotas" \/ GiveUp(u, "fail")
        BY <1>1 DEF LoadProfile, Tasks
      <4>2. LoadQuotas(u) => push'[u].at = "owner" \/ GiveUp(u, "fail")
        BY <1>1 DEF LoadQuotas, Tasks
      <4>. QED
        BY <1>8, <4>1, <4>2
    <3>3. Turns(u)
      BY <1>1, <1>8, <2>1, LoadProfileDoes, LoadQuotasDoes DEF PushStages, Ends, Advances
    <3>. QED
      BY <3>1, <3>2, <3>3
  <2>3. Accounted(u)'
    BY <2>1, <2>2, AccountedKept DEF AllAccounted, Written
  <2>. QED
    BY <1>3, <2>1, <2>2, <2>3
(* A call to the gateway: it is answered, or the key is not there.          *)
<1>9. ASSUME NEW k \in Keys, k = push[u].key, push[u].at \in PushStages, row' = row,
             unrecorded' \in {unrecorded, unrecorded \union {<<k, "limits">>},
                              unrecorded \union {<<k, "alias">>}},
             \/ \E at \in {"key", "alias", "mark"} : Go(u, at)
             \/ GiveUp(u, "missing")
      PROVE  AllAccounted'
  <2>1. Turns(u) /\ push'[u].at \in Written /\ push'[u].key = push[u].key
    <3>1. \A at \in {"key", "alias", "mark"} : Go(u, at) => Advances(u, at)
      BY <1>1, GoDoes
    <3>2. ASSUME NEW t, t = [NoTask EXCEPT !.at = "missing", !.key = k]
          PROVE  t.at = "missing" /\ t.key = k
      BY <1>9, <3>2, Defaults DEF Tasks
    <3>3. GiveUp(u, "missing") => push'[u].at = "missing" /\ push'[u].key = k
      BY <1>1, <1>9, <3>2 DEF GiveUp
    <3>. QED
      BY <1>1, <1>9, <3>1, <3>3, GiveUpDoes DEF Advances, Ends, Written
  <2>2. row[u].key \in {push[u].key, NoKey}
    BY <1>9 DEF OwnersTold, OnItsRow
  <2>3. \A x \in unrecorded' : x[2] = "limits" /\ x[1] # push[u].key => x \in unrecorded
    BY <1>9
  <2>4. push[u].key # NoKey
    BY <1>9, SyncAssumption
  <2>5. Accounted(u)'
    BY <1>9, <2>1, <2>2 DEF Accounted
  <2>. QED
    BY <1>3, <1>9, <2>1, <2>3, <2>4, <2>5
<1>10. CASE PushOwner(u)
  BY <1>1, <1>2, <1>9, <1>10 DEF PushOwner, PushStages
<1>11. CASE PushKey(u)
  BY <1>1, <1>2, <1>9, <1>11 DEF PushKey, PushStages
<1>12. CASE PushAlias(u)
  BY <1>1, <1>2, <1>9, <1>12 DEF PushAlias, PushStages
<1>13. CASE Mark(u)
  <2>1. PICK k \in Keys : k = push[u].key
    BY <1>1, <1>13 DEF Mark, PushStages
  <2>2. /\ Ends(u) /\ \A v \in Users \ {u} : row'[v] = row[v]
        /\ row'[u].key = row[u].key
    BY <1>1, <1>13, MarkDoes
  <2>3. /\ push'[u] = NoTask /\ unrecorded' \subseteq unrecorded
        /\ <<k, "limits">> \notin unrecorded'
    BY <1>1, <1>2, <1>13, <2>1 DEF Mark, Record, Done
  <2>4. row[u].key \in {k, NoKey}
    BY <1>13, <2>1 DEF OwnersTold, OnItsRow, Mark, PushStages
  <2>5. Accounted(u)'
    BY <2>2, <2>3, <2>4, Defaults DEF Accounted
  <2>6. k # NoKey
    BY SyncAssumption
  <2>. QED
    BY <1>3, <2>1, <2>2, <2>3, <2>5, <2>6 DEF Ends
<1>. QED
  BY <1>5, <1>6, <1>7, <1>8, <1>10, <1>11, <1>12, <1>13 DEF Push

LEMMA AccountedUser ==
  ASSUME NoneGenerated, IInv, OwnersTold, AllAccounted, NEW u \in Users, User(u)
  PROVE  AllAccounted'
<1>1. push' = push /\ row \in [Users -> KeyRows]
  BY UserFrame DEF IInv, TypeOK
<1>2. ~StartGenerate(u) /\ ~Generate(u)
  BY DEF NoneGenerated, StartGenerate, Change, OwnersTold, Generate, ReadProfile, ReadQuotas,
     GiveAllowance, IssueKey, StoreKey, RevokeOld
<1>3. unrecorded' = unrecorded
  BY <1>2 DEF User, Login, Expire, Extend, LoseOrRegain
<1>4. CASE Expire(u) \/ Extend(u)
  BY <1>1, <1>3, <1>4, RowsKept, StillMissing, AccountedKept DEF AllAccounted, Keeps
<1>5. CASE row' = row
  BY <1>1, <1>3, <1>5, AccountedKept DEF AllAccounted
<1>. QED
  BY <1>2, <1>4, <1>5 DEF User, Login, LoseOrRegain

(* What the documentation promises holds where no key is generated and no   *)
(* call, statement or process fails: between runs every key that is not     *)
(* out of date carries its owner's limits, and so does the owner, keys that *)
(* the gateway loses and has again and the command -resync-limits included. *)
(* That a GenerateKey overtaken by a push breaks the promise (LimitsInLine  *)
(* fails in the run limit_sync_race, which assumes no fault either) is thus *)
(* the only way to break it without a failure.                              *)
THEOREM LimitsArrive ==
  ASSUME NoneGenerated, Faults = {}
  PROVE  Spec => []LimitsInLine
<1>. DEFINE Inv == IInv /\ OwnersTold /\ Idle /\ AllAccounted
<1>1. Init => Inv
  <2>1. ASSUME Init PROVE AllAccounted
    <3>1. unrecorded = {} /\ \A u \in Users : push[u] = NoTask
      BY <2>1 DEF Init
    <3>. QED
      BY <3>1, Defaults DEF AllAccounted, Accounted
  <2>. QED
    BY <2>1, InitIInv, OwnersInit, IdleInit
<1>2. Inv /\ [Next]_vars => Inv'
  <2>. SUFFICES ASSUME Inv, [Next]_vars PROVE AllAccounted'
    BY NextIInv, OwnersNext, IdleNext
  <2>1. CASE UNCHANGED vars
    BY <2>1 DEF vars, AllAccounted, Accounted
  <2>. QED
    BY <2>1, AccountedAdmin, AccountedLoop, AccountedPush, AccountedUser DEF Next
<1>3. Inv => LimitsInLine
  <2>. SUFFICES ASSUME Inv, run = "wait", NEW u \in Users, Covered(u), ~Pending(u)
                PROVE  /\ gk[row[u].key].s = prof[Effective(u)].s
                       /\ gk[row[u].key].q = prof[Effective(u)].q
                       /\ owner[u] = prof[Effective(u)].q
    BY DEF LimitsInLine
  <2>1. push[u].at = "out"
    BY DEF Idle, BatchDone
  <2>2. Effective(u) \in Profiles
    BY DEF IInv, TypeOK, Effective
  <2>3. prof[Effective(u)].st = "alive" /\ prof[Effective(u)].rev >= 1
    BY <2>2 DEF IInv, ProfilesStand, Effective
  <2>4. row[u].srev # 0
    BY <2>3 DEF Pending
  <2>5. <<row[u].key, "limits">> \notin unrecorded
    BY <2>1, <2>4 DEF AllAccounted, Accounted, Covered, Written
  <2>6. Tells(u) /\ OwnerTells(u)
    BY DEF IInv, RowsTell, OwnersTold
  <2>. QED
    BY <2>5, <2>6 DEF Covered, Pending, Tells, OwnerTells
<1>. QED
  BY <1>1, <1>2, <1>3, PTL DEF Spec
=============================================================================
