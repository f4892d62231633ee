------------------------ MODULE KeyLifecycle_proofs ------------------------
(***************************************************************************)
(* Theorems about KeyLifecycle, for any users, requests, keys, dates and   *)
(* faults: no key is lost, no date shown is later than the gateway's, and  *)
(* no request that is late undoes what another has done; the table keeps   *)
(* its contract, KeyTable, and every handler ends and unlocks.             *)
(***************************************************************************)
EXTENDS KeyLifecycle, TLAPS

Holders == Users \union {NoUser}
Names == Keys \union {NoKey}

-----------------------------------------------------------------------------
(* What a step makes of the request it belongs to.                          *)

Others(r) == \A x \in Reqs \ {r} : h'[x] = h[x]

(* It goes on, with what it carries.                                        *)
Moves(r, at) == /\ h' \in [Reqs -> Handlers] /\ Others(r)
                /\ h'[r].at = at
                /\ h'[r].kind = h[r].kind /\ h'[r].user = h[r].user
                /\ h'[r].old = h[r].old /\ h'[r].new = h[r].new
                /\ h'[r].until = h[r].until
                /\ UNCHANGED lockVars

(* The lock of r alone may have been taken or left.                         *)
LockOf(r) == /\ phase' \in [Reqs -> Lock!Phases] /\ target' \in [Reqs -> Holders]
             /\ \A x \in Reqs \ {r} : phase'[x] = phase[x] /\ target'[x] = target[x]

(* It returns. *)
Returns(r) == /\ h' \in [Reqs -> Handlers] /\ Others(r)
              /\ h'[r].at = "out" /\ h'[r].user = NoUser
              /\ h'[r].old = NoKey /\ h'[r].new = NoKey
              /\ LockOf(r)
              /\ phase'[r] = "out" \/ (phase'[r] = phase[r] /\ target'[r] = target[r])

LEMMA IdleIs == /\ Idle \in Handlers /\ Idle.at = "out" /\ Idle.user = NoUser
                /\ Idle.old = NoKey /\ Idle.new = NoKey
  BY LifecycleAssumption DEF Idle, Handlers, At, Locked, Lockless

LEMMA NoRowIs == NoRow \in Rows /\ NoRow.key = NoKey /\ NoRow.exp = 0 /\ NoRow.missing = "no"
  BY LifecycleAssumption DEF NoRow, Rows

LEMMA NoCheckIs == NoCheck \in Checks /\ NoCheck.at = "out"
  BY DEF NoCheck, Checks

LEMMA FinishReturns ==
  ASSUME TypeOK, NEW r \in Reqs, Finish(r)
  PROVE  Returns(r)
<1>1. PICK i \in Handlers : /\ i = Idle /\ i.at = "out" /\ i.user = NoUser
                            /\ i.old = NoKey /\ i.new = NoKey
  BY IdleIs
<1>2. h' = [h EXCEPT ![r] = i]
  BY <1>1 DEF Finish
<1>3. h' \in [Reqs -> Handlers] /\ Others(r) /\ h'[r] = i
  BY <1>2 DEF TypeOK, Others
<1>4. CASE h[r].kind \in Locked
  <2>1. Lock!Leave(r)
    BY <1>4 DEF Finish
  <2>. QED
    BY <1>1, <1>3, <2>1 DEF TypeOK, Returns, LockOf, Lock!Leave, Lock!Phases, Holders
<1>5. CASE h[r].kind \notin Locked
  <2>1. UNCHANGED lockVars
    BY <1>5 DEF Finish
  <2>. QED
    BY <1>1, <1>3, <2>1 DEF TypeOK, Returns, LockOf, lockVars, Holders
<1>. QED
  BY <1>4, <1>5

LEMMA GoMoves ==
  ASSUME TypeOK, NEW r \in Reqs, NEW at \in At, Go(r, at)
  PROVE  Moves(r, at)
<1>1. PICK q \in Handlers : q = h[r]
  BY DEF TypeOK
<1>2. PICK p : p = [q EXCEPT !.at = at]
  OBVIOUS
<1>3. /\ p \in Handlers /\ p.at = at /\ p.kind = q.kind /\ p.user = q.user
      /\ p.old = q.old /\ p.new = q.new /\ p.until = q.until
  BY <1>2 DEF Handlers
<1>4. h' = [h EXCEPT ![r] = p]
  BY <1>1, <1>2 DEF Go
<1>. QED
  BY <1>1, <1>3, <1>4 DEF TypeOK, Moves, Others, Go

-----------------------------------------------------------------------------
(* What the requests carry, and the lock that keeps them apart.             *)

Controls == TypeOK /\ Carries /\ InsideLock /\ Exclusion

(* What Carries and InsideLock say of one request.                          *)
Fits(q) ==
  /\ q.at = "out" <=> q.user = NoUser
  /\ q.at \in {"out", "lock", "read"} => q.old = NoKey /\ q.new = NoKey
  /\ q.at \in {"revokeOld", "prolong", "record", "look", "mark", "revoke", "drop"}
       => q.old # NoKey
  /\ q.at \in {"store", "rollback"} => q.new # NoKey
  /\ q.at \in Generator => q.kind = "generate"
  /\ q.at \in {"prolong", "record"} => q.kind = "extend"
  /\ q.at = "lock" => q.kind \in Locked

Placed(r) ==
  /\ h[r].at \notin {"out", "lock"} /\ h[r].kind \in Locked
       => phase[r] = "inside" /\ target[r] = h[r].user
  /\ h[r].at = "lock" => phase[r] = "queued" /\ target[r] = h[r].user

LEMMA CarriesIs == Carries <=> \A r \in Reqs : Fits(h[r])
  BY DEF Carries, Fits

LEMMA CarriesNext ==
  ASSUME NEW r \in Reqs, Carries, Others(r), Fits(h'[r]) PROVE Carries'
<1>1. \A x \in Reqs : Fits(h'[x])
  <2>1. \A x \in Reqs \ {r} : Fits(h'[x])
    BY CarriesIs DEF Others
  <2>. QED
    BY <2>1
<1>. QED
  BY <1>1 DEF Carries, Fits

LEMMA InsideLockNext ==
  ASSUME NEW r \in Reqs, InsideLock, Others(r), LockOf(r), Placed(r)'
  PROVE  InsideLock'
<1>1. \A x \in Reqs \ {r} : Placed(x)'
  BY DEF InsideLock, Others, LockOf, Placed
<1>. QED
  BY <1>1 DEF InsideLock, Placed

LEMMA ExclusionNext ==
  ASSUME NEW r \in Reqs, Exclusion, LockOf(r),
         \/ phase'[r] # "inside"
         \/ phase'[r] = phase[r] /\ target'[r] = target[r]
         \/ \A q \in Reqs : phase[q] = "inside" => target[q] # target'[r]
  PROVE  Exclusion'
<1>. SUFFICES ASSUME NEW x \in Reqs, NEW y \in Reqs, phase'[x] = "inside",
                     phase'[y] = "inside", target'[x] = target'[y], x # y
              PROVE  FALSE
  BY DEF Exclusion
<1>1. CASE x # r /\ y # r
  BY <1>1 DEF LockOf, Exclusion
<1>2. CASE x = r
  BY <1>2 DEF LockOf, Exclusion
<1>3. CASE y = r
  BY <1>3 DEF LockOf, Exclusion
<1>. QED
  BY <1>1, <1>2, <1>3

LEMMA ReturnControls ==
  ASSUME Controls, NEW r \in Reqs, Returns(r)
  PROVE  Carries' /\ InsideLock' /\ Exclusion'
<1>1. Fits(h'[r])
  BY DEF Returns, Fits, Generator
<1>2. Placed(r)'
  BY DEF Returns, Placed
<1>. QED
  BY <1>1, <1>2, CarriesNext, InsideLockNext, ExclusionNext DEF Returns, Controls

LEMMA MoveControls ==
  ASSUME Controls, NEW r \in Reqs, Others(r), UNCHANGED lockVars,
         h[r].at \notin {"out", "lock"}, h'[r].at \notin {"out", "lock"},
         h'[r].user = h[r].user, h'[r].kind = h[r].kind, Fits(h'[r])
  PROVE  Carries' /\ InsideLock' /\ Exclusion'
<1>1. Placed(r)'
  BY DEF Controls, InsideLock, Placed, lockVars
<1>2. LockOf(r) /\ phase'[r] = phase[r] /\ target'[r] = target[r]
  BY DEF LockOf, lockVars, Controls, TypeOK, Holders
<1>. QED
  BY <1>1, <1>2, CarriesNext, InsideLockNext, ExclusionNext DEF Controls

-----------------------------------------------------------------------------
(* The keys, in the table, at the gateway and with the requests.            *)

Data == /\ Issued /\ OneOwner /\ Unshared /\ StillTheirs /\ Superseded
        /\ DroppedIsRevoked /\ AboutToRecord /\ NoKeyAstray /\ ShownDateIsReal

LEMMA IInvIs == IInv <=> Controls /\ Data
  BY DEF IInv, Controls, Data

(* A replaced key stays nobody's while no row is given another key.         *)
LEMMA SupersededNext ==
  ASSUME Carries, Superseded,
         \A r \in Reqs : h'[r].at = "revokeOld" => h'[r] = h[r],
         \A u \in Users : row'[u].key \in {row[u].key, NoKey}
  PROVE  Superseded'
<1>. SUFFICES ASSUME NEW r \in Reqs, h'[r].at = "revokeOld", NEW u \in Users,
                     row'[u].key = h'[r].old
              PROVE  FALSE
  BY DEF Superseded, Referenced
<1>1. h'[r] = h[r]
  OBVIOUS
<1>2. h[r].old # NoKey
  BY <1>1 DEF Carries
<1>3. row[u].key # h[r].old
  BY <1>1 DEF Superseded, Referenced
<1>. QED
  BY <1>1, <1>2, <1>3

LEMMA InHandIs ==
  ASSUME NEW r, NEW k
  PROVE  k \in InHand(r) <=> \/ h[r].at \in {"store", "rollback"} /\ k = h[r].new
                             \/ h[r].at = "revokeOld" /\ k = h[r].old
  BY DEF InHand

LEMMA InHandNext ==
  ASSUME NEW r, NEW k
  PROVE  k \in InHand(r)' <=> \/ h'[r].at \in {"store", "rollback"} /\ k = h'[r].new
                              \/ h'[r].at = "revokeOld" /\ k = h'[r].old
  BY DEF InHand

LEMMA HalfExtendedIs ==
  ASSUME NEW r, NEW k
  PROVE  k \in HalfExtended(r) <=> h[r].at = "record" /\ k = h[r].old
  BY DEF HalfExtended

LEMMA HalfExtendedNext ==
  ASSUME NEW r, NEW k
  PROVE  k \in HalfExtended(r)' <=> h'[r].at = "record" /\ k = h'[r].old
  BY DEF HalfExtended

-----------------------------------------------------------------------------
(* Most steps only let go of something: a request returns or gives up, a    *)
(* row is marked, unmarked or removed, a key is lost or found. What they    *)
(* have in common keeps the keys in order.                                  *)

LetsGo(r) ==
  \/ h'[r] = h[r]
  \/ /\ h'[r].at \in {"out", "lock", "read", "rollback", "mark", "drop"}
     /\ h'[r].old \in {h[r].old, NoKey} /\ h'[r].new \in {h[r].new, NoKey}
     /\ h'[r].old # NoKey => h'[r].user = h[r].user
     /\ h'[r].at = "rollback" => /\ h[r].at = "store" /\ h'[r].new = h[r].new
                                 /\ h'[r].until = h[r].until
     /\ h'[r].at = "drop" => h'[r].old \in excused'
     /\ h[r].at \in {"store", "rollback"} => h'[r].at = "rollback" \/ h[r].new \in excused'
     /\ h[r].at = "revokeOld" => h[r].old \in excused'
     /\ h[r].at = "record" => h[r].old \in skewed'

RowsLoosen ==
  \A u \in Users :
    \/ /\ row'[u].key = row[u].key /\ row'[u].exp = row[u].exp
       /\ row'[u].missing # "no" => row[u].key # NoKey
    \/ /\ row'[u].key = NoKey /\ row'[u].missing = "no"
       /\ row[u].key # NoKey => gw[row[u].key] = "revoked" \/ row[u].key \in excused'

KeysStay ==
  /\ \A k \in Keys : gw'[k] = gw[k] \/ (gw[k] \in {"live", "lost"} /\ gw'[k] \in {"live", "lost"})
  /\ UNCHANGED gwDate
  /\ excused \subseteq excused' /\ skewed \subseteq skewed'

CheckFits == chk.at # "out" => chk.user \in Users /\ chk.key # NoKey /\ gw[chk.key] # "none"

Loosens == (\A r \in Reqs : LetsGo(r)) /\ RowsLoosen /\ KeysStay /\ CheckFits'

LEMMA KeysStayDo ==
  ASSUME KeysStay, TypeOK, NEW k \in Keys
  PROVE  /\ gw'[k] = "none" <=> gw[k] = "none"
         /\ gw'[k] = "revoked" <=> gw[k] = "revoked"
         /\ gw'[k] \in {"live", "lost"} <=> gw[k] \in {"live", "lost"}
  BY DEF KeysStay

LEMMA LoosensData ==
  ASSUME Controls, Data, TypeOK', Loosens PROVE Data'
<1>. USE DEF Controls, Data, Loosens
<1>1. Issued'
  <2>1. ASSUME NEW u \in Users
        PROVE  /\ row'[u].key # NoKey => gw'[row'[u].key] # "none"
               /\ row'[u].missing # "no" => row'[u].key # NoKey
    <3>1. row[u].key \in Names /\ row'[u].key \in Names
      BY DEF TypeOK, Rows, Names
    <3>. QED
      BY <3>1, KeysStayDo DEF Issued, RowsLoosen, Names
  <2>2. ASSUME NEW r \in Reqs
        PROVE  /\ h'[r].old # NoKey => gw'[h'[r].old] # "none"
               /\ h'[r].new # NoKey => gw'[h'[r].new] # "none"
    <3>1. h'[r].old \in Names /\ h'[r].new \in Names
      BY DEF TypeOK, Handlers, Names
    <3>2. LetsGo(r)
      OBVIOUS
    <3>. QED
      BY <3>1, <3>2, KeysStayDo DEF Issued, LetsGo, Names
  <2>. QED
    BY <2>1, <2>2 DEF Issued, CheckFits
<1>2. OneOwner'
  <2>1. ASSUME NEW u \in Users, NEW v \in Users,
               row'[u].key = row'[v].key, row'[u].key # NoKey
        PROVE  u = v
    BY <2>1 DEF OneOwner, RowsLoosen
  <2>2. ASSUME NEW r \in Reqs, NEW u \in Users,
               h'[r].old = row'[u].key, h'[r].old # NoKey
        PROVE  h'[r].user = u
    <3>1. LetsGo(r) /\ row'[u].key = row[u].key
      BY <2>2 DEF RowsLoosen
    <3>. QED
      BY <2>2, <3>1 DEF OneOwner, LetsGo
  <2>3. ASSUME NEW r \in Reqs, NEW q \in Reqs,
               h'[r].old = h'[q].old, h'[r].old # NoKey
        PROVE  h'[r].user = h'[q].user
    <3>1. LetsGo(r) /\ LetsGo(q)
      OBVIOUS
    <3>. QED
      BY <2>3, <3>1 DEF OneOwner, LetsGo
  <2>. QED
    BY <2>1, <2>2, <2>3 DEF OneOwner
<1>3. Unshared'
  <2>. SUFFICES ASSUME NEW r \in Reqs, h'[r].at \in {"store", "rollback"}
                PROVE  /\ gw'[h'[r].new] \in {"live", "lost"}
                       /\ gwDate'[h'[r].new] = h'[r].until
                       /\ h'[r].new \notin Referenced'
                       /\ \A q \in Reqs :
                            /\ h'[q].old # h'[r].new
                            /\ h'[q].at \in {"store", "rollback"} /\ h'[q].new = h'[r].new => q = r
    BY DEF Unshared
  <2>1. PICK k \in Keys : k = h'[r].new
    <3>1. h'[r].new \in Names
      BY DEF TypeOK, Handlers, Names
    <3>2. LetsGo(r) /\ Fits(h[r])
      BY CarriesIs
    <3>. QED
      BY <3>1, <3>2 DEF LetsGo, Fits, Names
  <2>2. /\ h[r].at \in {"store", "rollback"} /\ h[r].new = k /\ h[r].until = h'[r].until
    <3>1. LetsGo(r)
      OBVIOUS
    <3>. QED
      BY <2>1, <3>1 DEF LetsGo
  <2>3. /\ gw[k] \in {"live", "lost"} /\ gwDate[k] = h[r].until /\ k \notin Referenced
        /\ \A q \in Reqs : /\ h[q].old # k
                           /\ h[q].at \in {"store", "rollback"} /\ h[q].new = k => q = r
    BY <2>2 DEF Unshared
  <2>4. gw'[k] \in {"live", "lost"} /\ gwDate'[k] = h'[r].until
    BY <2>2, <2>3, KeysStayDo DEF KeysStay
  <2>5. k # NoKey
    BY LifecycleAssumption
  <2>6. k \notin Referenced'
    BY <2>3, <2>5 DEF Referenced, RowsLoosen
  <2>7. ASSUME NEW q \in Reqs
        PROVE  /\ h'[q].old # k
               /\ h'[q].at \in {"store", "rollback"} /\ h'[q].new = k => q = r
    <3>1. LetsGo(q)
      OBVIOUS
    <3>. QED
      BY <2>3, <2>5, <3>1 DEF LetsGo
  <2>. QED
    BY <2>1, <2>4, <2>6, <2>7
<1>4. StillTheirs'
  <2>. SUFFICES ASSUME NEW r \in Reqs, h'[r].at \in {"create", "store"}
                PROVE  row'[h'[r].user].key \in {h'[r].old, NoKey}
    BY DEF StillTheirs
  <2>1. h'[r] = h[r]
    BY DEF LetsGo
  <2>2. h[r].user \in Users
    <3>1. Fits(h[r]) /\ h[r].user \in Holders
      BY CarriesIs DEF TypeOK, Handlers, Holders
    <3>. QED
      BY <2>1, <3>1 DEF Fits, Holders
  <2>. QED
    BY <2>1, <2>2 DEF StillTheirs, RowsLoosen
<1>5. DroppedIsRevoked'
  <2>. SUFFICES ASSUME NEW r \in Reqs, h'[r].at = "drop"
                PROVE  gw'[h'[r].old] = "revoked" \/ h'[r].old \in excused'
    BY DEF DroppedIsRevoked
  <2>1. LetsGo(r)
    OBVIOUS
  <2>2. CASE h'[r] = h[r]
    <3>1. h[r].old \in Keys
      <4>1. Fits(h[r]) /\ h[r].old \in Names
        BY CarriesIs DEF TypeOK, Handlers, Names
      <4>. QED
        BY <2>2, <4>1 DEF Fits, Names
    <3>. QED
      BY <2>2, <3>1, KeysStayDo DEF DroppedIsRevoked, KeysStay
  <2>. QED
    BY <2>1, <2>2 DEF LetsGo
<1>6. AboutToRecord'
  <2>. SUFFICES ASSUME NEW r \in Reqs, h'[r].at = "record"
                PROVE  gw'[h'[r].old] = "revoked" \/ gwDate'[h'[r].old] = h'[r].until
    BY DEF AboutToRecord
  <2>1. h'[r] = h[r]
    BY DEF LetsGo
  <2>2. h[r].old \in Keys
    <3>1. Fits(h[r]) /\ h[r].old \in Names
      BY CarriesIs DEF TypeOK, Handlers, Names
    <3>. QED
      BY <2>1, <3>1 DEF Fits, Names
  <2>. QED
    BY <2>1, <2>2, KeysStayDo DEF AboutToRecord, KeysStay
<1>7. NoKeyAstray'
  <2>. SUFFICES ASSUME NEW k \in Keys, gw'[k] \in {"live", "lost"}, k \notin Referenced',
                       k \notin excused'
                PROVE  \E r \in Reqs : k \in InHand(r)'
    BY DEF NoKeyAstray
  <2>1. gw[k] \in {"live", "lost"} /\ k \notin excused
    BY KeysStayDo DEF KeysStay
  <2>2. k \notin Referenced
    BY <2>1 DEF Referenced, RowsLoosen
  <2>3. PICK r \in Reqs : k \in InHand(r)
    BY <2>1, <2>2 DEF NoKeyAstray
  <2>4. LetsGo(r)
    OBVIOUS
  <2>5. k \in InHand(r)'
    BY <2>3, <2>4, InHandIs, InHandNext DEF LetsGo
  <2>. QED
    BY <2>5
<1>8. ShownDateIsReal'
  <2>. SUFFICES ASSUME NEW u \in Users, HasKey(u)', row'[u].exp > gwDate'[row'[u].key],
                       row'[u].key \notin skewed'
                PROVE  \E r \in Reqs : row'[u].key \in HalfExtended(r)'
    BY DEF ShownDateIsReal
  <2>1. row'[u].key = row[u].key /\ row'[u].exp = row[u].exp /\ row[u].key \in Keys
    <3>1. row'[u].key \in Names /\ row'[u].key # NoKey
      BY DEF TypeOK, Rows, Names, HasKey
    <3>. QED
      BY <3>1 DEF RowsLoosen, Names
  <2>2. HasKey(u) /\ row[u].exp > gwDate[row[u].key] /\ row[u].key \notin skewed
    BY <2>1, KeysStayDo DEF HasKey, KeysStay
  <2>3. PICK r \in Reqs : row[u].key \in HalfExtended(r)
    BY <2>2 DEF ShownDateIsReal
  <2>4. LetsGo(r)
    OBVIOUS
  <2>5. row[u].key \in HalfExtended(r)'
    BY <2>1, <2>3, <2>4, HalfExtendedIs, HalfExtendedNext DEF LetsGo
  <2>. QED
    BY <2>1, <2>5
<1>9. Superseded'
  BY SupersededNext DEF LetsGo, RowsLoosen
<1>. QED
  BY <1>9, <1>1, <1>2, <1>3, <1>4, <1>5, <1>6, <1>7, <1>8

-----------------------------------------------------------------------------
(* The steps of requests that let go.                                       *)

StoresTyped == /\ row' \in [Users -> Rows] /\ gw' \in [Keys -> GwStates]
               /\ gwDate' \in [Keys -> 0..MaxDate]
               /\ excused' \subseteq Keys /\ skewed' \subseteq Keys

(* What r holds alone is accounted for when r lets it go.                   *)
Accounts(r) == /\ h[r].at \in {"store", "rollback"} => h[r].new \in excused'
               /\ h[r].at = "revokeOld" => h[r].old \in excused'
               /\ h[r].at = "record" => h[r].old \in skewed'

LEMMA ChkKept ==
  ASSUME Controls, Data, KeysStay, UNCHANGED chk PROVE CheckFits'
<1>1. chk.at # "out" => chk.key \in Keys
  BY DEF Controls, TypeOK, Checks, Data, Issued
<1>2. \A k \in Keys : gw'[k] = "none" <=> gw[k] = "none"
  BY KeysStayDo DEF Controls
<1>. QED
  BY <1>1, <1>2 DEF CheckFits, Data, Issued

LEMMA NothingStored ==
  ASSUME Controls, Data, UNCHANGED <<row, gw, gwDate, excused, skewed>>
  PROVE  StoresTyped /\ RowsLoosen /\ KeysStay
<1>1. StoresTyped
  BY DEF StoresTyped, Controls, TypeOK
<1>2. RowsLoosen
  BY DEF RowsLoosen, Data, Issued
<1>3. KeysStay
  BY DEF KeysStay
<1>. QED
  BY <1>1, <1>2, <1>3

LEMMA ReturnKeeps ==
  ASSUME IInv, NEW r \in Reqs, Returns(r), UNCHANGED chk,
         StoresTyped, RowsLoosen, KeysStay, Accounts(r)
  PROVE  IInv'
<1>. Controls /\ Data
  BY IInvIs
<1>1. TypeOK'
  BY DEF Controls, TypeOK, StoresTyped, Returns, LockOf, Holders
<1>2. LetsGo(r)
  BY DEF LetsGo, Returns, Accounts
<1>3. \A x \in Reqs \ {r} : LetsGo(x)
  BY DEF LetsGo, Returns, Others
<1>4. Loosens
  BY <1>2, <1>3, ChkKept DEF Loosens
<1>5. Carries' /\ InsideLock' /\ Exclusion'
  BY ReturnControls
<1>6. Data'
  BY <1>1, <1>4, LoosensData
<1>. QED
  BY <1>1, <1>5, <1>6 DEF IInv, Data

LEMMA MoveKeeps ==
  ASSUME IInv, NEW r \in Reqs, NEW at \in {"rollback", "mark", "drop"}, Moves(r, at),
         UNCHANGED chk, StoresTyped, RowsLoosen, KeysStay,
         h[r].at \notin {"out", "lock", "rollback", "revokeOld", "record"},
         Fits(h'[r]),
         at = "rollback" <=> h[r].at = "store",
         at = "drop" => h[r].old \in excused'
  PROVE  IInv'
<1>. Controls /\ Data
  BY IInvIs
<1>1. TypeOK'
  BY DEF Controls, TypeOK, StoresTyped, Moves, lockVars
<1>2. LetsGo(r)
  BY DEF LetsGo, Moves
<1>3. \A x \in Reqs \ {r} : LetsGo(x)
  BY DEF LetsGo, Moves, Others
<1>4. Loosens
  BY <1>2, <1>3, ChkKept DEF Loosens
<1>5. Carries' /\ InsideLock' /\ Exclusion'
  <2>1. h'[r].at \notin {"out", "lock"}
    BY DEF Moves
  <2>. QED
    BY <2>1, MoveControls DEF Moves
<1>6. Data'
  BY <1>1, <1>4, LoosensData
<1>. QED
  BY <1>1, <1>5, <1>6 DEF IInv, Data

(* A request that returns with nothing in hand and nothing done.            *)
LEMMA JustReturns ==
  ASSUME IInv, NEW r \in Reqs, Finish(r),
         UNCHANGED <<chk, row, gw, gwDate, excused, skewed>>,
         h[r].at \notin {"store", "rollback", "revokeOld", "record"}
  PROVE  IInv'
<1>1. Returns(r)
  BY FinishReturns DEF IInv
<1>2. StoresTyped /\ RowsLoosen /\ KeysStay
  BY IInvIs, NothingStored
<1>. QED
  BY <1>1, <1>2, ReturnKeeps DEF Accounts

LEMMA FitsNow ==
  ASSUME IInv, NEW r \in Reqs
  PROVE  /\ Fits(h[r]) /\ h[r] \in Handlers
         /\ h[r].at # "out" => h[r].user \in Users
         /\ h[r].old # NoKey => h[r].old \in Keys /\ gw[h[r].old] # "none"
         /\ h[r].new # NoKey => h[r].new \in Keys /\ gw[h[r].new] # "none"
<1>1. Fits(h[r])
  BY CarriesIs DEF IInv
<1>2. h[r] \in Handlers
  BY DEF IInv, TypeOK
<1>3. h[r].at # "out" => h[r].user \in Users
  BY <1>1, <1>2 DEF Fits, Handlers
<1>4. /\ h[r].old # NoKey => h[r].old \in Keys /\ gw[h[r].old] # "none"
      /\ h[r].new # NoKey => h[r].new \in Keys /\ gw[h[r].new] # "none"
  BY <1>2 DEF Handlers, IInv, Issued
<1>. QED
  BY <1>1, <1>2, <1>3, <1>4

LEMMA InitKeeps == Init => IInv
<1>. SUFFICES ASSUME Init PROVE IInv
  OBVIOUS
<1>1. PICK i \in Handlers : /\ i = Idle /\ i.at = "out" /\ i.user = NoUser
                            /\ i.old = NoKey /\ i.new = NoKey
  BY IdleIs
<1>2. h = [r \in Reqs |-> i]
  BY <1>1 DEF Init
<1>3. PICK n \in Rows : n = NoRow /\ n.key = NoKey /\ n.exp = 0 /\ n.missing = "no"
  BY NoRowIs
<1>4. row = [u \in Users |-> n]
  BY <1>3 DEF Init
<1>5. /\ phase = [r \in Reqs |-> "out"] /\ target = [r \in Reqs |-> NoUser]
      /\ gw = [k \in Keys |-> "none"] /\ gwDate = [k \in Keys |-> 0]
      /\ excused = {} /\ skewed = {} /\ chk \in Checks /\ chk.at = "out"
  BY NoCheckIs DEF Init, Lock!Init
<1>6. TypeOK
  BY <1>1, <1>2, <1>3, <1>4, <1>5, LifecycleAssumption DEF TypeOK, Lock!Phases, GwStates
<1>7. Carries /\ InsideLock /\ Exclusion
  <2>1. \A r \in Reqs : Fits(h[r])
    BY <1>1, <1>2 DEF Fits, Generator
  <2>. QED
    BY <1>1, <1>2, <1>5, <2>1, CarriesIs DEF InsideLock, Exclusion
<1>8. Issued /\ OneOwner /\ Unshared /\ StillTheirs
  BY <1>1, <1>2, <1>3, <1>4, <1>5 DEF Issued, OneOwner, Unshared, StillTheirs
<1>9. Superseded /\ DroppedIsRevoked /\ AboutToRecord /\ NoKeyAstray /\ ShownDateIsReal
  BY <1>1, <1>2, <1>3, <1>4, <1>5
  DEF Superseded, DroppedIsRevoked, AboutToRecord, NoKeyAstray, ShownDateIsReal, HasKey
<1>. QED
  BY <1>6, <1>7, <1>8, <1>9 DEF IInv

LEMMA StartKeeps ==
  ASSUME IInv, NEW r \in Reqs, NEW u \in Users, NEW kind \in Locked \union Lockless,
         Start(r, u, kind)
  PROVE  IInv'
<1>. Controls /\ Data
  BY IInvIs
<1>1. PICK q \in Handlers : q = h[r]
  BY FitsNow
<1>2. PICK at \in {"lock", "read"} : at = IF kind \in Locked THEN "lock" ELSE "read"
  OBVIOUS
<1>3. PICK p : p = [q EXCEPT !.at = at, !.kind = kind, !.user = u]
  OBVIOUS
<1>4. /\ p \in Handlers /\ p.at = at /\ p.kind = kind /\ p.user = u
      /\ p.old = q.old /\ p.new = q.new
  BY <1>2, <1>3 DEF Handlers, At
<1>5. h' = [h EXCEPT ![r] = p] /\ q.at = "out"
  BY <1>1, <1>2, <1>3 DEF Start
<1>6. h' \in [Reqs -> Handlers] /\ Others(r) /\ h'[r] = p
  BY <1>4, <1>5 DEF Controls, TypeOK, Others
<1>7. q.old = NoKey /\ q.new = NoKey
  BY <1>1, <1>5, FitsNow DEF Fits
<1>8. Fits(p)
  BY <1>2, <1>4, <1>7, LifecycleAssumption DEF Fits, Generator
<1>9. /\ LockOf(r) /\ Placed(r)'
      /\ phase'[r] # "inside" \/ (phase'[r] = phase[r] /\ target'[r] = target[r])
  <2>1. CASE kind \in Locked
    <3>1. Lock!Ask(r, u)
      BY <2>1 DEF Start
    <3>. QED
      BY <1>2, <1>4, <1>6, <2>1, <3>1
      DEF LockOf, Placed, Lock!Ask, Lock!Phases, Controls, TypeOK, Holders
  <2>2. CASE kind \notin Locked
    <3>1. UNCHANGED <<phase, target>>
      BY <2>2 DEF Start, lockVars
    <3>. QED
      BY <1>2, <1>4, <1>6, <2>2, <3>1 DEF LockOf, Placed, Controls, TypeOK, Holders
  <2>. QED
    BY <2>1, <2>2
<1>10. UNCHANGED <<chk, row, gw, gwDate, excused, skewed>>
  BY DEF Start, store, gateway, history
<1>11. StoresTyped /\ RowsLoosen /\ KeysStay
  BY <1>10, NothingStored
<1>12. TypeOK'
  BY <1>6, <1>9, <1>10, <1>11 DEF Controls, TypeOK, StoresTyped, LockOf, Holders
<1>13. \A x \in Reqs : LetsGo(x)
  <2>1. LetsGo(r)
    BY <1>1, <1>2, <1>4, <1>5, <1>6, <1>7 DEF LetsGo
  <2>2. \A x \in Reqs \ {r} : LetsGo(x)
    BY <1>6 DEF LetsGo, Others
  <2>. QED
    BY <2>1, <2>2
<1>14. Data'
  BY <1>10, <1>11, <1>12, <1>13, ChkKept, LoosensData DEF Loosens
<1>15. Carries' /\ InsideLock' /\ Exclusion'
  BY <1>6, <1>8, <1>9, CarriesNext, InsideLockNext, ExclusionNext DEF Controls
<1>. QED
  BY <1>12, <1>14, <1>15 DEF IInv, Data

LEMMA TakeLockKeeps ==
  ASSUME IInv, NEW r \in Reqs, TakeLock(r)
  PROVE  IInv'
<1>. Controls /\ Data
  BY IInvIs
<1>1. PICK q \in Handlers : q = h[r]
  BY FitsNow
<1>2. PICK p : p = [q EXCEPT !.at = "read"]
  OBVIOUS
<1>3. /\ p \in Handlers /\ p.at = "read" /\ p.kind = q.kind /\ p.user = q.user
      /\ p.old = q.old /\ p.new = q.new
  BY <1>2 DEF Handlers, At
<1>4. h' = [h EXCEPT ![r] = p] /\ q.at = "lock"
  BY <1>1, <1>2 DEF TakeLock
<1>5. h' \in [Reqs -> Handlers] /\ Others(r) /\ h'[r] = p
  BY <1>3, <1>4 DEF Controls, TypeOK, Others
<1>6. Fits(q)
  BY <1>1, FitsNow
<1>7. Fits(p)
  BY <1>3, <1>4, <1>6 DEF Fits, Generator
<1>8. Lock!Enter(r)
  BY DEF TakeLock
<1>9. LockOf(r) /\ phase'[r] = "inside" /\ target'[r] = target[r]
  BY <1>8 DEF Lock!Enter, LockOf, Lock!Phases, Controls, TypeOK, Holders
<1>10. Placed(r)'
  BY <1>1, <1>3, <1>4, <1>5, <1>9 DEF Placed, Controls, InsideLock
<1>11. \A x \in Reqs : phase[x] = "inside" => target[x] # target'[r]
  BY <1>8, <1>9 DEF Lock!Enter
<1>12. UNCHANGED <<chk, row, gw, gwDate, excused, skewed>>
  BY DEF TakeLock, store, gateway, history
<1>13. StoresTyped /\ RowsLoosen /\ KeysStay
  BY <1>12, NothingStored
<1>14. TypeOK'
  BY <1>5, <1>9, <1>12, <1>13 DEF Controls, TypeOK, StoresTyped, LockOf, Holders
<1>15. \A x \in Reqs : LetsGo(x)
  <2>1. LetsGo(r)
    BY <1>1, <1>3, <1>4, <1>5 DEF LetsGo
  <2>2. \A x \in Reqs \ {r} : LetsGo(x)
    BY <1>5 DEF LetsGo, Others
  <2>. QED
    BY <2>1, <2>2
<1>16. Data'
  BY <1>12, <1>13, <1>14, <1>15, ChkKept, LoosensData DEF Loosens
<1>17. Carries' /\ InsideLock' /\ Exclusion'
  BY <1>5, <1>7, <1>9, <1>10, <1>11, CarriesNext, InsideLockNext, ExclusionNext DEF Controls
<1>. QED
  BY <1>14, <1>16, <1>17 DEF IInv, Data

LEMMA GiveUpKeeps ==
  ASSUME IInv, NEW r \in Reqs, GiveUp(r)
  PROVE  IInv'
  BY JustReturns DEF GiveUp, store, gateway, history

LEMMA LookKeeps ==
  ASSUME IInv, NEW r \in Reqs, Look(r)
  PROVE  IInv'
<1>. UNCHANGED <<chk, row, gw, gwDate, excused, skewed>> /\ h[r].at = "look"
  BY DEF Look, store, gateway, history
<1>1. CASE Finish(r)
  BY <1>1, JustReturns
<1>2. CASE Go(r, "mark")
  <2>1. Moves(r, "mark")
    BY <1>2, GoMoves DEF IInv, At
  <2>2. Fits(h'[r])
    BY <2>1, FitsNow DEF Moves, Fits, Generator
  <2>3. StoresTyped /\ RowsLoosen /\ KeysStay
    BY IInvIs, NothingStored
  <2>. QED
    BY <2>1, <2>2, <2>3, MoveKeeps
<1>. QED
  BY <1>1, <1>2 DEF Look

(* The row of u is rewritten with the same key and date, or removed.        *)
LEMMA RowWritten ==
  ASSUME IInv, NEW u \in Users, NEW n \in Rows, row' = [row EXCEPT ![u] = n],
         UNCHANGED <<gw, gwDate>>, excused \subseteq excused', skewed \subseteq skewed',
         excused' \subseteq Keys, skewed' \subseteq Keys,
         \/ n.key = row[u].key /\ n.exp = row[u].exp /\ row[u].key # NoKey
         \/ /\ n.key = NoKey /\ n.missing = "no"
            /\ row[u].key # NoKey => gw[row[u].key] = "revoked" \/ row[u].key \in excused'
  PROVE  StoresTyped /\ RowsLoosen /\ KeysStay
<1>1. StoresTyped
  BY DEF StoresTyped, IInv, TypeOK
<1>2. RowsLoosen
  <2>1. row'[u] = n /\ \A v \in Users \ {u} : row'[v] = row[v]
    BY DEF IInv, TypeOK
  <2>2. \A v \in Users : row[v].missing # "no" => row[v].key # NoKey
    BY DEF IInv, Issued
  <2>. QED
    BY <2>1, <2>2 DEF RowsLoosen
<1>3. KeysStay
  BY DEF KeysStay
<1>. QED
  BY <1>1, <1>2, <1>3

LEMMA RemarkedIs ==
  ASSUME NEW q \in Rows, NEW m \in {"no", "fresh", "old"}
  PROVE  /\ [q EXCEPT !.missing = m] \in Rows
         /\ [q EXCEPT !.missing = m].key = q.key /\ [q EXCEPT !.missing = m].exp = q.exp
<1>1. PICK n : n = [q EXCEPT !.missing = m]
  OBVIOUS
<1>2. n \in Rows /\ n.key = q.key /\ n.exp = q.exp
  BY <1>1 DEF Rows
<1>. QED
  BY <1>1, <1>2

LEMMA Remarked ==
  ASSUME IInv, NEW u \in Users, NEW m \in {"no", "fresh", "old"}, row[u].key # NoKey,
         row' = [row EXCEPT ![u].missing = m], UNCHANGED <<gw, gwDate, excused, skewed>>
  PROVE  StoresTyped /\ RowsLoosen /\ KeysStay
<1>1. PICK q \in Rows : q = row[u]
  BY DEF IInv, TypeOK
<1>2. PICK n \in Rows : n = [q EXCEPT !.missing = m] /\ n.key = q.key /\ n.exp = q.exp
  BY RemarkedIs
<1>3. row' = [row EXCEPT ![u] = n]
  BY <1>1, <1>2
<1>4. excused \subseteq Keys /\ skewed \subseteq Keys
  BY DEF IInv, TypeOK
<1>. QED
  BY <1>1, <1>2, <1>3, <1>4, RowWritten

LEMMA MarkKeeps ==
  ASSUME IInv, NEW r \in Reqs, Mark(r)
  PROVE  IInv'
<1>. UNCHANGED <<chk, gw, gwDate, excused, skewed>> /\ h[r].at = "mark" /\ Finish(r)
  BY DEF Mark, gateway, history
<1>1. PICK u \in Users : u = h[r].user
  BY FitsNow
<1>2. h[r].old # NoKey
  BY FitsNow DEF Fits
<1>3. CASE row' = [row EXCEPT ![u].missing = "fresh"] /\ row[u].key = h[r].old
  BY <1>2, <1>3, Remarked, FinishReturns, ReturnKeeps DEF IInv, Accounts
<1>4. CASE row' = row
  BY <1>4, JustReturns
<1>. QED
  BY <1>1, <1>3, <1>4 DEF Mark

LEMMA DropKeeps ==
  ASSUME IInv, NEW r \in Reqs, Drop(r)
  PROVE  IInv'
<1>. UNCHANGED <<chk, gw, gwDate, excused, skewed>> /\ h[r].at = "drop" /\ Finish(r)
  BY DEF Drop, gateway, history
<1>1. PICK u \in Users : u = h[r].user
  BY FitsNow
<1>2. CASE row' = [row EXCEPT ![u] = NoRow] /\ row[u].key = h[r].old
  <2>1. gw[row[u].key] = "revoked" \/ row[u].key \in excused
    BY <1>2 DEF IInv, DroppedIsRevoked
  <2>2. PICK n \in Rows : n = NoRow /\ n.key = NoKey /\ n.missing = "no"
    BY NoRowIs
  <2>3. excused \subseteq Keys /\ skewed \subseteq Keys
    BY DEF IInv, TypeOK
  <2>4. StoresTyped /\ RowsLoosen /\ KeysStay
    BY <1>2, <2>1, <2>2, <2>3, RowWritten
  <2>. QED
    BY <2>4, FinishReturns, ReturnKeeps DEF IInv, Accounts
<1>3. CASE row' = row
  BY <1>3, JustReturns
<1>. QED
  BY <1>1, <1>2, <1>3 DEF Drop

-----------------------------------------------------------------------------
(* Deletions at the gateway.                                                *)

Deleted(k) == /\ gw' = [gw EXCEPT ![k] = "revoked"]
              /\ gwDate' = [gwDate EXCEPT ![k] = 0]
              /\ excused' = excused \ {k}
              /\ skewed' = skewed \ {k}

Forgotten(k) == /\ excused' = excused \union {k}
                /\ UNCHANGED <<gw, gwDate, skewed>>

LEMMA GwDeleteIs ==
  ASSUME NEW k, GwDelete(k) PROVE Deleted(k) \/ Forgotten(k)
  BY DEF GwDelete, Deleted, Forgotten, gateway

LEMMA GwDeleteOrLogIs ==
  ASSUME NEW r, NEW k, GwDeleteOrLog(r, k) PROVE Deleted(k) \/ Forgotten(k)
  BY GwDeleteIs DEF GwDeleteOrLog, Forgotten, gateway

LEMMA ForgottenStored ==
  ASSUME IInv, NEW k \in Keys, Forgotten(k), UNCHANGED row
  PROVE  StoresTyped /\ RowsLoosen /\ KeysStay /\ k \in excused'
<1>1. StoresTyped
  BY DEF StoresTyped, IInv, TypeOK, Forgotten
<1>2. RowsLoosen
  BY DEF RowsLoosen, IInv, Issued
<1>3. KeysStay
  BY DEF KeysStay, Forgotten
<1>. QED
  BY <1>1, <1>2, <1>3 DEF Forgotten

(* The request whose call it was has k to itself, or k is its old key.      *)
Deleter(r, k) ==
  /\ \/ h[r].at = "rollback" /\ k = h[r].new
     \/ h[r].at \in {"revokeOld", "revoke"} /\ k = h[r].old
  /\ Others(r)
  /\ h'[r].at \in {"out", "drop"} /\ (h'[r].at = "drop" => h'[r].old = k)
  /\ h'[r].old \in {h[r].old, NoKey} /\ h'[r].new \in {h[r].new, NoKey}
  /\ h'[r].old # NoKey => h'[r].user = h[r].user

LEMMA DeletedDoes ==
  ASSUME TypeOK, NEW k \in Keys, Deleted(k), NEW j \in Keys
  PROVE  /\ j # k => /\ gw'[j] = gw[j] /\ gwDate'[j] = gwDate[j]
                     /\ j \in excused' <=> j \in excused
                     /\ j \in skewed' <=> j \in skewed
         /\ gw'[k] = "revoked"
  BY DEF Deleted, TypeOK

LEMMA DeletedData ==
  ASSUME IInv, TypeOK', NEW r \in Reqs, NEW k \in Keys, gw[k] # "none", Deleted(k), Deleter(r, k),
         UNCHANGED <<row, chk>>
  PROVE  Data'
<1>. TypeOK /\ Data
  BY IInvIs DEF Controls
<1>1. Issued'
  <2>1. \A j \in Keys : gw[j] # "none" => gw'[j] # "none"
    BY DeletedDoes
  <2>2. ASSUME NEW u \in Users
        PROVE  /\ row'[u].key # NoKey => gw'[row'[u].key] # "none"
               /\ row'[u].missing # "no" => row'[u].key # NoKey
    <3>1. row[u].key \in Names
      BY DEF TypeOK, Rows, Names
    <3>. QED
      BY <2>1, <3>1 DEF Data, Issued, Names
  <2>3. ASSUME NEW x \in Reqs
        PROVE  /\ h'[x].old # NoKey => gw'[h'[x].old] # "none"
               /\ h'[x].new # NoKey => gw'[h'[x].new] # "none"
    <3>1. h'[x].old \in {h[x].old, NoKey} /\ h'[x].new \in {h[x].new, NoKey}
      BY DEF Deleter, Others
    <3>. QED
      BY <2>1, <3>1, FitsNow
  <2>4. chk.at # "out" => chk.user \in Users /\ chk.key \in Keys /\ gw[chk.key] # "none"
    BY DEF TypeOK, Checks, Data, Issued
  <2>5. chk'.at # "out" => chk'.user \in Users /\ chk'.key # NoKey /\ gw'[chk'.key] # "none"
    BY <2>1, <2>4, LifecycleAssumption
  <2>. QED
    BY <2>2, <2>3, <2>5 DEF Issued
<1>2. OneOwner'
  <2>1. \A x \in Reqs : h'[x].old # NoKey => h'[x].old = h[x].old /\ h'[x].user = h[x].user
    BY DEF Deleter, Others
  <2>. QED
    BY <2>1 DEF Data, OneOwner
<1>3. Unshared'
  <2>. SUFFICES ASSUME NEW x \in Reqs, h'[x].at \in {"store", "rollback"}
                PROVE  /\ gw'[h'[x].new] \in {"live", "lost"}
                       /\ gwDate'[h'[x].new] = h'[x].until
                       /\ h'[x].new \notin Referenced'
                       /\ \A q \in Reqs :
                            /\ h'[q].old # h'[x].new
                            /\ h'[q].at \in {"store", "rollback"} /\ h'[q].new = h'[x].new => q = x
    BY DEF Unshared
  <2>1. x # r /\ h'[x] = h[x]
    BY DEF Deleter, Others
  <2>2. PICK j \in Keys : j = h[x].new
    BY <2>1, FitsNow DEF Fits
  <2>3. /\ gw[j] \in {"live", "lost"} /\ gwDate[j] = h[x].until /\ j \notin Referenced
        /\ \A q \in Reqs : /\ h[q].old # j
                           /\ h[q].at \in {"store", "rollback"} /\ h[q].new = j => q = x
    BY <2>1, <2>2 DEF Data, Unshared
  <2>4. j # k
    BY <2>1, <2>3 DEF Deleter
  <2>5. gw'[j] \in {"live", "lost"} /\ gwDate'[j] = h'[x].until
    BY <2>1, <2>3, <2>4, DeletedDoes
  <2>6. j \notin Referenced' /\ j # NoKey
    BY <2>3, LifecycleAssumption DEF Referenced
  <2>7. ASSUME NEW q \in Reqs
        PROVE  /\ h'[q].old # j
               /\ h'[q].at \in {"store", "rollback"} /\ h'[q].new = j => q = x
    BY <2>3, <2>6 DEF Deleter, Others
  <2>. QED
    BY <2>1, <2>2, <2>5, <2>6, <2>7
<1>4. StillTheirs'
  <2>1. \A x \in Reqs : h'[x].at \in {"create", "store"} => h'[x] = h[x]
    BY DEF Deleter, Others
  <2>. QED
    BY <2>1 DEF Data, StillTheirs
<1>5. DroppedIsRevoked'
  <2>. SUFFICES ASSUME NEW x \in Reqs, h'[x].at = "drop"
                PROVE  gw'[h'[x].old] = "revoked" \/ h'[x].old \in excused'
    BY DEF DroppedIsRevoked
  <2>1. CASE x = r
    BY <2>1, DeletedDoes DEF Deleter
  <2>2. CASE x # r
    <3>1. h'[x] = h[x]
      BY <2>2 DEF Deleter, Others
    <3>2. h[x].old \in Keys
      BY <3>1, FitsNow DEF Fits
    <3>. QED
      BY <3>1, <3>2, DeletedDoes DEF Data, DroppedIsRevoked
  <2>. QED
    BY <2>1, <2>2
<1>6. AboutToRecord'
  <2>. SUFFICES ASSUME NEW x \in Reqs, h'[x].at = "record"
                PROVE  gw'[h'[x].old] = "revoked" \/ gwDate'[h'[x].old] = h'[x].until
    BY DEF AboutToRecord
  <2>1. h'[x] = h[x]
    BY DEF Deleter, Others
  <2>2. h[x].old \in Keys
    BY <2>1, FitsNow DEF Fits
  <2>. QED
    BY <2>1, <2>2, DeletedDoes DEF Data, AboutToRecord
<1>7. NoKeyAstray'
  <2>. SUFFICES ASSUME NEW j \in Keys, gw'[j] \in {"live", "lost"}, j \notin Referenced',
                       j \notin excused'
                PROVE  \E x \in Reqs : j \in InHand(x)'
    BY DEF NoKeyAstray
  <2>1. j # k
    BY DeletedDoes
  <2>2. gw[j] \in {"live", "lost"} /\ j \notin excused /\ j \notin Referenced
    BY <2>1, DeletedDoes DEF Referenced
  <2>3. PICK x \in Reqs : j \in InHand(x)
    BY <2>2 DEF Data, NoKeyAstray
  <2>4. x # r
    BY <2>1, <2>3, InHandIs DEF Deleter
  <2>5. j \in InHand(x)'
    BY <2>3, <2>4, InHandIs, InHandNext DEF Deleter, Others
  <2>. QED
    BY <2>5
<1>8. ShownDateIsReal'
  <2>. SUFFICES ASSUME NEW u \in Users, HasKey(u)', row'[u].exp > gwDate'[row'[u].key],
                       row'[u].key \notin skewed'
                PROVE  \E x \in Reqs : row'[u].key \in HalfExtended(x)'
    BY DEF ShownDateIsReal
  <2>1. PICK j \in Keys : j = row[u].key
    BY DEF TypeOK, Rows, HasKey
  <2>2. j # k
    BY <2>1, DeletedDoes DEF HasKey
  <2>3. HasKey(u) /\ row[u].exp > gwDate[row[u].key] /\ row[u].key \notin skewed
    BY <2>1, <2>2, DeletedDoes DEF HasKey
  <2>4. PICK x \in Reqs : row[u].key \in HalfExtended(x)
    BY <2>3 DEF Data, ShownDateIsReal
  <2>5. row[u].key \in HalfExtended(x)'
    BY <2>4, HalfExtendedIs, HalfExtendedNext DEF Deleter, Others
  <2>. QED
    BY <2>5
<1>9. Superseded'
  BY SupersededNext DEF Controls, Deleter, Others, IInv
<1>. QED
  BY <1>9, <1>1, <1>2, <1>3, <1>4, <1>5, <1>6, <1>7, <1>8 DEF Data

LEMMA DeletedStored ==
  ASSUME TypeOK, NEW k \in Keys, Deleted(k), UNCHANGED row
  PROVE  StoresTyped
  BY LifecycleAssumption DEF TypeOK, Deleted, StoresTyped, GwStates

(* A deletion after which the handler returns.                              *)
LEMMA DeleteReturns ==
  ASSUME IInv, NEW r \in Reqs, NEW k \in Keys, gw[k] # "none", Deleted(k) \/ Forgotten(k),
         \/ h[r].at = "rollback" /\ k = h[r].new
         \/ h[r].at \in {"revokeOld", "revoke"} /\ k = h[r].old,
         Finish(r), UNCHANGED <<row, chk>>
  PROVE  IInv'
<1>. Returns(r)
  BY FinishReturns DEF IInv
<1>1. CASE Forgotten(k)
  BY <1>1, ForgottenStored, ReturnKeeps DEF Accounts
<1>2. CASE Deleted(k)
  <2>1. Deleter(r, k)
    BY DEF Deleter, Returns
  <2>2. TypeOK'
    <3>1. StoresTyped
      BY <1>2, DeletedStored DEF IInv
    <3>. QED
      BY <3>1 DEF IInv, TypeOK, StoresTyped, Returns, LockOf, Holders
  <2>3. Data'
    BY <1>2, <2>1, <2>2, DeletedData
  <2>4. Carries' /\ InsideLock' /\ Exclusion'
    BY ReturnControls, IInvIs
  <2>. QED
    BY <2>2, <2>3, <2>4 DEF IInv, Data
<1>. QED
  BY <1>1, <1>2

LEMMA RollbackKeeps ==
  ASSUME IInv, NEW r \in Reqs, Rollback(r)
  PROVE  IInv'
<1>1. PICK k \in Keys : k = h[r].new /\ gw[k] # "none"
  BY FitsNow DEF Rollback, Fits
<1>2. Deleted(k) \/ Forgotten(k)
  BY <1>1, GwDeleteOrLogIs DEF Rollback
<1>. QED
  BY <1>1, <1>2, DeleteReturns DEF Rollback, store

LEMMA RevokeOldKeeps ==
  ASSUME IInv, NEW r \in Reqs, RevokeOld(r)
  PROVE  IInv'
<1>1. PICK k \in Keys : k = h[r].old /\ gw[k] # "none"
  BY FitsNow DEF RevokeOld, Fits
<1>2. Deleted(k) \/ Forgotten(k)
  BY <1>1, GwDeleteOrLogIs DEF RevokeOld
<1>. QED
  BY <1>1, <1>2, DeleteReturns DEF RevokeOld, store

LEMMA RevokeKeeps ==
  ASSUME IInv, NEW r \in Reqs, Revoke(r)
  PROVE  IInv'
<1>. h[r].at = "revoke" /\ UNCHANGED <<row, chk>>
  BY DEF Revoke, store
<1>1. PICK k \in Keys : k = h[r].old /\ gw[k] # "none"
  BY FitsNow DEF Fits
<1>2. CASE GwDelete(k) /\ Finish(r)
  BY <1>1, <1>2, GwDeleteIs, DeleteReturns
<1>3. CASE Finish(r) /\ UNCHANGED <<gateway, history>>
  BY <1>3, JustReturns DEF gateway, history
<1>4. CASE GwDelete(k) /\ Go(r, "drop")
  <2>1. Moves(r, "drop")
    BY <1>4, GoMoves DEF IInv, At
  <2>2. Fits(h'[r])
    BY <2>1, FitsNow DEF Moves, Fits, Generator
  <2>3. CASE Forgotten(k)
    <3>1. StoresTyped /\ RowsLoosen /\ KeysStay /\ h[r].old \in excused'
      BY <1>1, <2>3, ForgottenStored
    <3>. QED
      BY <2>1, <2>2, <3>1, MoveKeeps
  <2>4. CASE Deleted(k)
    <3>1. Deleter(r, k)
      BY <1>1, <2>1 DEF Deleter, Moves
    <3>2. TypeOK'
      <4>1. StoresTyped
        BY <2>4, DeletedStored DEF IInv
      <4>. QED
        BY <2>1, <4>1 DEF IInv, TypeOK, StoresTyped, Moves, lockVars
    <3>3. Data'
      BY <1>1, <2>4, <3>1, <3>2, DeletedData
    <3>4. Carries' /\ InsideLock' /\ Exclusion'
      <4>1. h'[r].at \notin {"out", "lock"}
        BY <2>1 DEF Moves
      <4>. QED
        BY <2>1, <2>2, <4>1, MoveControls, IInvIs DEF Moves
    <3>. QED
      BY <3>2, <3>3, <3>4 DEF IInv, Data
  <2>. QED
    BY <1>4, <2>3, <2>4, GwDeleteIs
<1>. QED
  BY <1>1, <1>2, <1>3, <1>4 DEF Revoke

-----------------------------------------------------------------------------
(* The row is read, and the handler knows what it works with.               *)

FirstCalls == {"create", "prolong", "revoke", "look"}

LEMMA FirstCallIs ==
  ASSUME NEW kind \in Locked \union Lockless
  PROVE  /\ FirstCall[kind] \in FirstCalls
         /\ FirstCall[kind] = "create" => kind = "generate"
         /\ FirstCall[kind] = "prolong" => kind = "extend"
         /\ FirstCall[kind] # "create" => kind # "generate"
<1>1. kind \in {"generate", "extend", "delete", "revoke", "view"}
  BY DEF Locked, Lockless
<1>. QED
  BY <1>1 DEF FirstCall, FirstCalls

(* What r has after ReadRow.                                                *)
HasRead(r) ==
  /\ h' \in [Reqs -> Handlers] /\ Others(r) /\ h[r].at = "read"
  /\ h'[r].at \in FirstCalls /\ h'[r].user = h[r].user /\ h'[r].kind = h[r].kind
  /\ h'[r].old = row[h[r].user].key /\ h'[r].new = NoKey
  /\ Fits(h'[r])

LEMMA ReadRowDoes ==
  ASSUME IInv, NEW r \in Reqs, ReadRow(r)
  PROVE  /\ UNCHANGED <<chk, row, gw, gwDate, excused, skewed>>
         /\ h[r].at = "read"
         /\ Finish(r) \/ (HasRead(r) /\ UNCHANGED lockVars)
<1>. UNCHANGED <<chk, row, gw, gwDate, excused, skewed>> /\ h[r].at = "read"
  BY DEF ReadRow, store, gateway, history
<1>1. CASE Finish(r)
  BY <1>1
<1>2. CASE ~Finish(r)
  <2>1. PICK q \in Handlers : q = h[r]
    BY FitsNow
  <2>2. PICK u \in Users : u = q.user
    BY <2>1, FitsNow
  <2>3. PICK k \in Names : k = row[u].key
    BY DEF IInv, TypeOK, Rows, Names
  <2>4. PICK kind \in Locked \union Lockless : kind = q.kind
    BY DEF Handlers
  <2>5. PICK at \in FirstCalls : at = FirstCall[kind]
    BY FirstCallIs
  <2>6. /\ ~NothingToDo(kind, row[u]) /\ UNCHANGED lockVars
        /\ \E d \in IF kind \in {"generate", "extend"} THEN Dates ELSE {0} :
             h' = [h EXCEPT ![r].at = at, ![r].old = k, ![r].until = d]
    BY <1>2, <2>1, <2>2, <2>3, <2>4, <2>5 DEF ReadRow
  <2>7. PICK d \in 0..MaxDate : h' = [h EXCEPT ![r].at = at, ![r].old = k, ![r].until = d]
    <3>1. (IF kind \in {"generate", "extend"} THEN Dates ELSE {0}) \subseteq 0..MaxDate
      BY LifecycleAssumption DEF Dates
    <3>. QED
      BY <2>6, <3>1
  <2>8. PICK p : p = [q EXCEPT !.at = at, !.old = k, !.until = d]
    OBVIOUS
  <2>9. /\ p \in Handlers /\ p.at = at /\ p.kind = kind /\ p.user = u /\ p.old = k /\ p.new = q.new
    <3>1. at \in At /\ k \in Keys \union {NoKey}
      BY DEF At, FirstCalls, Names
    <3>. QED
      BY <2>2, <2>4, <2>8, <3>1 DEF Handlers
  <2>10. h' = [h EXCEPT ![r] = p]
    BY <2>1, <2>7, <2>8
  <2>11. h' \in [Reqs -> Handlers] /\ Others(r) /\ h'[r] = p
    BY <2>9, <2>10 DEF IInv, TypeOK, Others
  <2>12. q.old = NoKey /\ q.new = NoKey
    BY <2>1, FitsNow DEF Fits
  <2>13. kind # "generate" => k # NoKey
    BY <2>3, <2>6 DEF NothingToDo
  <2>14. Fits(p)
    <3>1. p.at \notin {"out", "lock", "read", "store", "rollback", "revokeOld", "record",
                       "mark", "drop"}
      BY <2>9 DEF FirstCalls
    <3>2. p.at # "create" => p.old # NoKey
      BY <2>5, <2>9, <2>13, FirstCallIs
    <3>3. p.user # NoUser
      BY <2>9, LifecycleAssumption
    <3>4. /\ p.at = "create" => p.kind = "generate"
          /\ p.at = "prolong" => p.kind = "extend"
      BY <2>5, <2>9, FirstCallIs
    <3>. QED
      BY <3>1, <3>2, <3>3, <3>4 DEF Fits, Generator
  <2>15. HasRead(r)
    <3>1. p.at \in FirstCalls /\ p.user = h[r].user /\ p.kind = h[r].kind
      BY <2>1, <2>2, <2>4, <2>9
    <3>2. p.old = row[h[r].user].key /\ p.new = NoKey
      BY <2>1, <2>2, <2>3, <2>9, <2>12
    <3>. QED
      BY <2>11, <2>14, <3>1, <3>2 DEF HasRead
  <2>. QED
    BY <2>6, <2>15
<1>. QED
  BY <1>1, <1>2

LEMMA ReadData ==
  ASSUME IInv, NEW r \in Reqs, HasRead(r), UNCHANGED <<chk, row, gw, gwDate, excused, skewed>>
  PROVE  Data'
<1>. Data
  BY IInvIs
<1>1. PICK u \in Users : u = h[r].user
  BY FitsNow DEF HasRead
<1>2. h'[r].user = u /\ h'[r].old = row[u].key /\ h'[r].new = NoKey
  BY <1>1 DEF HasRead
<1>3. \A x \in Reqs : h'[x].at \notin FirstCalls => h'[x] = h[x]
  BY DEF HasRead, Others
<1>4. Issued'
  BY <1>2 DEF HasRead, Others, Data, Issued
<1>5. OneOwner'
  <2>1. \A x \in Reqs, v \in Users :
          h'[x].old = row[v].key /\ h'[x].old # NoKey => h'[x].user = v
    BY <1>2 DEF HasRead, Others, Data, OneOwner
  <2>2. ASSUME NEW x \in Reqs, NEW y \in Reqs, h'[x].old = h'[y].old, h'[x].old # NoKey
        PROVE  h'[x].user = h'[y].user
    <3>1. CASE x = r
      BY <1>2, <2>1, <2>2, <3>1
    <3>2. CASE y = r
      BY <1>2, <2>1, <2>2, <3>2
    <3>3. CASE x # r /\ y # r
      BY <2>2, <3>3 DEF HasRead, Others, Data, OneOwner
    <3>. QED
      BY <3>1, <3>2, <3>3
  <2>. QED
    BY <2>1, <2>2 DEF Data, OneOwner
<1>6. Unshared'
  <2>. SUFFICES ASSUME NEW x \in Reqs, h'[x].at \in {"store", "rollback"}
                PROVE  /\ gw'[h'[x].new] \in {"live", "lost"}
                       /\ gwDate'[h'[x].new] = h'[x].until
                       /\ h'[x].new \notin Referenced'
                       /\ \A q \in Reqs :
                            /\ h'[q].old # h'[x].new
                            /\ h'[q].at \in {"store", "rollback"} /\ h'[q].new = h'[x].new => q = x
    BY DEF Unshared
  <2>1. h'[x] = h[x]
    BY <1>3 DEF FirstCalls
  <2>2. /\ gw[h[x].new] \in {"live", "lost"} /\ gwDate[h[x].new] = h[x].until
        /\ h[x].new \notin Referenced
        /\ \A q \in Reqs : /\ h[q].old # h[x].new
                           /\ h[q].at \in {"store", "rollback"} /\ h[q].new = h[x].new => q = x
    BY <2>1 DEF Data, Unshared
  <2>3. row[u].key # h[x].new /\ Referenced' = Referenced
    BY <2>2 DEF Referenced
  <2>4. ASSUME NEW q \in Reqs
        PROVE  /\ h'[q].old # h[x].new
               /\ h'[q].at \in {"store", "rollback"} /\ h'[q].new = h[x].new => q = x
    BY <1>2, <2>2, <2>3 DEF HasRead, FirstCalls, Others
  <2>. QED
    BY <2>1, <2>2, <2>3, <2>4
<1>7. StillTheirs'
  BY <1>1, <1>2 DEF HasRead, Others, Data, StillTheirs
<1>8. DroppedIsRevoked' /\ AboutToRecord'
  BY <1>3 DEF FirstCalls, Data, DroppedIsRevoked, AboutToRecord
<1>9. NoKeyAstray'
  <2>1. \A x \in Reqs, k \in Keys : k \in InHand(x) => k \in InHand(x)'
    BY InHandIs, InHandNext DEF HasRead, Others
  <2>2. Referenced' = Referenced
    BY DEF Referenced
  <2>. QED
    BY <2>1, <2>2 DEF Data, NoKeyAstray
<1>10. ShownDateIsReal'
  <2>1. \A x \in Reqs : \A k : k \in HalfExtended(x) => k \in HalfExtended(x)'
    BY HalfExtendedIs, HalfExtendedNext DEF HasRead, Others
  <2>2. \A v \in Users : HasKey(v)' <=> HasKey(v)
    BY DEF HasKey
  <2>. QED
    BY <2>1, <2>2 DEF Data, ShownDateIsReal
<1>11. Superseded'
  BY <1>3, SupersededNext DEF FirstCalls, IInv
<1>. QED
  BY <1>11, <1>4, <1>5, <1>6, <1>7, <1>8, <1>9, <1>10 DEF Data

LEMMA ReadRowKeeps ==
  ASSUME IInv, NEW r \in Reqs, ReadRow(r)
  PROVE  IInv'
<1>1. CASE Finish(r)
  BY <1>1, ReadRowDoes, JustReturns
<1>2. CASE HasRead(r) /\ UNCHANGED lockVars
  <2>. UNCHANGED <<chk, row, gw, gwDate, excused, skewed>> /\ h[r].at = "read"
    BY ReadRowDoes
  <2>1. TypeOK'
    BY <1>2 DEF IInv, TypeOK, HasRead, lockVars
  <2>2. Carries' /\ InsideLock' /\ Exclusion'
    <3>1. h'[r].at \notin {"out", "lock"}
      BY <1>2 DEF HasRead, FirstCalls
    <3>. QED
      BY <1>2, <3>1, IInvIs, MoveControls DEF HasRead
  <2>3. Data'
    BY <1>2, ReadData
  <2>. QED
    BY <2>1, <2>2, <2>3 DEF IInv, Data
<1>. QED
  BY <1>1, <1>2, ReadRowDoes

-----------------------------------------------------------------------------
(* A key is created: nobody has named it before.                            *)

LEMMA NamedIsIssued ==
  ASSUME IInv, NEW k \in Keys, gw[k] = "none"
  PROVE  /\ k # NoKey /\ k \notin Referenced
         /\ \A x \in Reqs : h[x].old # k /\ h[x].new # k
         /\ chk.at # "out" => chk.key # k
<1>1. k # NoKey
  BY LifecycleAssumption
<1>2. k \notin Referenced
  BY <1>1 DEF IInv, Issued, Referenced
<1>3. \A x \in Reqs : h[x].old # k /\ h[x].new # k
  BY <1>1 DEF IInv, Issued
<1>4. chk.at # "out" => chk.key # k
  BY DEF IInv, Issued
<1>. QED
  BY <1>1, <1>2, <1>3, <1>4

Issues(r, k) ==
  /\ gw[k] = "none" /\ gw' = [gw EXCEPT ![k] = "live"]
  /\ gwDate' = [gwDate EXCEPT ![k] = h[r].until]
  /\ h[r].at = "create" /\ Others(r)
  /\ UNCHANGED <<row, chk, skewed>>
  /\ \/ /\ h'[r].at = "store" /\ h'[r].new = k /\ h'[r].old = h[r].old
        /\ h'[r].user = h[r].user /\ h'[r].until = h[r].until
        /\ UNCHANGED excused
     \/ /\ h'[r].at = "out" /\ h'[r].old = NoKey /\ h'[r].new = NoKey
        /\ excused' = excused \union {k}

LEMMA IssuesDoes ==
  ASSUME TypeOK, NEW r \in Reqs, NEW k \in Keys, Issues(r, k), NEW j \in Keys
  PROVE  /\ j # k => gw'[j] = gw[j] /\ gwDate'[j] = gwDate[j]
         /\ gw'[k] = "live" /\ gwDate'[k] = h[r].until
         /\ j \in excused => j \in excused'
  BY DEF Issues, TypeOK

LEMMA IssuesData ==
  ASSUME IInv, NEW r \in Reqs, NEW k \in Keys, Issues(r, k)
  PROVE  Data'
<1>. TypeOK /\ Data
  BY IInvIs DEF Controls
<1>1. /\ k # NoKey /\ k \notin Referenced
      /\ \A x \in Reqs : h[x].old # k /\ h[x].new # k
      /\ chk.at # "out" => chk.key # k
  BY NamedIsIssued DEF Issues
<1>2. \A j \in Keys : gw[j] # "none" => gw'[j] # "none"
  BY IssuesDoes
<1>3. \A x \in Reqs : /\ h'[x].old \in {h[x].old, NoKey}
                      /\ h'[x].old # NoKey => h'[x].user = h[x].user
  BY DEF Issues, Others
<1>4. Issued'
  <2>1. ASSUME NEW u \in Users
        PROVE  /\ row'[u].key # NoKey => gw'[row'[u].key] # "none"
               /\ row'[u].missing # "no" => row'[u].key # NoKey
    <3>1. row[u].key \in Names /\ row' = row
      BY DEF TypeOK, Rows, Names, Issues
    <3>. QED
      BY <1>2, <3>1 DEF Data, Issued, Names
  <2>2. ASSUME NEW x \in Reqs
        PROVE  /\ h'[x].old # NoKey => gw'[h'[x].old] # "none"
               /\ h'[x].new # NoKey => gw'[h'[x].new] # "none"
    <3>1. h'[x].new \in {h[x].new, NoKey, k}
      BY DEF Issues, Others
    <3>. QED
      BY <1>2, <1>3, <3>1, FitsNow, IssuesDoes
  <2>3. chk.at # "out" => chk.user \in Users /\ chk.key \in Keys /\ gw[chk.key] # "none"
    BY DEF TypeOK, Checks, Data, Issued
  <2>4. chk'.at # "out" => chk'.user \in Users /\ chk'.key # NoKey /\ gw'[chk'.key] # "none"
    BY <1>2, <2>3, LifecycleAssumption DEF Issues
  <2>. QED
    BY <2>1, <2>2, <2>4 DEF Issued
<1>5. OneOwner'
  <2>1. row' = row
    BY DEF Issues
  <2>. QED
    BY <1>3, <2>1 DEF Data, OneOwner
<1>6. Unshared'
  <2>. SUFFICES ASSUME NEW x \in Reqs, h'[x].at \in {"store", "rollback"}
                PROVE  /\ gw'[h'[x].new] \in {"live", "lost"}
                       /\ gwDate'[h'[x].new] = h'[x].until
                       /\ h'[x].new \notin Referenced'
                       /\ \A q \in Reqs :
                            /\ h'[q].old # h'[x].new
                            /\ h'[q].at \in {"store", "rollback"} /\ h'[q].new = h'[x].new => q = x
    BY DEF Unshared
  <2>1. Referenced' = Referenced
    BY DEF Issues, Referenced
  <2>2. CASE x = r
    <3>1. h'[r].new = k /\ h'[r].until = h[r].until
      BY <2>2 DEF Issues
    <3>2. \A q \in Reqs : /\ h'[q].old # k
                          /\ h'[q].new = k => q = r
      BY <1>1, <1>3 DEF Issues, Others
    <3>. QED
      BY <1>1, <2>1, <2>2, <3>1, <3>2, IssuesDoes
  <2>3. CASE x # r
    <3>1. h'[x] = h[x]
      BY <2>3 DEF Issues, Others
    <3>2. PICK j \in Keys : j = h[x].new
      BY <3>1, FitsNow DEF Fits
    <3>3. /\ gw[j] \in {"live", "lost"} /\ gwDate[j] = h[x].until /\ j \notin Referenced
          /\ \A q \in Reqs : /\ h[q].old # j
                             /\ h[q].at \in {"store", "rollback"} /\ h[q].new = j => q = x
      BY <3>1, <3>2 DEF Data, Unshared
    <3>4. j # k /\ j # NoKey
      BY <1>1, <3>2, LifecycleAssumption
    <3>5. gw'[j] \in {"live", "lost"} /\ gwDate'[j] = h'[x].until
      BY <3>1, <3>3, <3>4, IssuesDoes
    <3>6. ASSUME NEW q \in Reqs
          PROVE  /\ h'[q].old # j
                 /\ h'[q].at \in {"store", "rollback"} /\ h'[q].new = j => q = x
      BY <1>3, <3>3, <3>4 DEF Issues, Others
    <3>. QED
      BY <2>1, <3>1, <3>2, <3>3, <3>5, <3>6
  <2>. QED
    BY <2>2, <2>3
<1>7. StillTheirs'
  BY DEF Issues, Others, Data, StillTheirs
<1>8. DroppedIsRevoked' /\ AboutToRecord'
  <2>1. ASSUME NEW x \in Reqs, h'[x].at \in {"drop", "record"}
        PROVE  /\ h'[x] = h[x] /\ h[x].old \in Keys
               /\ gw'[h[x].old] = gw[h[x].old] /\ gwDate'[h[x].old] = gwDate[h[x].old]
               /\ h[x].old \in excused => h[x].old \in excused'
    <3>1. h'[x] = h[x]
      BY <2>1 DEF Issues, Others
    <3>2. h[x].old \in Keys
      BY <2>1, <3>1, FitsNow DEF Fits
    <3>. QED
      BY <1>1, <3>1, <3>2, IssuesDoes
  <2>2. DroppedIsRevoked'
    BY <2>1 DEF Data, DroppedIsRevoked
  <2>3. AboutToRecord'
    BY <2>1 DEF Data, AboutToRecord
  <2>. QED
    BY <2>2, <2>3
<1>9. NoKeyAstray'
  <2>. SUFFICES ASSUME NEW j \in Keys, gw'[j] \in {"live", "lost"}, j \notin Referenced',
                       j \notin excused'
                PROVE  \E x \in Reqs : j \in InHand(x)'
    BY DEF NoKeyAstray
  <2>1. CASE j = k
    BY <2>1, InHandNext DEF Issues
  <2>2. CASE j # k
    <3>1. gw[j] \in {"live", "lost"} /\ j \notin Referenced /\ j \notin excused
      BY <2>2, IssuesDoes DEF Referenced, Issues
    <3>2. PICK x \in Reqs : j \in InHand(x)
      BY <3>1 DEF Data, NoKeyAstray
    <3>3. j \in InHand(x)'
      BY <3>2, InHandIs, InHandNext DEF Issues, Others
    <3>. QED
      BY <3>3
  <2>. QED
    BY <2>1, <2>2
<1>10. ShownDateIsReal'
  <2>. SUFFICES ASSUME NEW u \in Users, HasKey(u)', row'[u].exp > gwDate'[row'[u].key],
                       row'[u].key \notin skewed'
                PROVE  \E x \in Reqs : row'[u].key \in HalfExtended(x)'
    BY DEF ShownDateIsReal
  <2>1. PICK j \in Keys : j = row[u].key
    BY DEF TypeOK, Rows, HasKey, Issues
  <2>2. row' = row /\ skewed' = skewed
    BY DEF Issues
  <2>3. j # k
    BY <1>1, <2>1 DEF Referenced
  <2>4. HasKey(u) /\ row[u].exp > gwDate[row[u].key] /\ row[u].key \notin skewed
    BY <2>1, <2>2, <2>3, IssuesDoes DEF HasKey
  <2>5. PICK x \in Reqs : row[u].key \in HalfExtended(x)
    BY <2>4 DEF Data, ShownDateIsReal
  <2>6. row[u].key \in HalfExtended(x)'
    BY <2>5, HalfExtendedIs, HalfExtendedNext DEF Issues, Others
  <2>. QED
    BY <2>2, <2>6
<1>11. Superseded'
  BY SupersededNext DEF Issues, Others, IInv
<1>. QED
  BY <1>11, <1>4, <1>5, <1>6, <1>7, <1>8, <1>9, <1>10 DEF Data

LEMMA CreateKeeps ==
  ASSUME IInv, NEW r \in Reqs, Create(r)
  PROVE  IInv'
<1>. h[r].at = "create" /\ UNCHANGED <<chk, row>>
  BY DEF Create, store
<1>1. CASE Finish(r) /\ UNCHANGED <<gateway, history>>
  BY <1>1, JustReturns DEF gateway, history
<1>2. ASSUME NEW k \in Keys, gw[k] = "none", gw' = [gw EXCEPT ![k] = "live"],
             gwDate' = [gwDate EXCEPT ![k] = h[r].until],
             \/ /\ h' = [h EXCEPT ![r].at = "store", ![r].new = k]
                /\ UNCHANGED <<lockVars, history>>
             \/ Finish(r) /\ excused' = excused \union {k} /\ UNCHANGED skewed
      PROVE  IInv'
  <2>1. h[r].until \in 0..MaxDate
    BY FitsNow DEF Handlers
  <2>2. gw' \in [Keys -> GwStates] /\ gwDate' \in [Keys -> 0..MaxDate]
    BY <1>2, <2>1 DEF IInv, TypeOK, GwStates
  <2>3. CASE Finish(r) /\ excused' = excused \union {k} /\ UNCHANGED skewed
    <3>1. Returns(r)
      BY <2>3, FinishReturns DEF IInv
    <3>2. Issues(r, k)
      BY <1>2, <2>3, <3>1 DEF Issues, Returns
    <3>3. TypeOK'
      BY <2>2, <2>3, <3>1 DEF IInv, TypeOK, Returns, LockOf, Holders
    <3>4. Data'
      BY <3>2, IssuesData
    <3>5. Carries' /\ InsideLock' /\ Exclusion'
      BY <3>1, IInvIs, ReturnControls
    <3>. QED
      BY <3>3, <3>4, <3>5 DEF IInv, Data
  <2>4. CASE /\ h' = [h EXCEPT ![r].at = "store", ![r].new = k]
             /\ UNCHANGED <<lockVars, history>>
    <3>1. PICK q \in Handlers : q = h[r]
      BY FitsNow
    <3>2. PICK p : p = [q EXCEPT !.at = "store", !.new = k]
      OBVIOUS
    <3>3. /\ p \in Handlers /\ p.at = "store" /\ p.kind = q.kind /\ p.user = q.user
          /\ p.old = q.old /\ p.new = k /\ p.until = q.until
      BY <3>2 DEF Handlers, At
    <3>4. h' = [h EXCEPT ![r] = p]
      BY <2>4, <3>1, <3>2
    <3>5. h' \in [Reqs -> Handlers] /\ Others(r) /\ h'[r] = p
      BY <3>3, <3>4 DEF IInv, TypeOK, Others
    <3>6. Fits(p)
      <4>1. Fits(q) /\ k # NoKey
        BY <3>1, FitsNow, LifecycleAssumption
      <4>. QED
        BY <3>1, <3>3, <4>1 DEF Fits, Generator
    <3>7. Issues(r, k)
      BY <1>2, <2>4, <3>1, <3>3, <3>5 DEF Issues, history
    <3>8. TypeOK'
      BY <2>2, <2>4, <3>5 DEF IInv, TypeOK, lockVars, history
    <3>9. Data'
      BY <3>7, IssuesData
    <3>10. Carries' /\ InsideLock' /\ Exclusion'
      <4>1. h'[r].at \notin {"out", "lock"} /\ h[r].at \notin {"out", "lock"}
        BY <3>3, <3>5
      <4>2. h'[r].user = h[r].user /\ h'[r].kind = h[r].kind /\ Fits(h'[r])
        BY <3>1, <3>3, <3>5, <3>6
      <4>. QED
        BY <2>4, <3>5, <4>1, <4>2, IInvIs, MoveControls
    <3>. QED
      BY <3>8, <3>9, <3>10 DEF IInv, Data
  <2>. QED
    BY <1>2, <2>3, <2>4
<1>. QED
  BY <1>1, <1>2 DEF Create

-----------------------------------------------------------------------------
(* The new key is stored: the lock has kept the row the one that was read,  *)
(* and the new key the request's own.                                       *)

(* Two requests inside the lock for one user are one.                       *)
LEMMA OneInside ==
  ASSUME IInv, NEW r \in Reqs, NEW q \in Reqs, h[r].user = h[q].user,
         h[r].kind \in Locked, h[r].at \notin {"out", "lock"},
         h[q].kind \in Locked, h[q].at \notin {"out", "lock"}
  PROVE  r = q
  BY DEF IInv, InsideLock, Exclusion

Replaces(r, u) ==
  /\ h[r].at = "store" /\ u = h[r].user /\ Others(r)
  /\ row' \in [Users -> Rows] /\ \A v \in Users \ {u} : row'[v] = row[v]
  /\ row'[u].key = h[r].new /\ row'[u].exp = h[r].until
  /\ UNCHANGED <<gw, gwDate, chk, excused, skewed>>
  /\ \/ /\ h[r].old = NoKey /\ h'[r].at = "out" /\ h'[r].old = NoKey
     \/ /\ h[r].old # NoKey /\ h'[r].at = "revokeOld" /\ h'[r].old = h[r].old
        /\ h'[r].user = h[r].user
  /\ h'[r].new \in {h[r].new, NoKey}

LEMMA ReplacesData ==
  ASSUME IInv, NEW r \in Reqs, NEW u \in Users, Replaces(r, u)
  PROVE  Data'
<1>. TypeOK /\ Data
  BY IInvIs DEF Controls
<1>1. PICK k \in Keys : /\ k = h[r].new /\ row'[u].key = k /\ row'[u].exp = h[r].until
                        /\ gw[k] \in {"live", "lost"} /\ gwDate[k] = h[r].until
                        /\ k \notin Referenced
                        /\ \A q \in Reqs :
                             /\ h[q].old # k
                             /\ h[q].at \in {"store", "rollback"} /\ h[q].new = k => q = r
  <2>1. h[r].at = "store" /\ row'[u].key = h[r].new /\ row'[u].exp = h[r].until
    BY DEF Replaces
  <2>2. h[r].new \in Keys
    BY <2>1, FitsNow DEF Fits
  <2>. QED
    BY <2>1, <2>2 DEF Data, Unshared
<1>2. k # NoKey
  BY LifecycleAssumption
<1>3. \A v \in Users \ {u} : row'[v] = row[v]
  BY DEF Replaces
<1>4. \A x \in Reqs : /\ h'[x].old # k
                      /\ h'[x].old # NoKey => h'[x].old = h[x].old /\ h'[x].user = h[x].user
                      /\ h'[x].new \in {h[x].new, NoKey}
  BY <1>1, <1>2 DEF Replaces, Others
<1>5. row[u].key \in {h[r].old, NoKey}
  BY DEF Data, StillTheirs, Replaces
<1>6. gw' = gw /\ gwDate' = gwDate /\ excused' = excused /\ skewed' = skewed
  BY DEF Replaces
<1>7. \A x \in Reqs \ {r} : h'[x] = h[x]
  BY DEF Replaces, Others
<1>8. h'[r].at \in {"out", "revokeOld"}
  BY DEF Replaces
<1>9. Issued'
  <2>1. \A v \in Users : row'[v].key # NoKey => gw'[row'[v].key] # "none"
    BY <1>1, <1>3, <1>6 DEF Data, Issued
  <2>2. \A v \in Users : row'[v].missing # "no" => row'[v].key # NoKey
    BY <1>1, <1>2, <1>3 DEF Data, Issued
  <2>3. \A x \in Reqs : /\ h'[x].old # NoKey => gw'[h'[x].old] # "none"
                        /\ h'[x].new # NoKey => gw'[h'[x].new] # "none"
    BY <1>4, <1>6 DEF Data, Issued
  <2>4. chk'.at # "out" => chk'.user \in Users /\ chk'.key # NoKey /\ gw'[chk'.key] # "none"
    BY DEF Data, Issued, Replaces
  <2>. QED
    BY <2>1, <2>2, <2>3, <2>4 DEF Issued
<1>10. OneOwner'
  <2>1. \A v \in Users : row[v].key # k
    BY <1>1 DEF Referenced
  <2>2. \A v, w \in Users : row'[v].key = row'[w].key /\ row'[v].key # NoKey => v = w
    BY <1>1, <1>3, <2>1 DEF Data, OneOwner
  <2>3. \A x \in Reqs, v \in Users :
          h'[x].old = row'[v].key /\ h'[x].old # NoKey => h'[x].user = v
    BY <1>1, <1>3, <1>4 DEF Data, OneOwner
  <2>4. \A x, y \in Reqs :
          h'[x].old = h'[y].old /\ h'[x].old # NoKey => h'[x].user = h'[y].user
    BY <1>4 DEF Data, OneOwner
  <2>. QED
    BY <2>2, <2>3, <2>4 DEF OneOwner
<1>11. Unshared'
  <2>. SUFFICES ASSUME NEW x \in Reqs, h'[x].at \in {"store", "rollback"}
                PROVE  /\ gw'[h'[x].new] \in {"live", "lost"}
                       /\ gwDate'[h'[x].new] = h'[x].until
                       /\ h'[x].new \notin Referenced'
                       /\ \A q \in Reqs :
                            /\ h'[q].old # h'[x].new
                            /\ h'[q].at \in {"store", "rollback"} /\ h'[q].new = h'[x].new => q = x
    BY DEF Unshared
  <2>1. x # r /\ h'[x] = h[x]
    BY <1>7, <1>8
  <2>2. PICK j \in Keys : j = h[x].new
    BY <2>1, FitsNow DEF Fits
  <2>3. /\ gw[j] \in {"live", "lost"} /\ gwDate[j] = h[x].until /\ j \notin Referenced
        /\ \A q \in Reqs : /\ h[q].old # j
                           /\ h[q].at \in {"store", "rollback"} /\ h[q].new = j => q = x
    BY <2>1, <2>2 DEF Data, Unshared
  <2>4. j # k /\ j # NoKey
    BY <1>1, <2>1, <2>2, LifecycleAssumption
  <2>5. j \notin Referenced'
    BY <1>1, <1>3, <2>3, <2>4 DEF Referenced
  <2>6. \A q \in Reqs : /\ h'[q].old # j
                        /\ h'[q].at \in {"store", "rollback"} /\ h'[q].new = j => q = x
    BY <1>4, <1>7, <1>8, <2>3, <2>4
  <2>. QED
    BY <1>6, <2>1, <2>2, <2>3, <2>5, <2>6
<1>12. StillTheirs'
  <2>. SUFFICES ASSUME NEW x \in Reqs, h'[x].at \in {"create", "store"}
                PROVE  row'[h'[x].user].key \in {h'[x].old, NoKey}
    BY DEF StillTheirs
  <2>1. x # r /\ h'[x] = h[x]
    BY <1>7, <1>8
  <2>2. h[x].kind \in Locked /\ h[r].kind \in Locked
    BY <2>1, FitsNow DEF Fits, Generator, Replaces, Locked
  <2>3. h[x].user # u
    BY <2>1, <2>2, OneInside DEF Replaces
  <2>4. h[x].user \in Users
    BY <2>1, FitsNow
  <2>. QED
    BY <1>3, <2>1, <2>3, <2>4 DEF Data, StillTheirs
<1>13. DroppedIsRevoked' /\ AboutToRecord'
  BY <1>6, <1>7, <1>8 DEF Data, DroppedIsRevoked, AboutToRecord
<1>14. NoKeyAstray'
  <2>. SUFFICES ASSUME NEW j \in Keys, gw'[j] \in {"live", "lost"}, j \notin Referenced',
                       j \notin excused'
                PROVE  \E x \in Reqs : j \in InHand(x)'
    BY DEF NoKeyAstray
  <2>1. j # k
    BY <1>1 DEF Referenced
  <2>2. CASE j = row[u].key
    <3>1. j = h[r].old /\ j # NoKey
      BY <1>5, <2>2, LifecycleAssumption
    <3>2. j \in InHand(r)'
      BY <3>1, InHandNext DEF Replaces
    <3>. QED
      BY <3>2
  <2>3. CASE j # row[u].key
    <3>1. gw[j] \in {"live", "lost"} /\ j \notin excused
      BY <1>6
    <3>2. j \notin Referenced
      BY <1>3, <2>3 DEF Referenced
    <3>3. PICK x \in Reqs : j \in InHand(x)
      BY <3>1, <3>2 DEF Data, NoKeyAstray
    <3>4. x # r
      BY <1>1, <2>1, <3>3, InHandIs DEF Replaces
    <3>5. j \in InHand(x)'
      BY <1>7, <3>3, <3>4, InHandIs, InHandNext
    <3>. QED
      BY <3>5
  <2>. QED
    BY <2>2, <2>3
<1>15. ShownDateIsReal'
  <2>. SUFFICES ASSUME NEW v \in Users, HasKey(v)', row'[v].exp > gwDate'[row'[v].key],
                       row'[v].key \notin skewed'
                PROVE  \E x \in Reqs : row'[v].key \in HalfExtended(x)'
    BY DEF ShownDateIsReal
  <2>1. v # u
    <3>1. h[r].until \in 0..MaxDate
      BY FitsNow DEF Handlers
    <3>2. ~(h[r].until > h[r].until)
      BY <3>1
    <3>. QED
      BY <1>1, <1>6, <3>2
  <2>2. row'[v] = row[v]
    BY <1>3, <2>1
  <2>3. HasKey(v) /\ row[v].exp > gwDate[row[v].key] /\ row[v].key \notin skewed
    BY <1>6, <2>2 DEF HasKey
  <2>4. PICK x \in Reqs : row[v].key \in HalfExtended(x)
    BY <2>3 DEF Data, ShownDateIsReal
  <2>5. x # r
    BY <2>4, HalfExtendedIs DEF Replaces
  <2>6. row[v].key \in HalfExtended(x)'
    BY <1>7, <2>4, <2>5, HalfExtendedIs, HalfExtendedNext
  <2>. QED
    BY <2>2, <2>6
<1>16. Superseded'
  <2>. SUFFICES ASSUME NEW x \in Reqs, h'[x].at = "revokeOld", NEW v \in Users,
                       row'[v].key = h'[x].old
                PROVE  FALSE
    BY DEF Superseded, Referenced
  <2>1. v # u
    BY <1>1, <1>4
  <2>2. row[v].key = h'[x].old
    BY <1>3, <2>1
  <2>3. CASE x = r
    <3>1. h[r].old # NoKey /\ h'[r].old = h[r].old /\ u = h[r].user
      BY <2>3 DEF Replaces
    <3>. QED
      BY <2>1, <2>2, <2>3, <3>1 DEF Data, OneOwner
  <2>4. CASE x # r
    BY <1>7, <2>2, <2>4 DEF Data, Superseded, Referenced
  <2>. QED
    BY <2>3, <2>4
<1>. QED
  BY <1>16, <1>9, <1>10, <1>11, <1>12, <1>13, <1>14, <1>15 DEF Data

LEMMA StoreKeeps ==
  ASSUME IInv, NEW r \in Reqs, Store(r)
  PROVE  IInv'
<1>. h[r].at = "store" /\ UNCHANGED <<chk, gw, gwDate, excused, skewed>>
  BY DEF Store, gateway, history
<1>1. PICK u \in Users : u = h[r].user
  BY FitsNow
<1>2. CASE /\ row' = [row EXCEPT ![u] = [key |-> h[r].new, exp |-> h[r].until, missing |-> "no"]]
           /\ IF h[r].old = NoKey THEN Finish(r) ELSE Go(r, "revokeOld")
  <2>1. PICK n \in Rows : /\ n = [key |-> h[r].new, exp |-> h[r].until, missing |-> "no"]
                          /\ n.key = h[r].new /\ n.exp = h[r].until
    <3>1. PICK k \in Keys, d \in 0..MaxDate : k = h[r].new /\ d = h[r].until
      BY FitsNow DEF Fits, Handlers
    <3>2. PICK n : n = [key |-> k, exp |-> d, missing |-> "no"]
      OBVIOUS
    <3>3. n \in Rows /\ n.key = k /\ n.exp = d
      BY <3>2 DEF Rows
    <3>. QED
      BY <3>1, <3>2, <3>3
  <2>2. row' = [row EXCEPT ![u] = n]
    BY <1>2, <2>1
  <2>3. row' \in [Users -> Rows] /\ row'[u] = n /\ \A v \in Users \ {u} : row'[v] = row[v]
    BY <2>2 DEF IInv, TypeOK
  <2>4. CASE h[r].old = NoKey
    <3>1. Returns(r)
      BY <1>2, <2>4, FinishReturns DEF IInv
    <3>2. Replaces(r, u)
      BY <1>1, <2>1, <2>3, <2>4, <3>1 DEF Replaces, Returns
    <3>3. TypeOK'
      BY <2>3, <3>1 DEF IInv, TypeOK, Returns, LockOf, Holders
    <3>4. Carries' /\ InsideLock' /\ Exclusion'
      BY <3>1, IInvIs, ReturnControls
    <3>. QED
      BY <3>2, <3>3, <3>4, ReplacesData DEF IInv, Data
  <2>5. CASE h[r].old # NoKey
    <3>1. Moves(r, "revokeOld")
      BY <1>2, <2>5, GoMoves DEF IInv, At
    <3>2. Replaces(r, u)
      BY <1>1, <2>1, <2>3, <2>5, <3>1 DEF Replaces, Moves
    <3>3. TypeOK'
      BY <2>3, <3>1 DEF IInv, TypeOK, Moves, lockVars
    <3>4. Carries' /\ InsideLock' /\ Exclusion'
      <4>1. Fits(h'[r]) /\ h'[r].at \notin {"out", "lock"}
        BY <2>5, <3>1, FitsNow DEF Moves, Fits, Generator
      <4>. QED
        BY <3>1, <4>1, IInvIs, MoveControls DEF Moves
    <3>. QED
      BY <3>2, <3>3, <3>4, ReplacesData DEF IInv, Data
  <2>. QED
    BY <2>4, <2>5
<1>3. CASE UNCHANGED row /\ Moves(r, "rollback")
  <2>1. Fits(h'[r])
    BY <1>3, FitsNow DEF Moves, Fits, Generator
  <2>2. StoresTyped /\ RowsLoosen /\ KeysStay
    BY <1>3, IInvIs, NothingStored
  <2>. QED
    BY <1>3, <2>1, <2>2, MoveKeeps
<1>4. ASSUME UNCHANGED row, Go(r, "rollback") PROVE Moves(r, "rollback")
  BY <1>4, GoMoves DEF IInv, At
<1>5. ASSUME h' = [h EXCEPT ![r].at = "rollback", ![r].gone = TRUE], UNCHANGED lockVars
      PROVE  Moves(r, "rollback")
  <2>1. PICK q \in Handlers : q = h[r]
    BY FitsNow
  <2>2. PICK p : p = [q EXCEPT !.at = "rollback", !.gone = TRUE]
    OBVIOUS
  <2>3. /\ p \in Handlers /\ p.at = "rollback" /\ p.kind = q.kind /\ p.user = q.user
        /\ p.old = q.old /\ p.new = q.new /\ p.until = q.until
    BY <2>2 DEF Handlers, At
  <2>4. h' = [h EXCEPT ![r] = p]
    BY <1>5, <2>1, <2>2
  <2>. QED
    BY <1>5, <2>1, <2>3, <2>4 DEF IInv, TypeOK, Moves, Others
<1>. QED
  BY <1>1, <1>2, <1>3, <1>4, <1>5 DEF Store

-----------------------------------------------------------------------------
(* A key is prolonged at the gateway, and the new date recorded.            *)

Redates(r, k) ==
  /\ h[r].at = "prolong" /\ k = h[r].old /\ Others(r)
  /\ gwDate' = [gwDate EXCEPT ![k] = h[r].until]
  /\ UNCHANGED <<gw, row, chk, excused>>
  /\ \/ /\ h'[r].at = "record" /\ h'[r].old = k /\ h'[r].user = h[r].user
        /\ h'[r].until = h[r].until /\ UNCHANGED skewed
     \/ h'[r].at = "out" /\ h'[r].old = NoKey /\ skewed' = skewed \union {k}
  /\ h'[r].new \in {h[r].new, NoKey}

LEMMA RedatesData ==
  ASSUME IInv, NEW r \in Reqs, NEW k \in Keys, Redates(r, k)
  PROVE  Data'
<1>. TypeOK /\ Data
  BY IInvIs DEF Controls
<1>1. /\ gw' = gw /\ row' = row /\ chk' = chk /\ excused' = excused
      /\ Referenced' = Referenced
  BY DEF Redates, Referenced
<1>2. \A x \in Reqs \ {r} : h'[x] = h[x]
  BY DEF Redates, Others
<1>3. \A x \in Reqs : /\ h'[x].old # NoKey => h'[x].old = h[x].old /\ h'[x].user = h[x].user
                      /\ h'[x].new \in {h[x].new, NoKey}
  BY DEF Redates, Others
<1>4. gwDate'[k] = h[r].until /\ \A j \in Keys \ {k} : gwDate'[j] = gwDate[j]
  BY DEF Redates, TypeOK
<1>5. h'[r].at \in {"record", "out"} /\ h[r].at = "prolong" /\ k = h[r].old
  BY DEF Redates
<1>6. Issued'
  BY <1>1, <1>3 DEF Data, Issued
<1>7. OneOwner'
  BY <1>1, <1>3 DEF Data, OneOwner
<1>8. Unshared'
  <2>. SUFFICES ASSUME NEW x \in Reqs, h'[x].at \in {"store", "rollback"}
                PROVE  /\ gw'[h'[x].new] \in {"live", "lost"}
                       /\ gwDate'[h'[x].new] = h'[x].until
                       /\ h'[x].new \notin Referenced'
                       /\ \A q \in Reqs :
                            /\ h'[q].old # h'[x].new
                            /\ h'[q].at \in {"store", "rollback"} /\ h'[q].new = h'[x].new => q = x
    BY DEF Unshared
  <2>1. x # r /\ h'[x] = h[x]
    BY <1>2, <1>5
  <2>2. PICK j \in Keys : j = h[x].new
    BY <2>1, FitsNow DEF Fits
  <2>3. /\ gw[j] \in {"live", "lost"} /\ gwDate[j] = h[x].until /\ j \notin Referenced
        /\ \A q \in Reqs : /\ h[q].old # j
                           /\ h[q].at \in {"store", "rollback"} /\ h[q].new = j => q = x
    BY <2>1, <2>2 DEF Data, Unshared
  <2>4. j # k /\ j # NoKey
    BY <1>5, <2>3, LifecycleAssumption
  <2>5. \A q \in Reqs : /\ h'[q].old # j
                        /\ h'[q].at \in {"store", "rollback"} /\ h'[q].new = j => q = x
    BY <1>2, <1>3, <1>5, <2>3, <2>4
  <2>. QED
    BY <1>1, <1>4, <2>1, <2>2, <2>3, <2>4, <2>5
<1>9. StillTheirs' /\ DroppedIsRevoked'
  <2>1. \A x \in Reqs : h'[x].at \in {"create", "store", "drop"} => h'[x] = h[x]
    BY <1>2, <1>5
  <2>. QED
    BY <1>1, <2>1 DEF Data, StillTheirs, DroppedIsRevoked
<1>10. AboutToRecord'
  <2>. SUFFICES ASSUME NEW x \in Reqs, h'[x].at = "record"
                PROVE  gw'[h'[x].old] = "revoked" \/ gwDate'[h'[x].old] = h'[x].until
    BY DEF AboutToRecord
  <2>1. CASE x = r
    BY <1>4, <2>1 DEF Redates
  <2>2. CASE x # r
    <3>1. h'[x] = h[x] /\ h[x].at = "record"
      BY <1>2, <2>2
    <3>2. h[x].old \in Keys
      BY <3>1, FitsNow DEF Fits
    <3>3. h[x].old # k
      <4>1. SUFFICES ASSUME h[x].old = h[r].old PROVE FALSE
        BY <1>5
      <4>2. h[x].user = h[r].user
        <5>1. h[r].old # NoKey
          BY <1>5, LifecycleAssumption
        <5>. QED
          BY <4>1, <5>1 DEF Data, OneOwner
      <4>3. h[x].kind \in Locked /\ h[r].kind \in Locked
        BY <1>5, <3>1, FitsNow DEF Fits, Locked
      <4>. QED
        BY <1>5, <2>2, <3>1, <4>2, <4>3, OneInside
    <3>. QED
      BY <1>1, <1>4, <3>1, <3>2, <3>3 DEF Data, AboutToRecord
  <2>. QED
    BY <2>1, <2>2
<1>11. NoKeyAstray'
  <2>1. \A x \in Reqs, j \in Keys : j \in InHand(x) => j \in InHand(x)'
    BY <1>2, <1>5, InHandIs, InHandNext
  <2>. QED
    BY <1>1, <2>1 DEF Data, NoKeyAstray
<1>12. ShownDateIsReal'
  <2>. SUFFICES ASSUME NEW u \in Users, HasKey(u)', row'[u].exp > gwDate'[row'[u].key],
                       row'[u].key \notin skewed'
                PROVE  \E x \in Reqs : row'[u].key \in HalfExtended(x)'
    BY DEF ShownDateIsReal
  <2>1. PICK j \in Keys : j = row[u].key
    BY <1>1 DEF TypeOK, Rows, HasKey
  <2>2. CASE j = k
    <3>1. h'[r].at = "record" /\ h'[r].old = k
      BY <1>1, <2>1, <2>2 DEF Redates
    <3>2. j \in HalfExtended(r)'
      BY <2>2, <3>1, HalfExtendedNext
    <3>. QED
      BY <1>1, <2>1, <3>2
  <2>3. CASE j # k
    <3>1. HasKey(u) /\ row[u].exp > gwDate[row[u].key] /\ row[u].key \notin skewed
      BY <1>1, <1>4, <2>1, <2>3 DEF HasKey, Redates
    <3>2. PICK x \in Reqs : row[u].key \in HalfExtended(x)
      BY <3>1 DEF Data, ShownDateIsReal
    <3>3. row[u].key \in HalfExtended(x)'
      BY <1>2, <1>5, <3>2, HalfExtendedIs, HalfExtendedNext
    <3>. QED
      BY <1>1, <3>3
  <2>. QED
    BY <2>2, <2>3
<1>13. Superseded'
  BY <1>1, <1>2, <1>5, SupersededNext DEF IInv
<1>. QED
  BY <1>13, <1>6, <1>7, <1>8, <1>9, <1>10, <1>11, <1>12 DEF Data

LEMMA ProlongKeeps ==
  ASSUME IInv, NEW r \in Reqs, Prolong(r)
  PROVE  IInv'
<1>. h[r].at = "prolong" /\ UNCHANGED <<chk, row, gw, excused>>
  BY DEF Prolong, store
<1>1. PICK k \in Keys : k = h[r].old
  BY FitsNow DEF Fits
<1>2. CASE Finish(r) /\ UNCHANGED <<gwDate, skewed>>
  BY <1>2, JustReturns
<1>3. CASE Go(r, "mark") /\ UNCHANGED <<gwDate, skewed>>
  <2>1. Moves(r, "mark")
    BY <1>3, GoMoves DEF IInv, At
  <2>2. Fits(h'[r])
    BY <2>1, FitsNow DEF Moves, Fits, Generator
  <2>3. StoresTyped /\ RowsLoosen /\ KeysStay
    BY <1>3, IInvIs, NothingStored
  <2>. QED
    BY <2>1, <2>2, <2>3, MoveKeeps
<1>4. CASE /\ gwDate' = [gwDate EXCEPT ![k] = h[r].until]
           /\ \/ Go(r, "record") /\ UNCHANGED skewed
              \/ Finish(r) /\ skewed' = skewed \union {k}
  <2>1. gwDate' \in [Keys -> 0..MaxDate]
    <3>1. h[r].until \in 0..MaxDate
      BY FitsNow DEF Handlers
    <3>. QED
      BY <1>4, <3>1 DEF IInv, TypeOK
  <2>2. CASE Finish(r) /\ skewed' = skewed \union {k}
    <3>1. Returns(r)
      BY <2>2, FinishReturns DEF IInv
    <3>2. Redates(r, k)
      BY <1>1, <1>4, <2>2, <3>1 DEF Redates, Returns
    <3>3. TypeOK'
      BY <2>1, <2>2, <3>1 DEF IInv, TypeOK, Returns, LockOf, Holders
    <3>4. Carries' /\ InsideLock' /\ Exclusion'
      BY <3>1, IInvIs, ReturnControls
    <3>. QED
      BY <3>2, <3>3, <3>4, RedatesData DEF IInv, Data
  <2>3. CASE Go(r, "record") /\ UNCHANGED skewed
    <3>1. Moves(r, "record")
      BY <2>3, GoMoves DEF IInv, At
    <3>2. Redates(r, k)
      BY <1>1, <1>4, <2>3, <3>1 DEF Redates, Moves
    <3>3. TypeOK'
      BY <2>1, <2>3, <3>1 DEF IInv, TypeOK, Moves, lockVars
    <3>4. Carries' /\ InsideLock' /\ Exclusion'
      <4>1. Fits(h'[r]) /\ h'[r].at \notin {"out", "lock"}
        BY <3>1, FitsNow DEF Moves, Fits, Generator
      <4>. QED
        BY <3>1, <4>1, IInvIs, MoveControls DEF Moves
    <3>. QED
      BY <3>2, <3>3, <3>4, RedatesData DEF IInv, Data
  <2>. QED
    BY <1>4, <2>2, <2>3
<1>. QED
  BY <1>1, <1>2, <1>3, <1>4 DEF Prolong

(* The date of k is recorded as the gateway has it.                         *)
Records(r, k) ==
  /\ h[r].at = "record" /\ k = h[r].old /\ Returns(r)
  /\ row' \in [Users -> Rows]
  /\ \A u \in Users : /\ row'[u].key = row[u].key /\ row'[u].missing = row[u].missing
                      /\ row'[u].exp = IF row[u].key = k THEN h[r].until ELSE row[u].exp
  /\ UNCHANGED <<gw, gwDate, chk, excused>> /\ skewed' = skewed \ {k}

LEMMA RecordsData ==
  ASSUME IInv, NEW r \in Reqs, NEW k \in Keys, Records(r, k)
  PROVE  Data'
<1>. TypeOK /\ Data
  BY IInvIs DEF Controls
<1>1. /\ gw' = gw /\ gwDate' = gwDate /\ chk' = chk /\ excused' = excused
      /\ \A u \in Users : row'[u].key = row[u].key /\ row'[u].missing = row[u].missing
  BY DEF Records
<1>2. \A j : j \in Referenced' <=> j \in Referenced
  BY <1>1 DEF Referenced
<1>3. /\ \A x \in Reqs \ {r} : h'[x] = h[x]
      /\ h'[r].at = "out" /\ h'[r].old = NoKey /\ h'[r].new = NoKey
  BY DEF Records, Returns, Others
<1>4. h[r].at = "record" /\ k = h[r].old
  BY DEF Records
<1>5. Issued'
  BY <1>1, <1>3 DEF Data, Issued
<1>6. OneOwner'
  BY <1>1, <1>3 DEF Data, OneOwner
<1>7. Unshared'
  <2>. SUFFICES ASSUME NEW x \in Reqs, h'[x].at \in {"store", "rollback"}
                PROVE  /\ gw'[h'[x].new] \in {"live", "lost"}
                       /\ gwDate'[h'[x].new] = h'[x].until
                       /\ h'[x].new \notin Referenced'
                       /\ \A q \in Reqs :
                            /\ h'[q].old # h'[x].new
                            /\ h'[q].at \in {"store", "rollback"} /\ h'[q].new = h'[x].new => q = x
    BY DEF Unshared
  <2>1. x # r /\ h'[x] = h[x]
    BY <1>3
  <2>2. h[x].new # NoKey
    BY <2>1, FitsNow DEF Fits
  <2>. QED
    BY <1>1, <1>2, <1>3, <2>1, <2>2 DEF Data, Unshared
<1>8. StillTheirs' /\ DroppedIsRevoked' /\ AboutToRecord'
  <2>1. \A x \in Reqs : h'[x].at # "out" => h'[x] = h[x] /\ h[x].user \in Users
    BY <1>3, FitsNow
  <2>. QED
    BY <1>1, <2>1 DEF Data, StillTheirs, DroppedIsRevoked, AboutToRecord
<1>9. NoKeyAstray'
  <2>1. \A x \in Reqs, j \in Keys : j \in InHand(x) => j \in InHand(x)'
    BY <1>3, <1>4, InHandIs, InHandNext
  <2>. QED
    BY <1>1, <1>2, <2>1 DEF Data, NoKeyAstray
<1>10. ShownDateIsReal'
  <2>. SUFFICES ASSUME NEW u \in Users, HasKey(u)', row'[u].exp > gwDate'[row'[u].key],
                       row'[u].key \notin skewed'
                PROVE  \E x \in Reqs : row'[u].key \in HalfExtended(x)'
    BY DEF ShownDateIsReal
  <2>1. row[u].key # k
    <3>1. SUFFICES ASSUME row[u].key = k PROVE FALSE
      OBVIOUS
    <3>2. row'[u].exp = h[r].until
      BY <3>1 DEF Records
    <3>3. gw[k] # "revoked"
      BY <1>1, <3>1 DEF HasKey
    <3>4. gwDate[k] = h[r].until
      BY <1>4, <3>3 DEF Data, AboutToRecord
    <3>5. h[r].until \in 0..MaxDate
      BY FitsNow DEF Handlers
    <3>6. ~(h[r].until > h[r].until)
      BY <3>5
    <3>. QED
      BY <1>1, <3>1, <3>2, <3>4, <3>6
  <2>2. HasKey(u) /\ row[u].exp > gwDate[row[u].key] /\ row[u].key \notin skewed
    BY <1>1, <2>1 DEF HasKey, Records
  <2>3. PICK x \in Reqs : row[u].key \in HalfExtended(x)
    BY <2>2 DEF Data, ShownDateIsReal
  <2>4. x # r
    BY <1>4, <2>1, <2>3, HalfExtendedIs
  <2>5. row[u].key \in HalfExtended(x)'
    BY <1>3, <2>3, <2>4, HalfExtendedIs, HalfExtendedNext
  <2>. QED
    BY <1>1, <2>5
<1>11. Superseded'
  BY <1>1, <1>3, SupersededNext DEF IInv
<1>. QED
  BY <1>11, <1>5, <1>6, <1>7, <1>8, <1>9, <1>10 DEF Data

LEMMA RecordKeeps ==
  ASSUME IInv, NEW r \in Reqs, Record(r)
  PROVE  IInv'
<1>. h[r].at = "record" /\ UNCHANGED <<chk, gw, gwDate, excused>> /\ Finish(r)
  BY DEF Record, gateway
<1>1. PICK k \in Keys : k = h[r].old
  BY FitsNow DEF Fits
<1>2. PICK u \in Users : u = h[r].user
  BY FitsNow
<1>3. PICK d \in 0..MaxDate : d = h[r].until
  BY FitsNow DEF Handlers
<1>4. Returns(r)
  BY FinishReturns DEF IInv
<1>5. CASE skewed' = skewed \union {k} /\ UNCHANGED row
  <2>1. StoresTyped
    BY <1>5 DEF StoresTyped, IInv, TypeOK
  <2>2. RowsLoosen
    BY <1>5 DEF RowsLoosen, IInv, Issued
  <2>3. KeysStay
    BY <1>5 DEF KeysStay
  <2>4. Accounts(r)
    BY <1>1, <1>5 DEF Accounts
  <2>. QED
    BY <1>4, <2>1, <2>2, <2>3, <2>4, ReturnKeeps
<1>6. CASE /\ row' = IF row[u].key = k THEN [row EXCEPT ![u].exp = d] ELSE row
           /\ skewed' = skewed \ {k}
  <2>1. PICK q \in Rows : q = row[u]
    BY DEF IInv, TypeOK
  <2>2. PICK n : n = [q EXCEPT !.exp = d]
    OBVIOUS
  <2>3. n \in Rows /\ n.key = q.key /\ n.exp = d /\ n.missing = q.missing
    BY <2>2 DEF Rows
  <2>4. \A v \in Users : row[v].key = k => v = u
    <3>1. h[r].old # NoKey
      BY FitsNow DEF Fits
    <3>. QED
      BY <1>1, <1>2, <3>1 DEF IInv, OneOwner
  <2>5. Records(r, k)
    <3>1. CASE row[u].key = k
      <4>1. row' = [row EXCEPT ![u] = n]
        BY <1>6, <2>1, <2>2, <3>1
      <4>2. row' \in [Users -> Rows] /\ row'[u] = n /\ \A v \in Users \ {u} : row'[v] = row[v]
        BY <2>3, <4>1 DEF IInv, TypeOK
      <4>. QED
        BY <1>1, <1>3, <1>4, <1>6, <2>1, <2>3, <2>4, <3>1, <4>2 DEF Records
    <3>2. CASE row[u].key # k
      <4>1. row' = row /\ row \in [Users -> Rows]
        BY <1>6, <3>2 DEF IInv, TypeOK
      <4>. QED
        BY <1>1, <1>4, <1>6, <2>4, <3>2, <4>1 DEF Records
    <3>. QED
      BY <3>1, <3>2
  <2>6. TypeOK'
    BY <1>4, <1>6, <2>5 DEF IInv, TypeOK, Returns, LockOf, Holders, Records
  <2>7. Carries' /\ InsideLock' /\ Exclusion'
    BY <1>4, IInvIs, ReturnControls
  <2>. QED
    BY <2>5, <2>6, <2>7, RecordsData DEF IInv, Data
<1>. QED
  BY <1>1, <1>2, <1>3, <1>5, <1>6 DEF Record

-----------------------------------------------------------------------------
(* The sync's check, the surroundings, and the kill.                        *)

(* No request takes part. *)
LEMMA AloneKeeps ==
  ASSUME IInv, UNCHANGED <<phase, target, h>>, chk' \in Checks, CheckFits',
         StoresTyped, RowsLoosen, KeysStay
  PROVE  IInv'
<1>1. TypeOK'
  BY DEF IInv, TypeOK, StoresTyped
<1>2. Carries' /\ InsideLock' /\ Exclusion'
  BY DEF IInv, Carries, InsideLock, Exclusion
<1>3. Loosens
  BY DEF Loosens, LetsGo
<1>4. Data'
  BY <1>1, <1>3, IInvIs, LoosensData
<1>. QED
  BY <1>1, <1>2, <1>4 DEF IInv, Data

LEMMA CheckStartKeeps ==
  ASSUME IInv, NEW u \in Users, CheckStart(u)
  PROVE  IInv'
<1>1. UNCHANGED <<phase, target, h>> /\ UNCHANGED <<row, gw, gwDate, excused, skewed>>
  BY DEF CheckStart, lockVars, store, gateway, history
<1>2. PICK k \in Keys : k = row[u].key /\ gw[k] # "none"
  BY DEF CheckStart, IInv, Issued, TypeOK, Rows
<1>3. PICK c : c = [at |-> "ask", user |-> u, key |-> k]
  OBVIOUS
<1>4. c \in Checks /\ c.user = u /\ c.key = k
  BY <1>3 DEF Checks
<1>5. chk' = c
  BY <1>2, <1>3 DEF CheckStart
<1>6. StoresTyped /\ RowsLoosen /\ KeysStay
  BY <1>1, IInvIs, NothingStored
<1>7. CheckFits'
  BY <1>1, <1>2, <1>4, <1>5, LifecycleAssumption DEF CheckFits
<1>. QED
  BY <1>1, <1>4, <1>5, <1>6, <1>7, AloneKeeps

LEMMA NoCheckFits ==
  ASSUME chk' = NoCheck PROVE chk' \in Checks /\ CheckFits'
  BY NoCheckIs DEF CheckFits

LEMMA CheckAskKeeps ==
  ASSUME IInv, CheckAsk
  PROVE  IInv'
<1>1. UNCHANGED <<phase, target, h>> /\ UNCHANGED <<row, gw, gwDate, excused, skewed>>
  BY DEF CheckAsk, lockVars, store, gateway, history
<1>2. StoresTyped /\ RowsLoosen /\ KeysStay
  BY <1>1, IInvIs, NothingStored
<1>3. ASSUME NEW at \in {"clear", "remove"}, chk' = [chk EXCEPT !.at = at]
      PROVE  chk' \in Checks /\ CheckFits'
  <2>1. PICK c \in Checks : c = chk /\ c.at = "ask"
    BY DEF IInv, TypeOK, CheckAsk
  <2>2. PICK d : d = [c EXCEPT !.at = at]
    OBVIOUS
  <2>3. d \in Checks /\ d.user = c.user /\ d.key = c.key
    BY <2>2 DEF Checks
  <2>4. c.user \in Users /\ c.key # NoKey /\ gw[c.key] # "none"
    BY <2>1 DEF IInv, Issued
  <2>. QED
    BY <1>1, <1>3, <2>1, <2>2, <2>3, <2>4 DEF CheckFits
<1>4. chk' \in Checks /\ CheckFits'
  BY <1>3, NoCheckFits DEF CheckAsk
<1>. QED
  BY <1>1, <1>2, <1>4, AloneKeeps

LEMMA CheckClearKeeps ==
  ASSUME IInv, CheckClear
  PROVE  IInv'
<1>1. UNCHANGED <<phase, target, h>> /\ UNCHANGED <<gw, gwDate, excused, skewed>>
  BY DEF CheckClear, lockVars, gateway, history
<1>2. PICK u \in Users : u = chk.user
  BY DEF CheckClear, IInv, Issued
<1>3. chk.key # NoKey
  BY DEF CheckClear, IInv, Issued
<1>4. StoresTyped /\ RowsLoosen /\ KeysStay
  <2>1. CASE row' = [row EXCEPT ![u].missing = "no"] /\ row[u].key = chk.key
    BY <1>1, <1>3, <2>1, Remarked
  <2>2. CASE row' = row
    BY <1>1, <2>2, IInvIs, NothingStored
  <2>. QED
    BY <1>2, <2>1, <2>2 DEF CheckClear
<1>. QED
  BY <1>1, <1>4, NoCheckFits, AloneKeeps DEF CheckClear

LEMMA CheckRemoveKeeps ==
  ASSUME IInv, CheckRemove
  PROVE  IInv'
<1>1. UNCHANGED <<phase, target, h>> /\ UNCHANGED <<gw, gwDate, skewed>>
  BY DEF CheckRemove, lockVars, gateway, history
<1>2. PICK u \in Users : u = chk.user
  BY DEF CheckRemove, IInv, Issued
<1>3. PICK k \in Keys : k = chk.key
  BY DEF CheckRemove, IInv, Issued, TypeOK, Checks
<1>4. StoresTyped /\ RowsLoosen /\ KeysStay
  <2>1. CASE /\ row[u].key = k /\ row' = [row EXCEPT ![u] = NoRow]
             /\ excused' = excused \union {j \in {k} : gw[j] # "revoked"}
    <3>1. PICK n \in Rows : n = NoRow /\ n.key = NoKey /\ n.missing = "no"
      BY NoRowIs
    <3>2. /\ excused \subseteq excused' /\ excused' \subseteq Keys
          /\ skewed \subseteq skewed' /\ skewed' \subseteq Keys
      BY <1>1, <2>1 DEF IInv, TypeOK
    <3>3. gw[k] = "revoked" \/ k \in excused'
      BY <2>1
    <3>. QED
      BY <1>1, <2>1, <3>1, <3>2, <3>3, RowWritten
  <2>2. CASE UNCHANGED <<row, excused>>
    BY <1>1, <2>2, IInvIs, NothingStored
  <2>. QED
    BY <1>2, <1>3, <2>1, <2>2 DEF CheckRemove
<1>. QED
  BY <1>1, <1>4, NoCheckFits, AloneKeeps DEF CheckRemove

LEMMA GracePassesKeeps ==
  ASSUME IInv, NEW u \in Users, GracePasses(u)
  PROVE  IInv'
<1>1. /\ UNCHANGED <<phase, target, h>> /\ UNCHANGED <<gw, gwDate, excused, skewed>>
      /\ UNCHANGED chk
  BY DEF GracePasses, lockVars, gateway, history
<1>2. row[u].key # NoKey
  BY DEF GracePasses, IInv, Issued
<1>3. StoresTyped /\ RowsLoosen /\ KeysStay
  BY <1>1, <1>2, Remarked DEF GracePasses
<1>4. chk' \in Checks /\ CheckFits'
  BY <1>1, <1>3, IInvIs, ChkKept DEF IInv, TypeOK
<1>. QED
  BY <1>1, <1>3, <1>4, AloneKeeps

LEMMA LoseOrRegainKeeps ==
  ASSUME IInv, NEW k \in Keys, Lose(k) \/ Regain(k)
  PROVE  IInv'
<1>1. /\ UNCHANGED <<phase, target, h>> /\ UNCHANGED <<row, gwDate, excused, skewed>>
      /\ UNCHANGED chk
  BY DEF Lose, Regain, lockVars, store, history
<1>2. gw[k] \in {"live", "lost"} /\ \E s \in {"live", "lost"} : gw' = [gw EXCEPT ![k] = s]
  BY DEF Lose, Regain
<1>3. StoresTyped
  BY <1>1, <1>2 DEF StoresTyped, IInv, TypeOK, GwStates
<1>4. KeysStay
  BY <1>1, <1>2 DEF KeysStay, IInv, TypeOK
<1>5. RowsLoosen
  BY <1>1, IInvIs DEF RowsLoosen, Data, Issued
<1>6. chk' \in Checks /\ CheckFits'
  BY <1>1, <1>4, IInvIs, ChkKept DEF IInv, TypeOK
<1>. QED
  BY <1>1, <1>3, <1>4, <1>5, <1>6, AloneKeeps

LEMMA KillKeeps ==
  ASSUME IInv, Kill
  PROVE  IInv'
<1>. Controls /\ Data
  BY IInvIs
<1>1. PICK i \in Handlers : /\ i = Idle /\ i.at = "out" /\ i.user = NoUser
                            /\ i.old = NoKey /\ i.new = NoKey
  BY IdleIs
<1>2. h' = [r \in Reqs |-> i]
  BY <1>1 DEF Kill
<1>3. /\ phase' = [r \in Reqs |-> "out"] /\ target' = [r \in Reqs |-> NoUser]
      /\ row' = row /\ gw' = gw /\ gwDate' = gwDate
      /\ excused' = excused \union UNION {InHand(r) : r \in Reqs}
      /\ skewed' = skewed \union UNION {HalfExtended(r) : r \in Reqs}
  BY DEF Kill, store, gateway
<1>4. chk' \in Checks /\ CheckFits'
  BY NoCheckFits DEF Kill
<1>5. \A r \in Reqs : InHand(r) \subseteq Keys /\ HalfExtended(r) \subseteq Keys
  <2>1. ASSUME NEW r \in Reqs, NEW k \in InHand(r) PROVE k \in Keys
    BY <2>1, InHandIs, FitsNow DEF Fits
  <2>2. ASSUME NEW r \in Reqs, NEW k \in HalfExtended(r) PROVE k \in Keys
    BY <2>2, HalfExtendedIs, FitsNow DEF Fits
  <2>. QED
    BY <2>1, <2>2
<1>6. TypeOK'
  <2>1. excused' \subseteq Keys /\ skewed' \subseteq Keys
    BY <1>3, <1>5 DEF Controls, TypeOK
  <2>. QED
    BY <1>2, <1>3, <1>4, <2>1 DEF Controls, TypeOK, Lock!Phases
<1>7. Carries' /\ InsideLock' /\ Exclusion'
  <2>1. \A r \in Reqs : Fits(h'[r])
    BY <1>1, <1>2 DEF Fits, Generator
  <2>2. Carries'
    BY <2>1 DEF Carries, Fits
  <2>. QED
    BY <1>1, <1>2, <1>3, <2>2 DEF InsideLock, Exclusion
<1>8. \A r \in Reqs : LetsGo(r)
  <2>. SUFFICES ASSUME NEW r \in Reqs PROVE LetsGo(r)
    OBVIOUS
  <2>1. InHand(r) \subseteq excused' /\ HalfExtended(r) \subseteq skewed'
    BY <1>3
  <2>2. /\ h[r].at \in {"store", "rollback"} => h[r].new \in excused'
        /\ h[r].at = "revokeOld" => h[r].old \in excused'
        /\ h[r].at = "record" => h[r].old \in skewed'
    BY <2>1, InHandIs, HalfExtendedIs
  <2>. QED
    BY <1>1, <1>2, <2>2 DEF LetsGo
<1>9. RowsLoosen /\ KeysStay
  BY <1>3 DEF RowsLoosen, KeysStay, Data, Issued
<1>10. Data'
  BY <1>4, <1>6, <1>8, <1>9, LoosensData DEF Loosens
<1>. QED
  BY <1>6, <1>7, <1>10 DEF IInv, Data

-----------------------------------------------------------------------------
(* The invariant. *)

LEMMA ServeKeeps ==
  ASSUME IInv, NEW r \in Reqs, Serve(r)
  PROVE  IInv'
<1>1. CASE TakeLock(r)   BY <1>1, TakeLockKeeps
<1>2. CASE ReadRow(r)    BY <1>2, ReadRowKeeps
<1>3. CASE Create(r)     BY <1>3, CreateKeeps
<1>4. CASE Store(r)      BY <1>4, StoreKeeps
<1>5. CASE Rollback(r)   BY <1>5, RollbackKeeps
<1>6. CASE RevokeOld(r)  BY <1>6, RevokeOldKeeps
<1>7. CASE Prolong(r)    BY <1>7, ProlongKeeps
<1>8. CASE Record(r)     BY <1>8, RecordKeeps
<1>9. CASE Look(r)       BY <1>9, LookKeeps
<1>10. CASE Mark(r)      BY <1>10, MarkKeeps
<1>11. CASE Revoke(r)    BY <1>11, RevokeKeeps
<1>12. CASE Drop(r)      BY <1>12, DropKeeps
<1>. QED
  BY <1>1, <1>2, <1>3, <1>4, <1>5, <1>6, <1>7, <1>8, <1>9, <1>10, <1>11, <1>12 DEF Serve

LEMMA NextKeeps == IInv /\ [Next]_vars => IInv'
<1>. SUFFICES ASSUME IInv, [Next]_vars PROVE IInv'
  OBVIOUS
<1>1. ASSUME NEW r \in Reqs, NEW u \in Users, NEW kind \in Locked \union Lockless,
             Start(r, u, kind)
      PROVE  IInv'
  BY <1>1, StartKeeps
<1>2. ASSUME NEW r \in Reqs, Serve(r) \/ GiveUp(r) PROVE IInv'
  BY <1>2, ServeKeeps, GiveUpKeeps
<1>3. CASE Check
  BY <1>3, CheckStartKeeps, CheckAskKeeps, CheckClearKeeps, CheckRemoveKeeps DEF Check
<1>4. ASSUME NEW u \in Users, GracePasses(u) PROVE IInv'
  BY <1>4, GracePassesKeeps
<1>5. ASSUME NEW k \in Keys, Lose(k) \/ Regain(k) PROVE IInv'
  BY <1>5, LoseOrRegainKeeps
<1>6. CASE Kill
  BY <1>6, KillKeeps
<1>7. CASE UNCHANGED vars
  <2>1. /\ UNCHANGED <<phase, target, h>> /\ UNCHANGED <<row, gw, gwDate, excused, skewed>>
        /\ UNCHANGED chk
    BY <1>7 DEF vars
  <2>2. StoresTyped /\ RowsLoosen /\ KeysStay
    BY <2>1, IInvIs, NothingStored
  <2>3. chk' \in Checks /\ CheckFits'
    BY <2>1, <2>2, IInvIs, ChkKept DEF IInv, TypeOK
  <2>. QED
    BY <2>1, <2>2, <2>3, AloneKeeps
<1>. QED
  BY <1>1, <1>2, <1>3, <1>4, <1>5, <1>6, <1>7 DEF Next

(* The lock keeps the requests of a user apart, a key is named by its owner *)
(* alone, and every key that works or may work again is in the table, in a  *)
(* request's hand or lost track of for a known reason (internal/handlers).  *)
THEOREM Invariance == Spec => []IInv
  BY InitKeeps, NextKeeps, PTL DEF Spec

(* No interleaving, failure or kill leaves a key that works with nothing    *)
(* pointing at it, except for a reason the code knows ("leave one new key   *)
(* live in the gateway with nothing pointing at it").                       *)
THEOREM NoKeyLost == Spec => []NoUnexplainedKey
<1>1. IInv => NoUnexplainedKey
  BY DEF IInv, NoKeyAstray, NoUnexplainedKey
<1>. QED
  BY <1>1, Invariance, PTL

(* The date shown is never later than the gateway's, except while an        *)
(* extension is under way or after one that was cut in half.                *)
THEOREM DatesAreReal == Spec => []ShownDateIsReal
<1>1. IInv => ShownDateIsReal
  BY DEF IInv
<1>. QED
  BY <1>1, Invariance, PTL

-----------------------------------------------------------------------------
(* What a step may never do.                                                *)

LEMMA ServeIsAlone ==
  ASSUME IInv, NEW x \in Reqs, NEW u \in Users, NEW kind \in Locked \union Lockless,
         Serve(x) \/ GiveUp(x) \/ Start(x, u, kind), NEW r \in Reqs \ {x}
  PROVE  h'[r] = h[r]
<1>. h \in [Reqs -> Handlers]
  BY DEF IInv, TypeOK
<1>1. ASSUME Finish(x) PROVE h'[r] = h[r]
  BY <1>1 DEF Finish
<1>2. ASSUME NEW at, Go(x, at) PROVE h'[r] = h[r]
  BY <1>2 DEF Go
<1>3. CASE TakeLock(x) \/ GiveUp(x)
  BY <1>1, <1>3 DEF TakeLock, GiveUp
<1>4. CASE Start(x, u, kind)
  BY <1>4 DEF Start
<1>5. CASE ReadRow(x)
  BY <1>5, <1>1, ReadRowDoes DEF HasRead, Others
<1>6. CASE Create(x)
  BY <1>6, <1>1 DEF Create
<1>7. CASE Store(x)
  BY <1>7, <1>1, <1>2 DEF Store
<1>8. CASE Rollback(x) \/ RevokeOld(x) \/ Record(x) \/ Mark(x) \/ Drop(x)
  BY <1>8, <1>1 DEF Rollback, RevokeOld, Record, Mark, Drop
<1>9. CASE Prolong(x)
  BY <1>9, <1>1, <1>2 DEF Prolong
<1>10. CASE Look(x) \/ Revoke(x)
  BY <1>10, <1>1, <1>2 DEF Look, Revoke
<1>. QED
  BY <1>3, <1>4, <1>5, <1>6, <1>7, <1>8, <1>9, <1>10 DEF Serve

(* How a row may change: at whose hand, and to which key.                   *)
RowMoves(u) ==
  \/ \E r \in Reqs : /\ h[r].at = "store" /\ h[r].user = u /\ h'[r].at # h[r].at
                     /\ row'[u].key = h[r].new
  \/ /\ row'[u].key \in {row[u].key, NoKey}
     /\ \/ row'[u] = [row[u] EXCEPT !.missing = "old"]
        \/ chk.key = row[u].key
        \/ \E r \in Reqs : /\ h[r].at \in {"record", "mark", "drop"} /\ h[r].user = u
                           /\ h[r].old = row[u].key /\ h'[r].at # h[r].at

(* The row of u gives way to n, which keeps its key or is none.             *)
LEMMA RowBecomes ==
  ASSUME IInv, NEW v \in Users, NEW n \in Rows, row' = [row EXCEPT ![v] = n],
         NEW u \in Users, row'[u] # row[u]
  PROVE  u = v /\ row'[u] = n
  BY DEF IInv, TypeOK

LEMMA RowMovesIs ==
  ASSUME IInv, [Next]_vars, NEW u \in Users, row'[u] # row[u]
  PROVE  RowMoves(u)
<1>. h \in [Reqs -> Handlers] /\ row \in [Users -> Rows]
  BY DEF IInv, TypeOK
<1>1. ASSUME NEW r \in Reqs, Finish(r), h[r].at # "out" PROVE h'[r].at # h[r].at
  BY <1>1, FinishReturns DEF IInv, Returns
<1>2. ASSUME NEW r \in Reqs, Store(r) PROVE RowMoves(u)
  <2>1. PICK v \in Users : v = h[r].user
    BY <1>2, FitsNow DEF Store
  <2>2. PICK k \in Keys, d \in 0..MaxDate : k = h[r].new /\ d = h[r].until
    BY <1>2, FitsNow DEF Store, Fits, Handlers
  <2>3. PICK n : n = [key |-> k, exp |-> d, missing |-> "no"]
    OBVIOUS
  <2>4. n \in Rows /\ n.key = k
    BY <2>3 DEF Rows
  <2>5. /\ row' = [row EXCEPT ![v] = n]
        /\ Finish(r) \/ Go(r, "revokeOld")
    BY <1>2, <2>1, <2>2, <2>3 DEF Store
  <2>6. u = v /\ row'[u].key = h[r].new
    BY <2>2, <2>4, <2>5, RowBecomes
  <2>7. h'[r].at # h[r].at
    BY <1>1, <1>2, <2>5, GoMoves DEF Store, Moves, At, IInv
  <2>. QED
    BY <1>2, <2>1, <2>6, <2>7 DEF Store, RowMoves
<1>3. ASSUME NEW r \in Reqs, Record(r) \/ Mark(r) \/ Drop(r) PROVE RowMoves(u)
  <2>1. PICK v \in Users : v = h[r].user
    BY <1>3, FitsNow DEF Record, Mark, Drop
  <2>2. h[r].at \in {"record", "mark", "drop"} /\ Finish(r)
    BY <1>3 DEF Record, Mark, Drop
  <2>3. h'[r].at # h[r].at
    BY <1>1, <2>2
  <2>4. PICK q \in Rows : q = row[v]
    OBVIOUS
  <2>5. PICK n \in Rows : /\ row' = [row EXCEPT ![v] = n] /\ n.key \in {q.key, NoKey}
                          /\ q.key = h[r].old
    <3>1. CASE Record(r)
      <4>1. PICK d \in 0..MaxDate : d = h[r].until
        BY <3>1, FitsNow DEF Handlers
      <4>2. PICK n : n = [q EXCEPT !.exp = d]
        OBVIOUS
      <4>3. n \in Rows /\ n.key = q.key
        BY <4>2 DEF Rows
      <4>4. row' = [row EXCEPT ![v].exp = d] /\ row[v].key = h[r].old
        BY <2>1, <3>1, <4>1 DEF Record
      <4>5. row' = [row EXCEPT ![v] = n]
        BY <2>4, <4>2, <4>4
      <4>. QED
        BY <2>4, <4>3, <4>4, <4>5
    <3>2. CASE Mark(r)
      <4>1. PICK n \in Rows : n = [q EXCEPT !.missing = "fresh"] /\ n.key = q.key
        BY RemarkedIs
      <4>2. row' = [row EXCEPT ![v].missing = "fresh"] /\ row[v].key = h[r].old
        BY <2>1, <3>2 DEF Mark
      <4>3. row' = [row EXCEPT ![v] = n]
        BY <2>4, <4>1, <4>2
      <4>. QED
        BY <2>4, <4>1, <4>2, <4>3
    <3>3. CASE Drop(r)
      <4>1. row' = [row EXCEPT ![v] = NoRow] /\ row[v].key = h[r].old
        BY <2>1, <3>3 DEF Drop
      <4>. QED
        BY <2>4, <4>1, NoRowIs
    <3>. QED
      BY <1>3, <3>1, <3>2, <3>3
  <2>6. u = v /\ row'[u] = n
    BY <2>5, RowBecomes
  <2>7. row'[u].key \in {row[u].key, NoKey} /\ h[r].old = row[u].key
    BY <2>4, <2>5, <2>6
  <2>. QED
    BY <2>1, <2>2, <2>3, <2>6, <2>7 DEF RowMoves
<1>4. ASSUME CheckClear \/ CheckRemove PROVE RowMoves(u)
  <2>1. PICK v \in Users : v = chk.user
    BY <1>4 DEF CheckClear, CheckRemove, IInv, Issued
  <2>2. PICK q \in Rows : q = row[v]
    OBVIOUS
  <2>3. PICK n \in Rows : /\ row' = [row EXCEPT ![v] = n] /\ n.key \in {q.key, NoKey}
                          /\ q.key = chk.key
    <3>1. CASE CheckClear
      <4>1. PICK n \in Rows : n = [q EXCEPT !.missing = "no"] /\ n.key = q.key
        BY RemarkedIs
      <4>2. row' = [row EXCEPT ![v].missing = "no"] /\ row[v].key = chk.key
        BY <2>1, <3>1 DEF CheckClear
      <4>3. row' = [row EXCEPT ![v] = n]
        BY <2>2, <4>1, <4>2
      <4>. QED
        BY <2>2, <4>1, <4>2, <4>3
    <3>2. CASE CheckRemove
      <4>1. row' = [row EXCEPT ![v] = NoRow] /\ row[v].key = chk.key
        BY <2>1, <3>2 DEF CheckRemove
      <4>. QED
        BY <2>2, <4>1, NoRowIs
    <3>. QED
      BY <1>4, <3>1, <3>2
  <2>4. u = v /\ row'[u] = n
    BY <2>3, RowBecomes
  <2>. QED
    BY <2>2, <2>3, <2>4 DEF RowMoves
<1>5. ASSUME NEW v \in Users, GracePasses(v) PROVE RowMoves(u)
  <2>1. PICK q \in Rows : q = row[v]
    OBVIOUS
  <2>2. PICK n \in Rows : n = [q EXCEPT !.missing = "old"] /\ n.key = q.key
    BY RemarkedIs
  <2>3. row' = [row EXCEPT ![v] = n]
    BY <1>5, <2>1, <2>2 DEF GracePasses
  <2>4. u = v /\ row'[u] = n
    BY <2>3, RowBecomes
  <2>5. row'[u] = [row[u] EXCEPT !.missing = "old"] /\ row'[u].key = row[u].key
    BY <2>1, <2>2, <2>4
  <2>. QED
    BY <2>5 DEF RowMoves
<1>6. ASSUME NEW r \in Reqs, Serve(r) \/ GiveUp(r), ~Store(r), ~Record(r), ~Mark(r), ~Drop(r)
      PROVE  row' = row
  BY <1>6 DEF Serve, GiveUp, TakeLock, ReadRow, Create, Rollback, RevokeOld, Prolong, Look,
              Revoke, store
<1>7. ASSUME NEW r \in Reqs, NEW v \in Users, NEW kind \in Locked \union Lockless,
             Start(r, v, kind)
      PROVE  row' = row
  BY <1>7 DEF Start, store
<1>8. ASSUME Check, ~CheckClear, ~CheckRemove PROVE row' = row
  BY <1>8 DEF Check, CheckStart, CheckAsk, store
<1>9. ASSUME Kill \/ UNCHANGED vars \/ \E k \in Keys : Lose(k) \/ Regain(k) PROVE row' = row
  BY <1>9 DEF Kill, vars, Lose, Regain, store
<1>. QED
  BY <1>2, <1>3, <1>4, <1>5, <1>6, <1>7, <1>8, <1>9 DEF Next

(* A request or check that is late does not write to the row of the key     *)
(* that has replaced the one it read: statements go by row id.              *)
THEOREM LateWritesMiss == Spec => NoStaleWrite
<1>1. ASSUME IInv, [Next]_vars, NEW u \in Users, row[u].key # NoKey, row'[u] # row[u]
      PROVE  \/ row'[u] = [row[u] EXCEPT !.missing = "old"]
             \/ chk.key = row[u].key
             \/ \E r \in Reqs : /\ h[r].user = u /\ h'[r].at # h[r].at
                                /\ \/ h[r].at = "store"
                                   \/ /\ h[r].at \in {"record", "mark", "drop"}
                                      /\ h[r].old = row[u].key
  BY <1>1, RowMovesIs DEF RowMoves
<1>2. IInv /\ [Next]_vars =>
        [\A u \in Users : row[u].key # NoKey /\ row'[u] # row[u] =>
           \/ row'[u] = [row[u] EXCEPT !.missing = "old"]
           \/ chk.key = row[u].key
           \/ \E r \in Reqs : /\ h[r].user = u /\ h'[r].at # h[r].at
                              /\ \/ h[r].at = "store"
                                 \/ h[r].at \in {"record", "mark", "drop"} /\ h[r].old = row[u].key
        ]_vars
  BY <1>1
<1>. QED
  BY <1>2, Invariance, PTL DEF Spec, NoStaleWrite

(* No step of GenerateKey takes a user from a key that is not revoked to    *)
(* none, whether it goes on or returns: the new key is stored before the    *)
(* old one is revoked, the old one is revoked only once it is replaced, and *)
(* the rollback revokes the new one only ("The reverse order leaves the     *)
(* user with no working key whenever creation fails").                      *)
THEOREM NeverKeyless == Spec => GenerateKeepsAKey
<1>1. ASSUME IInv, [Next]_vars, NEW r \in Reqs, NEW u \in Users,
             Generating(r), h'[r] # h[r], HasKey(u)
      PROVE  HasKey(u)'
  <2>. TypeOK
    BY <1>1 DEF IInv
  <2>1. PICK k \in Keys : k = row[u].key /\ gw[k] # "revoked"
    BY <1>1 DEF HasKey, TypeOK, Rows
  <2>2. Create(r) \/ Store(r) \/ Rollback(r) \/ RevokeOld(r) \/ Kill
    <3>1. ASSUME NEW x \in Reqs, NEW v \in Users, NEW kind \in Locked \union Lockless,
                 Serve(x) \/ GiveUp(x) \/ Start(x, v, kind)
          PROVE  x = r /\ (Serve(r) \/ GiveUp(r) \/ Start(r, v, kind))
      BY <1>1, <3>1, ServeIsAlone
    <3>2. ASSUME NEW x \in Reqs, Serve(x) \/ GiveUp(x) PROVE Serve(r) \/ GiveUp(r)
      <4>1. "view" \in Locked \union Lockless
        BY DEF Lockless
      <4>. QED
        BY <1>1, <3>2, <4>1, ServeIsAlone
    <3>3. ~(Check \/ (\E v \in Users : GracePasses(v)) \/ (\E j \in Keys : Lose(j) \/ Regain(j))
            \/ UNCHANGED vars)
      <4>1. h' # h
        BY <1>1
      <4>. QED
        BY <4>1 DEF Check, CheckStart, CheckAsk, CheckClear, CheckRemove, GracePasses, Lose,
                    Regain, vars
    <3>4. \/ Serve(r) \/ GiveUp(r) \/ Kill
          \/ \E v \in Users, kind \in Locked \union Lockless : Start(r, v, kind)
      BY <1>1, <3>1, <3>2, <3>3 DEF Next
    <3>5. h[r].at \in {"create", "store", "rollback", "revokeOld"}
      BY <1>1 DEF Generating, Generator
    <3>. QED
      BY <3>4, <3>5 DEF Serve, TakeLock, GiveUp, ReadRow, Prolong, Record, Look, Mark,
                        Revoke, Drop, Start
  <2>3. CASE Create(r)
    <3>1. row' = row /\ (gw' = gw \/ \E j \in Keys : gw' = [gw EXCEPT ![j] = "live"])
      BY <2>3 DEF Create, store, gateway
    <3>. QED
      BY <1>1, <2>1, <3>1 DEF HasKey, TypeOK
  <2>4. CASE Store(r)
    <3>1. gw' = gw /\ h[r].at = "store"
      BY <2>4 DEF Store, gateway
    <3>2. CASE row'[u] = row[u]
      BY <1>1, <3>1, <3>2 DEF HasKey
    <3>3. CASE row'[u] # row[u]
      <4>1. h[r].new \in Keys /\ gw[h[r].new] # "revoked"
        BY <1>1, <3>1, FitsNow DEF Fits, IInv, Unshared
      <4>2. row'[u].key = h[r].new
        <5>1. PICK v \in Users : v = h[r].user
          BY <1>1, <3>1, FitsNow
        <5>2. PICK j \in Keys, d \in 0..MaxDate : j = h[r].new /\ d = h[r].until
          BY <1>1, <4>1, FitsNow DEF Handlers
        <5>3. PICK n : n = [key |-> j, exp |-> d, missing |-> "no"]
          OBVIOUS
        <5>4. n \in Rows /\ n.key = j
          BY <5>3 DEF Rows
        <5>5. row' = [row EXCEPT ![v] = n]
          BY <2>4, <3>3, <5>1, <5>2, <5>3 DEF Store
        <5>. QED
          BY <1>1, <3>3, <5>2, <5>4, <5>5, RowBecomes
      <4>. QED
        BY <3>1, <4>1, <4>2, LifecycleAssumption DEF HasKey
    <3>. QED
      BY <3>2, <3>3
  <2>5. CASE Rollback(r) \/ RevokeOld(r)
    <3>1. PICK j \in Keys : /\ j # k /\ GwDeleteOrLog(r, j) /\ row' = row
      <4>1. CASE Rollback(r)
        <5>1. h[r].new \in Keys /\ h[r].new # k
          BY <1>1, <2>1, <4>1, FitsNow DEF Rollback, Fits, IInv, Unshared, Referenced
        <5>. QED
          BY <4>1, <5>1 DEF Rollback, store
      <4>2. CASE RevokeOld(r)
        <5>1. h[r].old \in Keys /\ h[r].old # k
          BY <1>1, <2>1, <4>2, FitsNow DEF RevokeOld, Fits, IInv, Superseded, Referenced
        <5>. QED
          BY <4>2, <5>1 DEF RevokeOld, store
      <4>. QED
        BY <2>5, <4>1, <4>2
    <3>2. gw'[k] = gw[k]
      BY <3>1 DEF GwDeleteOrLog, GwDelete, gateway, TypeOK
    <3>. QED
      BY <1>1, <2>1, <3>1, <3>2 DEF HasKey
  <2>6. CASE Kill
    BY <1>1, <2>6 DEF Kill, store, gateway, HasKey
  <2>. QED
    BY <2>2, <2>3, <2>4, <2>5, <2>6
<1>2. IInv /\ [Next]_vars =>
        [\A r \in Reqs, u \in Users :
           Generating(r) /\ h'[r] # h[r] /\ HasKey(u) => HasKey(u)']_vars
  BY <1>1
<1>. QED
  BY <1>2, Invariance, PTL DEF Spec, GenerateKeepsAKey

-----------------------------------------------------------------------------
(* How a request goes through its handler.                                  *)

(* The most calls, statements and waits it still has before it returns.     *)
StepsLeft(at) == CASE at = "out" -> 0
                   [] at \in {"rollback", "revokeOld", "record", "mark", "drop"} -> 1
                   [] at \in {"store", "prolong", "look", "revoke"} -> 2
                   [] at = "create" -> 3
                   [] at = "read" -> 4
                   [] at = "lock" -> 5

(* Every step of a request that is not answered yet brings it nearer to its *)
(* answer, whatever has failed: no handler calls again what it has called.  *)
GoesForward ==
  [][\A r \in Reqs : h[r].at # "out" /\ h'[r] # h[r]
       => StepsLeft(h'[r].at) < StepsLeft(h[r].at)]_vars

GoesOn(r) ==
  /\ h[r].at \notin {"out", "lock"} /\ h'[r].at \notin {"out", "lock"}
  /\ StepsLeft(h'[r].at) < StepsLeft(h[r].at)
  /\ h'[r].kind = h[r].kind /\ h'[r].user = h[r].user
  /\ h'[r].gone = h[r].gone \/ ClientGone(r)
  /\ UNCHANGED lockVars

LEMMA MoveGoesOn ==
  ASSUME IInv, NEW r \in Reqs, NEW at \in At, Go(r, at), h[r].at \notin {"out", "lock"},
         at \notin {"out", "lock"}, StepsLeft(at) < StepsLeft(h[r].at)
  PROVE  GoesOn(r)
<1>1. PICK q \in Handlers : q = h[r]
  BY DEF IInv, TypeOK
<1>2. PICK p : p = [q EXCEPT !.at = at]
  OBVIOUS
<1>3. p.at = at /\ p.kind = q.kind /\ p.user = q.user /\ p.gone = q.gone
  BY <1>2 DEF Handlers
<1>4. h'[r] = p /\ UNCHANGED lockVars
  BY <1>1, <1>2 DEF Go, IInv, TypeOK
<1>. QED
  BY <1>1, <1>3, <1>4 DEF GoesOn

LEMMA HandlerGoesOn ==
  ASSUME IInv, NEW r \in Reqs, Serve(r) \/ GiveUp(r)
  PROVE  TakeLock(r) \/ (Finish(r) /\ h[r].at # "out") \/ GoesOn(r)
<1>. h \in [Reqs -> Handlers]
  BY DEF IInv, TypeOK
<1>1. CASE ReadRow(r)
  <2>1. h[r].at = "read" /\ (Finish(r) \/ (HasRead(r) /\ UNCHANGED lockVars))
    BY <1>1, ReadRowDoes
  <2>2. CASE ~Finish(r)
    <3>1. h'[r].gone = h[r].gone
      <4>1. PICK d, a : h' = [h EXCEPT ![r].at = a, ![r].old = row[h[r].user].key,
                                       ![r].until = d]
        BY <1>1, <2>2 DEF ReadRow
      <4>. QED
        BY <4>1 DEF Handlers
    <3>2. StepsLeft(h'[r].at) < StepsLeft("read")
      BY <2>1, <2>2 DEF HasRead, FirstCalls, StepsLeft
    <3>. QED
      BY <2>1, <2>2, <3>1, <3>2 DEF HasRead, FirstCalls, GoesOn
  <2>. QED
    BY <2>1, <2>2
<1>2. CASE Create(r)
  <2>1. h[r].at = "create"
    BY <1>2 DEF Create
  <2>2. CASE ~Finish(r)
    <3>1. PICK k \in Keys : h' = [h EXCEPT ![r].at = "store", ![r].new = k] /\ UNCHANGED lockVars
      BY <1>2, <2>2 DEF Create
    <3>2. PICK q \in Handlers : q = h[r]
      OBVIOUS
    <3>3. PICK p : p = [q EXCEPT !.at = "store", !.new = k]
      OBVIOUS
    <3>4. p.at = "store" /\ p.kind = q.kind /\ p.user = q.user /\ p.gone = q.gone
      BY <3>3 DEF Handlers
    <3>5. h'[r] = p
      BY <3>1, <3>2, <3>3
    <3>6. StepsLeft("store") < StepsLeft("create")
      BY DEF StepsLeft
    <3>. QED
      BY <2>1, <3>1, <3>2, <3>4, <3>5, <3>6 DEF GoesOn
  <2>. QED
    BY <2>1, <2>2
<1>3. CASE Store(r)
  <2>1. h[r].at = "store"
    BY <1>3 DEF Store
  <2>2. \A at \in {"rollback", "revokeOld"} :
          at \in At /\ StepsLeft(at) < StepsLeft("store")
    BY DEF StepsLeft, At
  <2>3. ASSUME ClientGone(r), h' = [h EXCEPT ![r].at = "rollback", ![r].gone = TRUE],
               UNCHANGED lockVars
        PROVE  GoesOn(r)
    <3>1. PICK q \in Handlers : q = h[r]
      OBVIOUS
    <3>2. PICK p : p = [q EXCEPT !.at = "rollback", !.gone = TRUE]
      OBVIOUS
    <3>3. p.at = "rollback" /\ p.kind = q.kind /\ p.user = q.user
      BY <3>2 DEF Handlers
    <3>4. h'[r] = p
      BY <2>3, <3>1, <3>2
    <3>. QED
      BY <2>1, <2>2, <2>3, <3>1, <3>3, <3>4 DEF GoesOn
  <2>4. \/ Finish(r) \/ Go(r, "revokeOld") \/ Go(r, "rollback")
        \/ /\ ClientGone(r) /\ h' = [h EXCEPT ![r].at = "rollback", ![r].gone = TRUE]
           /\ UNCHANGED lockVars
    BY <1>3 DEF Store
  <2>. QED
    BY <2>1, <2>2, <2>3, <2>4, MoveGoesOn
<1>4. CASE Prolong(r)
  <2>1. h[r].at = "prolong" /\ (Finish(r) \/ Go(r, "record") \/ Go(r, "mark"))
    BY <1>4 DEF Prolong
  <2>2. \A at \in {"record", "mark"} : at \in At /\ StepsLeft(at) < StepsLeft("prolong")
    BY DEF StepsLeft, At
  <2>. QED
    BY <2>1, <2>2, MoveGoesOn
<1>5. CASE Look(r) \/ Revoke(r)
  <2>1. /\ h[r].at \in {"look", "revoke"}
        /\ Finish(r) \/ Go(r, "mark") \/ Go(r, "drop")
    BY <1>5 DEF Look, Revoke
  <2>2. \A at \in {"mark", "drop"} :
          /\ at \in At
          /\ StepsLeft(at) < StepsLeft("look") /\ StepsLeft(at) < StepsLeft("revoke")
    BY DEF StepsLeft, At
  <2>. QED
    BY <2>1, <2>2, MoveGoesOn
<1>6. CASE \/ Rollback(r) \/ RevokeOld(r) \/ Record(r) \/ Mark(r) \/ Drop(r) \/ GiveUp(r)
           \/ TakeLock(r)
  BY <1>6 DEF Rollback, RevokeOld, Record, Mark, Drop, GiveUp
<1>. QED
  BY <1>1, <1>2, <1>3, <1>4, <1>5, <1>6 DEF Serve

(* What the others and the surroundings do to a request: nothing, or it is  *)
(* killed with the process.                                                 *)
LEMMA RequestIsAlone ==
  ASSUME IInv, [Next]_vars, NEW r \in Reqs
  PROVE  \/ h'[r] = h[r] /\ phase'[r] = phase[r] /\ target'[r] = target[r]
         \/ Serve(r) \/ GiveUp(r)
         \/ \E u \in Users, kind \in Locked \union Lockless : Start(r, u, kind)
         \/ h'[r] = Idle /\ phase'[r] = "out"
<1>1. ASSUME NEW x \in Reqs \ {r}, NEW u \in Users, NEW kind \in Locked \union Lockless,
             Serve(x) \/ GiveUp(x) \/ Start(x, u, kind)
      PROVE  h'[r] = h[r] /\ phase'[r] = phase[r] /\ target'[r] = target[r]
  <2>1. h'[r] = h[r]
    BY <1>1, ServeIsAlone
  <2>2. UNCHANGED lockVars \/ Lock!Ask(x, u) \/ Lock!Enter(x) \/ Lock!Leave(x)
    <3>1. CASE Start(x, u, kind)
      BY <3>1 DEF Start
    <3>2. CASE Serve(x) \/ GiveUp(x)
      <4>1. Finish(x) => UNCHANGED lockVars \/ Lock!Leave(x)
        BY DEF Finish
      <4>2. TakeLock(x) => Lock!Enter(x)
        BY DEF TakeLock
      <4>. QED
        BY <3>2, <4>1, <4>2, HandlerGoesOn DEF GoesOn
    <3>. QED
      BY <1>1, <3>1, <3>2
  <2>3. phase'[r] = phase[r] /\ target'[r] = target[r]
    BY <2>2 DEF lockVars, Lock!Ask, Lock!Enter, Lock!Leave, IInv, TypeOK
  <2>. QED
    BY <2>1, <2>3
<1>2. CASE \/ Check \/ (\E u \in Users : GracePasses(u)) \/ (\E k \in Keys : Lose(k) \/ Regain(k))
           \/ UNCHANGED vars
  <2>1. h' = h /\ UNCHANGED lockVars
    BY <1>2 DEF Check, CheckStart, CheckAsk, CheckClear, CheckRemove, GracePasses, Lose, Regain,
       vars, lockVars
  <2>. QED
    BY <2>1 DEF lockVars
<1>3. CASE Kill
  BY <1>3 DEF Kill
<1>4. "view" \in Locked \union Lockless
  BY DEF Lockless
<1>5. ASSUME NEW x \in Reqs \ {r}, Serve(x) \/ GiveUp(x)
      PROVE  h'[r] = h[r] /\ phase'[r] = phase[r] /\ target'[r] = target[r]
  <2>1. h[x].at # "out"
    BY <1>5 DEF Serve, GiveUp, TakeLock, ReadRow, Create, Store, Rollback, RevokeOld, Prolong,
       Record, Look, Mark, Revoke, Drop
  <2>2. h[x].user \in Users
    BY <2>1, FitsNow
  <2>. QED
    BY <1>1, <1>4, <1>5, <2>2
<1>. QED
  BY <1>1, <1>2, <1>3, <1>5 DEF Next

(* Once it has come in a request is answered in five steps at most, be it   *)
(* GenerateKey, ExtendKey, DeleteKey, RevokeUserKey or Dashboard, and       *)
(* whichever of its calls and statements fail: it cannot hold the key lock  *)
(* for ever while its timeouts end the calls.                               *)
THEOREM NoHandlerLoops == Spec => GoesForward
<1>1. ASSUME IInv, [Next]_vars, NEW r \in Reqs, h[r].at # "out", h'[r] # h[r]
      PROVE  StepsLeft(h'[r].at) < StepsLeft(h[r].at)
  <2>. TypeOK /\ h[r].at \in At
    BY <1>1, FitsNow DEF IInv, Handlers
  <2>1. StepsLeft("out") < StepsLeft(h[r].at)
    BY <1>1 DEF StepsLeft, At
  <2>2. CASE h'[r] = Idle
    BY <2>1, <2>2, IdleIs
  <2>3. CASE Serve(r) \/ GiveUp(r)
    <3>1. CASE TakeLock(r)
      <4>1. h[r].at = "lock" /\ h'[r].at = "read"
        BY <3>1 DEF TakeLock, TypeOK, Handlers
      <4>. QED
        BY <4>1 DEF StepsLeft
    <3>2. CASE Finish(r)
      BY <2>1, <3>2, FinishReturns DEF Returns
    <3>. QED
      BY <1>1, <2>3, <3>1, <3>2, HandlerGoesOn DEF GoesOn
  <2>4. ~\E u \in Users, kind \in Locked \union Lockless : Start(r, u, kind)
    BY <1>1 DEF Start
  <2>. QED
    BY <1>1, <2>2, <2>3, <2>4, RequestIsAlone
<1>2. IInv /\ [Next]_vars =>
        [\A r \in Reqs : h[r].at # "out" /\ h'[r] # h[r]
           => StepsLeft(h'[r].at) < StepsLeft(h[r].at)]_vars
  BY <1>1
<1>. QED
  BY <1>2, Invariance, PTL DEF Spec, GoesForward

LEMMA FinishLeaves ==
  ASSUME IInv, HeldByWork, NEW r \in Reqs, Finish(r)
  PROVE  phase'[r] = "out"
<1>1. CASE h[r].kind \in Locked
  BY <1>1 DEF Finish, Lock!Leave, IInv, TypeOK
<1>2. CASE h[r].kind \notin Locked
  <2>1. phase[r] = "out"
    <3>1. h[r].at = "lock" => h[r].kind \in Locked
      BY DEF IInv, Carries
    <3>. QED
      BY <1>2, <3>1 DEF HeldByWork, IInv, TypeOK, Lock!Phases
  <2>. QED
    BY <1>2, <2>1 DEF Finish, lockVars
<1>. QED
  BY <1>1, <1>2

(* The deferred unlock of GenerateKey, ExtendKey and DeleteKey runs on      *)
(* every path, and a waiter that gives up leaves the queue: a lock that is  *)
(* taken is always held by a request on its way to returning it.            *)
THEOREM UnlockedOnEveryPath == Spec => []HeldByWork
<1>1. Init => HeldByWork
  BY DEF Init, Lock!Init, HeldByWork
<1>2. ASSUME IInv, HeldByWork, [Next]_vars PROVE HeldByWork'
  <2>. SUFFICES ASSUME NEW r \in Reqs
                PROVE  /\ phase'[r] = "inside" => /\ h'[r].at \notin {"out", "lock"}
                                                  /\ h'[r].kind \in Locked
                                                  /\ target'[r] = h'[r].user
                       /\ phase'[r] = "queued" => h'[r].at = "lock"
    BY DEF HeldByWork
  <2>. h \in [Reqs -> Handlers] /\ phase \in [Reqs -> Lock!Phases]
       /\ target \in [Reqs -> Users \union {NoUser}]
    BY <1>2 DEF IInv, TypeOK
  <2>1. CASE phase'[r] = "out"
    BY <2>1
  <2>2. CASE h'[r] = h[r] /\ phase'[r] = phase[r] /\ target'[r] = target[r]
    BY <1>2, <2>2 DEF HeldByWork
  <2>3. CASE TakeLock(r)
    <3>1. PICK p : p = [h[r] EXCEPT !.at = "read"]
      OBVIOUS
    <3>2. p.at = "read" /\ p.kind = h[r].kind /\ p.user = h[r].user
      BY <3>1 DEF Handlers
    <3>3. h'[r] = p /\ target'[r] = target[r] /\ phase'[r] = "inside" /\ h[r].at = "lock"
      BY <2>3, <3>1 DEF TakeLock, Lock!Enter
    <3>4. h[r].kind \in Locked /\ target[r] = h[r].user
      BY <1>2, <3>3 DEF IInv, Carries, InsideLock
    <3>. QED
      BY <3>2, <3>3, <3>4
  <2>4. CASE GoesOn(r)
    BY <1>2, <2>4 DEF GoesOn, lockVars, HeldByWork
  <2>5. ASSUME NEW u \in Users, NEW kind \in Locked \union Lockless, Start(r, u, kind),
               phase'[r] # "out"
        PROVE  phase'[r] = "queued" /\ h'[r].at = "lock"
    <3>1. h[r].at = "out" /\ phase[r] = "out"
      BY <1>2, <2>5 DEF Start, HeldByWork, Lock!Phases
    <3>2. kind \in Locked /\ Lock!Ask(r, u)
      BY <2>5, <3>1 DEF Start, lockVars
    <3>3. h'[r].at = "lock"
      BY <2>5, <3>2 DEF Start, Handlers
    <3>. QED
      BY <3>2, <3>3 DEF Lock!Ask
  <2>6. CASE Finish(r)
    BY <1>2, <2>1, <2>6, FinishLeaves
  <2>. QED
    BY <1>2, <2>1, <2>2, <2>3, <2>4, <2>5, <2>6, RequestIsAlone, HandlerGoesOn
<1>3. IInv /\ HeldByWork /\ [Next]_vars => HeldByWork'
  BY <1>2
<1>. QED
  BY <1>1, <1>3, Invariance, PTL DEF Spec

-----------------------------------------------------------------------------
(* Where statements fail but clients stay, the gateway answers and keeps    *)
(* its keys, and the process lives, no key is lost track of.                *)
NothingLost == /\ excused = {}
               /\ \A k \in Keys : gw[k] # "lost"
               /\ \A r \in Reqs : ~h[r].gone
               /\ chk.at = "remove" => gw[chk.key] = "revoked"

(* What the requests and the check leave of it.                             *)
NoneLost == /\ excused' = {}
            /\ \A k \in Keys : gw'[k] # "lost" /\ (gw[k] = "revoked" => gw'[k] = "revoked")

LEMMA DeletesAll ==
  ASSUME IInv, NothingLost, NEW k \in Keys, GwDelete(k)
  PROVE  NoneLost
<1>1. excused' = excused \ {k} /\ gw' = [gw EXCEPT ![k] = "revoked"]
  BY DEF GwDelete, NothingLost
<1>. QED
  BY <1>1 DEF NothingLost, NoneLost, IInv, TypeOK

LEMMA ServeLosesNothing ==
  ASSUME Faults \subseteq {"database"}, IInv, NothingLost, NEW r \in Reqs, Serve(r) \/ GiveUp(r)
  PROVE  NoneLost /\ chk' = chk
<1>. SUFFICES NoneLost
  BY DEF Serve, TakeLock, ReadRow, Create, Store, Rollback, RevokeOld, Prolong, Record, Look,
         Mark, Revoke, Drop, GiveUp
<1>1. ~ClientGone(r) /\ ~CallRefused(r) /\ ~AnswerLost(r)
  BY DEF NothingLost, ClientGone, CallRefused, AnswerLost
<1>2. ASSUME UNCHANGED <<gw, excused>> PROVE NoneLost
  BY <1>2 DEF NothingLost, NoneLost
<1>3. ASSUME NEW k \in Keys, GwDeleteOrLog(r, k) PROVE NoneLost
  <2>1. GwDelete(k)
    BY <1>1, <1>3 DEF GwDeleteOrLog
  <2>. QED
    BY <2>1, DeletesAll
<1>4. CASE Create(r)
  <2>1. PICK k \in Keys : gw[k] = "none" /\ gw' = [gw EXCEPT ![k] = "live"] /\ excused' = excused
    BY <1>1, <1>4 DEF Create, history
  <2>. QED
    BY <2>1 DEF NothingLost, NoneLost, IInv, TypeOK
<1>5. CASE Rollback(r) \/ RevokeOld(r) \/ Revoke(r)
  <2>1. CASE Rollback(r)
    <3>1. PICK k \in Keys : k = h[r].new
      BY <2>1, FitsNow DEF Rollback, Fits
    <3>2. GwDeleteOrLog(r, k)
      BY <2>1, <3>1 DEF Rollback
    <3>. QED
      BY <1>3, <3>2
  <2>2. CASE RevokeOld(r) \/ Revoke(r)
    <3>1. h[r].old \in Keys
      BY <2>2, FitsNow DEF RevokeOld, Revoke, Fits
    <3>2. PICK k \in Keys : k = h[r].old
      BY <3>1
    <3>3. GwDeleteOrLog(r, k) \/ GwDelete(k)
      BY <1>1, <2>2, <3>2 DEF RevokeOld, Revoke
    <3>4. GwDelete(k) => NoneLost
      BY DeletesAll
    <3>. QED
      BY <1>3, <3>3, <3>4
  <2>. QED
    BY <1>5, <2>1, <2>2 DEF Rollback, RevokeOld, Revoke
<1>6. CASE \/ TakeLock(r) \/ ReadRow(r) \/ Store(r) \/ Prolong(r) \/ Record(r) \/ Look(r)
           \/ Mark(r) \/ Drop(r) \/ GiveUp(r)
  BY <1>2, <1>6 DEF TakeLock, ReadRow, Store, Prolong, Record, Look, Mark, Drop, GiveUp, gateway,
     history
<1>. QED
  BY <1>4, <1>5, <1>6 DEF Serve

LEMMA NobodyGone ==
  ASSUME Faults \subseteq {"database"}, IInv, NothingLost, [Next]_vars, NEW r \in Reqs
  PROVE  ~h'[r].gone
<1>. h \in [Reqs -> Handlers] /\ ~h[r].gone
  BY DEF IInv, TypeOK, NothingLost
<1>1. ~Idle.gone
  BY DEF Idle
<1>2. CASE Serve(r) \/ GiveUp(r)
  <2>1. CASE TakeLock(r)
    BY <2>1 DEF TakeLock, Handlers
  <2>2. CASE Finish(r)
    BY <1>1, <2>2 DEF Finish
  <2>3. CASE GoesOn(r)
    BY <2>3 DEF GoesOn, ClientGone
  <2>. QED
    BY <1>2, <2>1, <2>2, <2>3, HandlerGoesOn
<1>3. ASSUME NEW u \in Users, NEW kind \in Locked \union Lockless, Start(r, u, kind)
      PROVE  ~h'[r].gone
  BY <1>3 DEF Start, Handlers
<1>. QED
  BY <1>1, <1>2, <1>3, RequestIsAlone

LEMMA NothingLostNext ==
  ASSUME Faults \subseteq {"database"}, IInv, NothingLost, [Next]_vars
  PROVE  NothingLost'
<1>1. \A r \in Reqs : ~h'[r].gone
  BY NobodyGone
<1>2. chk.at # "out" => chk.key \in Keys /\ gw[chk.key] \notin {"none", "lost"}
  BY DEF IInv, Issued, TypeOK, Checks, NothingLost
<1>3. ASSUME NoneLost, chk' = chk PROVE NothingLost'
  BY <1>1, <1>2, <1>3 DEF NoneLost, NothingLost
<1>4. ASSUME UNCHANGED <<gw, excused>>, chk' = chk \/ chk'.at # "remove" PROVE NothingLost'
  BY <1>1, <1>4 DEF NothingLost
<1>5. ASSUME NEW r \in Reqs, Serve(r) \/ GiveUp(r) PROVE NothingLost'
  BY <1>3, <1>5, ServeLosesNothing
<1>6. ASSUME NEW r \in Reqs, NEW u \in Users, NEW kind \in Locked \union Lockless,
             Start(r, u, kind)
      PROVE  NothingLost'
  BY <1>4, <1>6 DEF Start, gateway, history
<1>7. CASE Check
  <2>1. ASSUME NEW u \in Users, CheckStart(u) PROVE NothingLost'
    BY <1>4, <2>1 DEF CheckStart, gateway, history
  <2>2. CASE CheckAsk
    <3>1. UNCHANGED <<gw, excused>>
      BY <2>2 DEF CheckAsk, gateway, history
    <3>2. CASE gw[chk.key] # "live" /\ chk' = [chk EXCEPT !.at = "remove"]
      <4>1. chk'.key = chk.key /\ gw[chk.key] = "revoked"
        <5>1. chk.at = "ask" /\ chk \in Checks /\ gw \in [Keys -> GwStates]
          BY <2>2 DEF CheckAsk, IInv, TypeOK
        <5>2. chk'.key = chk.key
          BY <3>2, <5>1 DEF Checks
        <5>3. gw[chk.key] = "revoked"
          BY <1>2, <3>2, <5>1 DEF GwStates
        <5>. QED
          BY <5>2, <5>3
      <4>. QED
        BY <1>1, <3>1, <4>1 DEF NothingLost
    <3>3. CASE chk' = [chk EXCEPT !.at = "clear"] \/ chk' = NoCheck
      <4>1. chk'.at # "remove"
        BY <3>3, NoCheckIs DEF IInv, TypeOK, Checks
      <4>. QED
        BY <1>4, <3>1, <4>1
    <3>. QED
      BY <2>2, <3>2, <3>3 DEF CheckAsk
  <2>3. CASE CheckClear
    BY <1>4, <2>3, NoCheckIs DEF CheckClear, gateway, history
  <2>4. CASE CheckRemove
    <3>1. gw[chk.key] = "revoked"
      BY <2>4 DEF CheckRemove, NothingLost
    <3>2. UNCHANGED <<gw, excused>> /\ chk' = NoCheck
      BY <2>4, <3>1 DEF CheckRemove, gateway
    <3>. QED
      BY <1>4, <3>2, NoCheckIs
  <2>. QED
    BY <1>7, <2>1, <2>2, <2>3, <2>4 DEF Check
<1>8. CASE UNCHANGED vars \/ \E u \in Users : GracePasses(u)
  BY <1>4, <1>8 DEF vars, GracePasses, gateway, history
<1>9. ~Kill /\ \A k \in Keys : ~Lose(k) /\ ~Regain(k)
  BY DEF Kill, Lose, Regain, NothingLost
<1>. QED
  BY <1>5, <1>6, <1>7, <1>8, <1>9 DEF Next

(* "Revoke it now rather than leaking it": with clients that stay, a        *)
(* gateway that answers and a process that lives, whenever no request is    *)
(* under way every key that works is named by a row, however the database   *)
(* fails GenerateKey, DeleteKey and the rest and however they interleave.   *)
(* A client that disconnects is enough to break it: the rollback's call     *)
(* then fails as well (NoLeakedKey fails in the run                         *)
(* key_lifecycle_disconnect).                                               *)
THEOREM RollbackSuffices ==
  ASSUME Faults \subseteq {"database"}
  PROVE  Spec => []NoLeakedKey
<1>1. Init => NothingLost
  <2>1. ~Idle.gone
    BY DEF Idle
  <2>. QED
    BY <2>1, NoCheckIs DEF Init, NothingLost
<1>2. IInv /\ NothingLost /\ [Next]_vars => NothingLost'
  BY NothingLostNext
<1>3. IInv /\ NothingLost => NoLeakedKey
  BY InHandIs DEF IInv, NoKeyAstray, NothingLost, NoLeakedKey
<1>. QED
  BY <1>1, <1>2, <1>3, Invariance, PTL DEF Spec

-----------------------------------------------------------------------------
(* The table keeps the contract of KeyTable.                                *)

(* The gateway never forgets that it has issued a key.                      *)
LEMMA IssuedStays ==
  ASSUME IInv, [Next]_vars, NEW k \in Keys, gw[k] # "none"
  PROVE  gw'[k] # "none"
<1>. gw \in [Keys -> GwStates]
  BY DEF IInv, TypeOK
<1>1. ASSUME NEW j, GwDelete(j) PROVE gw'[k] # "none"
  BY <1>1 DEF GwDelete, gateway
<1>2. ASSUME NEW r \in Reqs, Rollback(r) \/ RevokeOld(r) \/ Revoke(r)
      PROVE  gw'[k] # "none"
  BY <1>1, <1>2 DEF Rollback, RevokeOld, Revoke, GwDeleteOrLog, gateway
<1>3. ASSUME NEW r \in Reqs, Create(r)
      PROVE  gw'[k] # "none"
  BY <1>3 DEF Create, gateway
<1>4. ASSUME NEW r \in Reqs, Serve(r) \/ GiveUp(r),
             ~Create(r), ~Rollback(r), ~RevokeOld(r), ~Revoke(r)
      PROVE  gw' = gw
  BY <1>4 DEF Serve, GiveUp, TakeLock, ReadRow, Store, Prolong, Record, Look, Mark, Drop, gateway
<1>5. ASSUME NEW r \in Reqs, NEW u \in Users, NEW kind \in Locked \union Lockless,
             Start(r, u, kind)
      PROVE  gw' = gw
  BY <1>5 DEF Start, gateway
<1>6. CASE Check \/ (\E u \in Users : GracePasses(u)) \/ Kill \/ UNCHANGED vars
  BY <1>6 DEF Check, CheckStart, CheckAsk, CheckClear, CheckRemove, GracePasses, Kill, vars, gateway
<1>7. ASSUME NEW j \in Keys, Lose(j) \/ Regain(j)
      PROVE  gw'[k] # "none"
  BY <1>7 DEF Lose, Regain
<1>. QED
  BY <1>2, <1>3, <1>4, <1>5, <1>6, <1>7 DEF Next

(* A request comes to hold a key for the table from CreateKey alone, and    *)
(* the key has just been issued.                                            *)
LEMMA RecordingIsFresh ==
  ASSUME IInv, [Next]_vars, NEW r \in Reqs, h'[r].at = "store"
  PROVE  h'[r] = h[r] \/ gw[h'[r].new] = "none"
<1>. h \in [Reqs -> Handlers]
  BY DEF IInv, TypeOK
<1>1. CASE h'[r] = Idle
  BY <1>1, IdleIs
<1>2. ASSUME NEW u \in Users, NEW kind \in Locked \union Lockless, Start(r, u, kind)
      PROVE  FALSE
  <2>1. PICK at \in {"lock", "read"} : at = IF kind \in Locked THEN "lock" ELSE "read"
    OBVIOUS
  <2>2. h' = [h EXCEPT ![r].at = at, ![r].kind = kind, ![r].user = u]
    BY <1>2, <2>1 DEF Start
  <2>. QED
    BY <2>1, <2>2 DEF Handlers
<1>3. ASSUME Finish(r) PROVE FALSE
  BY <1>3, FinishReturns DEF Returns, IInv
<1>4. ASSUME NEW at \in {"rollback", "revokeOld", "record", "mark", "drop"}, Go(r, at)
      PROVE  FALSE
  BY <1>4, GoMoves DEF Moves, IInv, At
<1>5. CASE Create(r)
  <2>1. PICK k \in Keys : gw[k] = "none" /\ h' = [h EXCEPT ![r].at = "store", ![r].new = k]
    BY <1>3, <1>5 DEF Create
  <2>2. h'[r].new = k
    BY <2>1 DEF Handlers
  <2>. QED
    BY <2>1, <2>2
<1>6. CASE ReadRow(r)
  BY <1>3, <1>6, ReadRowDoes DEF HasRead, FirstCalls
<1>7. CASE Store(r)
  <2>1. h' = [h EXCEPT ![r].at = "rollback", ![r].gone = TRUE]
    BY <1>3, <1>4, <1>7 DEF Store
  <2>. QED
    BY <2>1 DEF Handlers
<1>8. CASE TakeLock(r)
  BY <1>8 DEF TakeLock, Handlers
<1>9. CASE \/ Rollback(r) \/ RevokeOld(r) \/ Prolong(r) \/ Record(r) \/ Look(r) \/ Mark(r)
           \/ Revoke(r) \/ Drop(r) \/ GiveUp(r)
  BY <1>3, <1>4, <1>9 DEF Rollback, RevokeOld, Prolong, Record, Look, Mark, Revoke, Drop, GiveUp
<1>. QED
  BY <1>1, <1>2, <1>5, <1>6, <1>7, <1>8, <1>9, RequestIsAlone DEF Serve

LEMMA UsedGrows ==
  ASSUME IInv, [Next]_vars
  PROVE  Used \subseteq Used' /\ Used' \subseteq Keys
<1>1. ASSUME NEW k \in Used, NEW r \in Reqs, h'[r].at = "store", h'[r].new = k
      PROVE  FALSE
  BY <1>1, RecordingIsFresh DEF Used, Recording
<1>. QED
  BY <1>1, IssuedStays DEF Used, Recording

(* What the table's contract sees of a step.                                *)
KeysKept == \A u \in Users : row'[u].key = row[u].key

LEMMA KeptIsDiscard ==
  ASSUME IInv, [Next]_vars, KeysKept
  PROVE  Table!Discard
<1>1. [u \in Users |-> row'[u].key] = [u \in Users |-> row[u].key]
  BY DEF KeysKept
<1>2. Used' \in SUBSET Keys /\ Used \subseteq Used'
  BY UsedGrows
<1>. QED
  BY <1>1, <1>2 DEF Table!Discard

(* A row changes and keeps its key. *)
LEMMA SameKeyKept ==
  ASSUME IInv, NEW u \in Users, NEW n \in Rows, n.key = row[u].key,
         row' = [row EXCEPT ![u] = n]
  PROVE  KeysKept
  BY DEF IInv, TypeOK, KeysKept

(* No request and no key comes into or leaves the table's sight.            *)
LEMMA UsedKept ==
  ASSUME gw' = gw, \A r \in Reqs : h[r].at = "store" \/ h'[r].at = "store" => h'[r] = h[r]
  PROVE  Used' = Used
<1>1. \A r \in Reqs : /\ h[r].at = "store" <=> h'[r].at = "store"
                      /\ h[r].at = "store" => h'[r].new = h[r].new
  OBVIOUS
<1>2. Recording' = Recording
  BY <1>1 DEF Recording
<1>. QED
  BY <1>2 DEF Used

LEMMA ForgetIs ==
  ASSUME IInv, NEW u \in Users, row' = [row EXCEPT ![u] = NoRow], Used' = Used
  PROVE  Table!Forget(u)
<1>1. \A v \in Users : row'[v].key = IF v = u THEN NoKey ELSE row[v].key
  BY NoRowIs DEF IInv, TypeOK
<1>2. [v \in Users |-> row'[v].key] = [[v \in Users |-> row[v].key] EXCEPT ![u] = NoKey]
  BY <1>1
<1>. QED
  BY <1>2 DEF Table!Forget

LEMMA DropForgets ==
  ASSUME IInv, [Next]_vars, NEW r \in Reqs, Drop(r)
  PROVE  Table!Next
<1>1. PICK u \in Users : u = h[r].user
  BY FitsNow DEF Drop
<1>2. CASE row' = [row EXCEPT ![u] = NoRow]
  <2>1. h[r].at = "drop" /\ gw' = gw /\ Finish(r)
    BY DEF Drop, gateway
  <2>2. \A q \in Reqs : h[q].at = "store" \/ h'[q].at = "store" => h'[q] = h[q]
    BY <2>1, FinishReturns DEF Returns, Others, IInv
  <2>. QED
    BY <1>2, <2>1, <2>2, UsedKept, ForgetIs DEF Table!Next
<1>3. CASE row' = row
  BY <1>3, KeptIsDiscard DEF KeysKept, Table!Next
<1>. QED
  BY <1>1, <1>2, <1>3 DEF Drop

LEMMA RemovalForgets ==
  ASSUME IInv, [Next]_vars, CheckRemove
  PROVE  Table!Next
<1>1. PICK u \in Users : u = chk.user
  BY DEF CheckRemove, IInv, Issued
<1>2. CASE row' = [row EXCEPT ![u] = NoRow]
  <2>1. gw' = gw /\ h' = h
    BY DEF CheckRemove, gateway
  <2>. QED
    BY <1>2, <2>1, UsedKept, ForgetIs DEF Table!Next
<1>3. CASE row' = row
  BY <1>3, KeptIsDiscard DEF KeysKept, Table!Next
<1>. QED
  BY <1>1, <1>2, <1>3 DEF CheckRemove

(* The key that ReplaceAPIKey records has been waiting for it, with one     *)
(* request alone, and counts as used from now on.                           *)
LEMMA StoreNames ==
  ASSUME IInv, [Next]_vars, NEW r \in Reqs, Store(r)
  PROVE  Table!Next
<1>1. PICK u \in Users : u = h[r].user
  BY FitsNow DEF Store
<1>2. PICK k \in Keys : k = h[r].new /\ gw[k] # "none"
  BY FitsNow DEF Store, Fits
<1>3. CASE row' = row
  BY <1>3, KeptIsDiscard DEF KeysKept, Table!Next
<1>4. CASE row' # row
  <2>1. PICK d \in 0..MaxDate : d = h[r].until
    BY FitsNow DEF Handlers
  <2>2. PICK n \in Rows : n = [key |-> k, exp |-> d, missing |-> "no"] /\ n.key = k
    <3>1. PICK n : n = [key |-> k, exp |-> d, missing |-> "no"]
      OBVIOUS
    <3>. QED
      BY <3>1 DEF Rows
  <2>3. /\ row' = [row EXCEPT ![u] = n] /\ gw' = gw /\ h[r].at = "store"
        /\ Finish(r) \/ Go(r, "revokeOld")
    BY <1>1, <1>2, <1>4, <2>1, <2>2 DEF Store, gateway
  <2>4. Others(r) /\ h'[r].at # "store"
    BY <2>3, FinishReturns, GoMoves DEF Returns, Moves, IInv, At
  <2>5. Recording' = Recording \ {k}
    <3>1. ASSUME NEW q \in Reqs, h[q].at = "store", h[q].new = k PROVE q = r
      BY <1>2, <2>3, <3>1 DEF IInv, Unshared
    <3>. QED
      BY <1>2, <2>3, <2>4, <3>1 DEF Recording, Others
  <2>6. k \in Recording
    BY <1>2, <2>3 DEF Recording
  <2>7. k \notin Used /\ Used' = Used \union {k}
    BY <1>2, <2>3, <2>5, <2>6 DEF Used
  <2>8. \A v \in Users : row'[v].key = IF v = u THEN k ELSE row[v].key
    BY <2>2, <2>3 DEF IInv, TypeOK
  <2>9. [v \in Users |-> row'[v].key] = [[v \in Users |-> row[v].key] EXCEPT ![u] = k]
    BY <2>8
  <2>. QED
    BY <2>7, <2>9 DEF Table!Next, Table!Name
<1>. QED
  BY <1>3, <1>4

LEMMA WritesKeepKeys ==
  ASSUME IInv, \/ \E r \in Reqs : Record(r) \/ Mark(r)
               \/ CheckClear \/ \E u \in Users : GracePasses(u)
  PROVE  KeysKept
<1>. row \in [Users -> Rows]
  BY DEF IInv, TypeOK
<1>1. ASSUME NEW u \in Users, NEW m \in {"no", "fresh", "old"},
             row' = [row EXCEPT ![u].missing = m]
      PROVE  KeysKept
  <2>1. PICK q \in Rows : q = row[u]
    OBVIOUS
  <2>2. PICK n \in Rows : n = [q EXCEPT !.missing = m] /\ n.key = q.key
    BY RemarkedIs
  <2>3. row' = [row EXCEPT ![u] = n]
    BY <1>1, <2>1, <2>2
  <2>. QED
    BY <2>1, <2>2, <2>3, SameKeyKept
<1>2. row' = row => KeysKept
  BY DEF KeysKept
<1>3. ASSUME NEW r \in Reqs, Mark(r) PROVE KeysKept
  <2>1. PICK u \in Users : u = h[r].user
    BY <1>3, FitsNow DEF Mark
  <2>2. row' = row \/ row' = [row EXCEPT ![u].missing = "fresh"]
    BY <1>3, <2>1 DEF Mark
  <2>. QED
    BY <1>1, <1>2, <2>2
<1>4. ASSUME NEW r \in Reqs, Record(r) PROVE KeysKept
  <2>1. PICK u \in Users : u = h[r].user
    BY <1>4, FitsNow DEF Record
  <2>2. PICK d \in 0..MaxDate : d = h[r].until
    BY FitsNow DEF Handlers
  <2>3. PICK q \in Rows : q = row[u]
    OBVIOUS
  <2>4. PICK n : n = [q EXCEPT !.exp = d]
    OBVIOUS
  <2>5. n \in Rows /\ n.key = q.key
    BY <2>4 DEF Rows
  <2>6. row' = row \/ row' = [row EXCEPT ![u].exp = d]
    BY <1>4, <2>1, <2>2 DEF Record
  <2>7. row' = row \/ row' = [row EXCEPT ![u] = n]
    BY <2>3, <2>4, <2>6
  <2>. QED
    BY <1>2, <2>3, <2>5, <2>7, SameKeyKept
<1>5. ASSUME CheckClear PROVE KeysKept
  <2>1. PICK u \in Users : u = chk.user
    BY <1>5 DEF CheckClear, IInv, Issued
  <2>2. row' = row \/ row' = [row EXCEPT ![u].missing = "no"]
    BY <1>5, <2>1 DEF CheckClear
  <2>. QED
    BY <1>1, <1>2, <2>2
<1>6. ASSUME NEW u \in Users, GracePasses(u) PROVE KeysKept
  BY <1>1, <1>6 DEF GracePasses
<1>. QED
  BY <1>3, <1>4, <1>5, <1>6

(* Requests, the missing-key check and the gateway implement the contract   *)
(* of the table: with any number of requests of any user between each       *)
(* other's steps, and whatever fails, a key is given to one user once and   *)
(* is gone for good when it leaves (ReplaceAPIKey, DeleteAPIKey,            *)
(* RemoveMissingKey and their callers).                                     *)
THEOREM TableKept == Spec => ImplementsKeyTable
<1>1. Init => Table!Init
  <2>1. ASSUME Init PROVE [u \in Users |-> row[u].key] = [u \in Users |-> NoKey]
    BY <2>1, NoRowIs DEF Init
  <2>2. ASSUME Init PROVE Used = {}
    BY <2>2 DEF Init, Used
  <2>. QED
    BY <2>1, <2>2 DEF Table!Init
<1>2. ASSUME IInv, [Next]_vars
      PROVE  Table!Next
  <2>1. CASE KeysKept
    BY <1>2, <2>1, KeptIsDiscard DEF Table!Next
  <2>2. ASSUME NEW r \in Reqs, Store(r) \/ Drop(r) PROVE Table!Next
    BY <1>2, <2>2, StoreNames, DropForgets
  <2>3. CASE CheckRemove
    BY <1>2, <2>3, RemovalForgets
  <2>4. row' = row => KeysKept
    BY DEF KeysKept
  <2>5. ASSUME NEW r \in Reqs, Serve(r) \/ GiveUp(r),
               ~Store(r), ~Record(r), ~Mark(r), ~Drop(r)
        PROVE  row' = row
    BY <2>5 DEF Serve, GiveUp, TakeLock, ReadRow, Create, Rollback, RevokeOld, Prolong, Look,
                Revoke, store
  <2>6. ASSUME NEW r \in Reqs, NEW v \in Users, NEW kind \in Locked \union Lockless,
               Start(r, v, kind)
        PROVE  row' = row
    BY <2>6 DEF Start, store
  <2>7. ASSUME Check, ~CheckClear, ~CheckRemove PROVE row' = row
    BY <2>7 DEF Check, CheckStart, CheckAsk, store
  <2>8. ASSUME Kill \/ UNCHANGED vars \/ \E k \in Keys : Lose(k) \/ Regain(k) PROVE row' = row
    BY <2>8 DEF Kill, vars, Lose, Regain, store
  <2>. QED
    BY <1>2, <2>1, <2>2, <2>3, <2>4, <2>5, <2>6, <2>7, <2>8, WritesKeepKeys DEF Next
<1>3. IInv /\ [Next]_vars => [Table!Next]_(Table!tableVars)
  BY <1>2
<1>. QED
  BY <1>1, <1>3, Invariance, PTL DEF Spec, ImplementsKeyTable, Table!Spec

Contract == INSTANCE KeyTable_proofs WITH keyOf <- [u \in Users |-> row[u].key], used <- Used

(* What the contract is worth here: however late a request finishes that    *)
(* read a key, the key is never in the table again once it has been         *)
(* replaced, deleted or rolled back, and never in the row of somebody else  *)
(* (ui.go:434-456, 517; db.go:646-688).                                     *)
THEOREM OneOwnerAndGoneForGood == Spec => []Contract!OneOwner /\ Contract!GoneForGood
<1>1. Table!Init => Contract!Init
  BY DEF Table!Init, Contract!Init
<1>2. [Table!Next]_(Table!tableVars) => [Contract!Next]_(Contract!tableVars)
  BY DEF Table!Next, Contract!Next, Table!Name, Contract!Name, Table!Forget, Contract!Forget,
         Table!Discard, Contract!Discard, Table!tableVars, Contract!tableVars
<1>3. Table!Spec => Contract!Spec
  BY <1>1, <1>2, PTL DEF Table!Spec, Contract!Spec
<1>4. Contract!Spec => [](Contract!TypeOK /\ Contract!OneOwner)
  BY LifecycleAssumption, Contract!OneOwnerEach
<1>5. Contract!Spec => Contract!GoneForGood
  BY LifecycleAssumption, Contract!NeverAgain
<1>. QED
  BY <1>3, <1>4, <1>5, TableKept, PTL DEF ImplementsKeyTable
=============================================================================
