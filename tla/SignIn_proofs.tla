---------------------------- MODULE SignIn_proofs ----------------------------
(***************************************************************************)
(* Theorems about SignIn, for any people, tabs, logins and failures.       *)
(***************************************************************************)
EXTENDS SignIn, TLAPS

-----------------------------------------------------------------------------
(* The invariant, with what it says of each tab's request by itself.        *)

Proper(t) ==
  LET r == tab[t] IN
  /\ r.at \in LoginAts => r.op = "login" /\ r.whom \in People
  /\ r.at \in {"idle", "login", "idp"} => r.n = NoLogin
  /\ r.at \notin {"idle", "login", "idp"} => r.n \in Issued
  /\ r.at \in {"load", "find", "actor", "write"} => r.op \in {"grant", "revoke"}
  /\ r.at \in {"find", "actor", "write"} => ~fromGroup
  /\ r.at = "actor" => r.op = "revoke"
  /\ r.at = "get" => r.op \in {"grant", "revoke", "logout"}
  /\ r.at \in FormAts /\ r.op # "logout" => r.whom \in People /\ account[r.whom] # "none"
  /\ InFlight(t) => subject[r.n] = r.whom
  /\ r.at = "flag" => fromGroup
  /\ r.at \in FormAts /\ account[subject[r.n]] = "admin" => r.was
  /\ r.at \in {"find", "actor", "write"} => r.was
  /\ r.at = "write" /\ r.op = "revoke" /\ ~r.blind => r.whom # subject[r.n]
  /\ r.at = "idp" /\ t \notin jar => r.lapsed
  /\ r.at = "insert" /\ account[r.whom] # "none" => r.n \in crossed \/ faults > 0

Numbers == OneLogin /\ Overlapping /\ CutOff
Flags == Followed /\ FlagFollowsClaim

LEMMA IInvIs ==
  IInv <=> TypeOK /\ (\A t \in Tabs : Proper(t)) /\ Numbers /\ Flags
<1>1. (Carries /\ Gated /\ OnlyAdminsWrite /\ CallbackFindsState /\ RefusedOnlyForRival)
        <=> \A t \in Tabs : Proper(t)
  BY DEF Carries, Gated, OnlyAdminsWrite, CallbackFindsState, RefusedOnlyForRival, Proper
<1>. QED
  BY <1>1 DEF IInv, Numbers, Flags

LEMMA IInvNext ==
  ASSUME TypeOK', \A t \in Tabs : Proper(t)', Numbers', Flags' PROVE IInv'
<1>1. (Carries /\ Gated /\ OnlyAdminsWrite /\ CallbackFindsState /\ RefusedOnlyForRival)'
  BY DEF Carries, Gated, OnlyAdminsWrite, CallbackFindsState, RefusedOnlyForRival, Proper
<1>. QED
  BY <1>1 DEF IInv, Numbers, Flags

-----------------------------------------------------------------------------
(* Requests. *)

LEMMA IdleIs ==
  /\ Idle \in Requests /\ Idle.at = "idle" /\ Idle.op = "none" /\ Idle.n = NoLogin
  /\ Idle.whom = Nobody /\ ~Idle.was /\ ~Idle.blind /\ ~Idle.lapsed
  BY SignInAssumption DEF Idle, Requests, Ats, Ops, NoLogin

LEMMA BecomeIs ==
  ASSUME TypeOK, NEW t \in Tabs, NEW r \in Requests, Become(t, r)
  PROVE  /\ tab' \in [Tabs -> Requests] /\ tab'[t] = r
         /\ \A u \in Tabs \ {t} : tab'[u] = tab[u]
  BY DEF TypeOK, Become

LEMMA AtIs ==
  ASSUME NEW q \in Requests, NEW at \in Ats, NEW r, r = [q EXCEPT !.at = at]
  PROVE  /\ r \in Requests /\ r.at = at /\ r.op = q.op /\ r.n = q.n /\ r.whom = q.whom
         /\ r.was = q.was /\ r.blind = q.blind /\ r.lapsed = q.lapsed
  BY DEF Requests

LEMMA GotoIs ==
  ASSUME TypeOK, NEW t \in Tabs, NEW at \in Ats, Goto(t, at)
  PROVE  /\ tab' \in [Tabs -> Requests]
         /\ \A u \in Tabs \ {t} : tab'[u] = tab[u]
         /\ tab'[t].at = at /\ tab'[t].op = tab[t].op /\ tab'[t].n = tab[t].n
         /\ tab'[t].whom = tab[t].whom /\ tab'[t].was = tab[t].was
         /\ tab'[t].blind = tab[t].blind /\ tab'[t].lapsed = tab[t].lapsed
<1>1. PICK q \in Requests : q = tab[t]
  BY DEF TypeOK
<1>2. PICK r : r = [q EXCEPT !.at = at]
  OBVIOUS
<1>3. /\ r \in Requests /\ r.at = at /\ r.op = q.op /\ r.n = q.n /\ r.whom = q.whom
      /\ r.was = q.was /\ r.blind = q.blind /\ r.lapsed = q.lapsed
  BY <1>2, AtIs
<1>4. Become(t, r)
  BY <1>1, <1>2 DEF Goto
<1>. QED
  BY <1>1, <1>3, <1>4, BecomeIs

LEMMA AnsweredIs ==
  ASSUME TypeOK, NEW t \in Tabs, Answered(t)
  PROVE  /\ tab' \in [Tabs -> Requests] /\ tab'[t] = Idle
         /\ \A u \in Tabs \ {t} : tab'[u] = tab[u]
  BY IdleIs, BecomeIs DEF Answered

LEMMA FaultDoes ==
  ASSUME TypeOK, Fault
  PROVE  faults' \in 0..MaxFaults /\ faults' > 0 /\ faults' >= faults
  BY SignInAssumption DEF Fault, TypeOK

(* The other tabs as they were, but perhaps with an owner who has become an *)
(* admin, and the tab itself where its own request or cookie leads.         *)
Same(q, r) == /\ q.at = r.at /\ q.op = r.op /\ q.n = r.n /\ q.whom = r.whom
              /\ q.blind = r.blind /\ q.lapsed = r.lapsed

Moved(t) ==
  /\ tab' \in [Tabs -> Requests]
  /\ \A u \in Tabs \ {t} : Same(tab'[u], tab[u]) /\ (tab[u].was => tab'[u].was)
  /\ tab'[t].n \in {NoLogin, tab[t].n, cookie[t]}
  /\ InFlight(t)' => InFlight(t) /\ tab'[t].n = tab[t].n /\ tab'[t].whom = tab[t].whom

(* What such a step keeps. A login that leaves may create its session.      *)
LEMMA NumbersKept ==
  ASSUME IInv, NEW t \in Tabs, Moved(t),
         NEW N \in SUBSET {tab[t].n}, N # {} => InFlight(t) /\ ~InFlight(t)',
         sess' \subseteq sess \union N,
         \A u \in Tabs : cookie'[u] \in {NoLogin, cookie[u]} \union N,
         UNCHANGED <<logins, subject, ended>>, crossed \subseteq crossed'
  PROVE  Numbers'
<1>. USE IInvIs
<1>1. \A u \in Tabs \ {t} : /\ InFlight(u)' <=> InFlight(u)
                            /\ tab'[u].n = tab[u].n /\ tab'[u].whom = tab[u].whom
  BY DEF Moved, Same, InFlight
<1>2. \A u \in Tabs : InFlight(u)' => /\ InFlight(u) /\ tab'[u].n = tab[u].n
                                      /\ tab'[u].whom = tab[u].whom
  BY <1>1 DEF Moved
<1>3. \A u \in Tabs : InFlight(u) => tab[u].n # NoLogin /\ tab[u].n \in Issued
  BY DEF Proper, InFlight, Issued, NoLogin
<1>4. N \subseteq Issued /\ \A u \in Tabs : InFlight(u)' => tab[u].n \notin N
  BY <1>2, <1>3 DEF Numbers, OneLogin
<1>5. OneLogin'
  <2>1. \A u, v \in Tabs : InFlight(u)' /\ tab'[v].n = tab'[u].n => u = v
    <3>. SUFFICES ASSUME NEW u \in Tabs, NEW v \in Tabs,
                         InFlight(u)', tab'[v].n = tab'[u].n
                  PROVE  u = v
      OBVIOUS
    <3>1. InFlight(u) /\ tab'[u].n = tab[u].n
      BY <1>2
    <3>2. CASE v # t
      BY <1>1, <3>1, <3>2 DEF Numbers, OneLogin
    <3>3. CASE v = t
      <4>1. tab'[t].n = tab[t].n
        BY <1>3, <3>1, <3>3 DEF Moved, Numbers, OneLogin
      <4>. QED
        BY <3>1, <3>3, <4>1 DEF Numbers, OneLogin
    <3>. QED
      BY <3>2, <3>3
  <2>2. \A u \in Tabs : InFlight(u)' => /\ tab'[u].n \notin sess' \union ended'
                                        /\ \A v \in Tabs : cookie'[v] # tab'[u].n
    BY <1>2, <1>3, <1>4 DEF Numbers, OneLogin
  <2>3. sess' \union ended' \subseteq Issued
    BY <1>4 DEF Numbers, OneLogin
  <2>4. \A u \in Tabs : cookie'[u] # NoLogin => cookie'[u] \in Issued
    BY <1>4 DEF Numbers, OneLogin
  <2>. QED
    BY <2>1, <2>2, <2>3, <2>4 DEF Numbers, OneLogin, Issued
<1>6. Overlapping'
  BY <1>2 DEF Numbers, Overlapping, Issued
<1>7. CutOff'
  <2>1. N \cap ended = {}
    BY DEF Numbers, OneLogin
  <2>. QED
    BY <2>1 DEF Numbers, CutOff
<1>. QED
  BY <1>5, <1>6, <1>7 DEF Numbers

LEMMA OthersKept ==
  ASSUME IInv, NEW t \in Tabs, Moved(t), NEW u \in Tabs \ {t},
         UNCHANGED <<fromGroup, logins, subject>>, crossed \subseteq crossed',
         faults' >= faults, faults \in Nat, faults' \in Nat, u \in jar => u \in jar',
         \A p \in People : account[p] # "none" => account'[p] # "none",
         tab[u].at \in FormAts /\ account'[subject[tab[u].n]] = "admin"
           => account[subject[tab[u].n]] = "admin" \/ tab'[u].was,
         tab[u].at = "insert" /\ account'[tab[u].whom] # "none"
           => account[tab[u].whom] # "none" \/ tab[u].n \in crossed
  PROVE  Proper(u)'
<1>1. Proper(u)
  BY IInvIs
<1>2. /\ tab'[u].at = tab[u].at /\ tab'[u].op = tab[u].op /\ tab'[u].n = tab[u].n
      /\ tab'[u].whom = tab[u].whom /\ tab'[u].blind = tab[u].blind
      /\ tab'[u].lapsed = tab[u].lapsed /\ (tab[u].was => tab'[u].was)
  BY DEF Moved, Same
<1>. QED
  BY <1>1, <1>2 DEF Proper, InFlight, Issued

LEMMA FlagsKept ==
  ASSUME IInv, UNCHANGED <<account, fromGroup, logins, subject, claim, newest>>,
         crossed \subseteq crossed'
  PROVE  Flags'
  BY IInvIs DEF Flags, Followed, FlagFollowsClaim, Issued

(* A step of one request, which leaves accounts and tokens as they are.     *)
LEMMA MoveIInv ==
  ASSUME IInv, NEW t \in Tabs, Moved(t), Proper(t)',
         NEW N \in SUBSET {tab[t].n}, N # {} => InFlight(t) /\ ~InFlight(t)',
         sess' \subseteq sess \union N,
         cookie' \in [Tabs -> 0..MaxLogins],
         \A u \in Tabs : cookie'[u] \in {NoLogin, cookie[u]} \union N,
         jar' \subseteq Tabs, \A u \in jar \ {t} : u \in jar',
         faults' = faults \/ Fault,
         newest' \in [People -> 0..MaxLogins], Flags',
         UNCHANGED <<account, fromGroup, logins, subject, claim, shared, crossed, ended>>
  PROVE  IInv'
<1>1. TypeOK
  BY IInvIs
<1>2. faults' \in 0..MaxFaults /\ faults' >= faults /\ faults \in Nat /\ faults' \in Nat
  BY <1>1, FaultDoes, SignInAssumption DEF TypeOK
<1>3. Numbers'
  BY NumbersKept
<1>4. \A u \in Tabs \ {t} : Proper(u)'
  BY <1>2, OthersKept
<1>5. TypeOK'
  <2>1. sess' \subseteq Logins
    BY <1>1, <1>3, SignInAssumption DEF Numbers, OneLogin, Issued, Logins, TypeOK
  <2>. QED
    BY <1>1, <1>2, <2>1 DEF TypeOK, Moved
<1>. QED
  BY <1>3, <1>4, <1>5, IInvNext

(* The same for steps that leave sessions and cookies as they are, too.     *)
LEMMA GoesOnIInv ==
  ASSUME IInv, NEW t \in Tabs, Moved(t), Proper(t)',
         jar' \subseteq Tabs, \A u \in jar \ {t} : u \in jar',
         faults' = faults \/ Fault,
         UNCHANGED <<db, fromGroup, cookie, shared, history>>
  PROVE  IInv'
<1>1. TypeOK
  BY IInvIs
<1>2. Flags'
  BY FlagsKept DEF db, history
<1>3. PICK N \in SUBSET {tab[t].n} : N = {}
  OBVIOUS
<1>4. /\ sess' \subseteq sess \union N /\ cookie' \in [Tabs -> 0..MaxLogins]
      /\ \A u \in Tabs : cookie'[u] \in {NoLogin, cookie[u]} \union N
      /\ newest' \in [People -> 0..MaxLogins]
      /\ UNCHANGED <<account, fromGroup, logins, subject, claim, shared, crossed, ended>>
  BY <1>1 DEF db, history, TypeOK
<1>. QED
  BY <1>2, <1>3, <1>4, MoveIInv

LEMMA AnsweredIInv ==
  ASSUME IInv, NEW t \in Tabs, Answered(t),
         jar' \subseteq Tabs, \A u \in jar \ {t} : u \in jar',
         faults' = faults \/ Fault,
         UNCHANGED <<db, fromGroup, cookie, shared, history>>
  PROVE  IInv'
<1>1. /\ tab' \in [Tabs -> Requests] /\ tab'[t] = Idle
      /\ \A u \in Tabs \ {t} : tab'[u] = tab[u]
  BY AnsweredIs, IInvIs
<1>2. Moved(t)
  BY <1>1, IdleIs DEF Moved, Same, InFlight
<1>3. Proper(t)'
  BY <1>1, IdleIs DEF Proper, InFlight, LoginAts, FormAts
<1>. QED
  BY <1>2, <1>3, GoesOnIInv

-----------------------------------------------------------------------------
(* Login and Callback. *)

LEMMA LoginIInv ==
  ASSUME IInv, NEW t \in Tabs,
         \/ \E p \in People, address \in Addresses, rewritten \in BOOLEAN :
              LoginHandler(t, p, address, rewritten)
         \/ LoginAfterDetour(t) \/ Lapse(t) \/ CallbackRefused(t) \/ InsertRefused(t)
         \/ SelectFails(t) \/ LoginFails(t)
  PROVE  IInv'
<1>1. TypeOK /\ jar \subseteq Tabs /\ tab[t] \in Requests /\ Proper(t)
  BY IInvIs DEF TypeOK
<1>2. ASSUME NEW p \in People, NEW address \in Addresses, NEW rewritten \in BOOLEAN,
             LoginHandler(t, p, address, rewritten)
      PROVE  IInv'
  <2>1. \E at \in {"login", "idp"} :
          /\ Become(t, [Idle EXCEPT !.at = at, !.op = "login", !.whom = p])
          /\ at = "idp" => t \in jar'
    BY <1>2 DEF LoginHandler
  <2>2. PICK at \in {"login", "idp"} :
          /\ Become(t, [Idle EXCEPT !.at = at, !.op = "login", !.whom = p])
          /\ at = "idp" => t \in jar'
    BY <2>1
  <2>3. PICK q \in Requests : q = Idle
    BY IdleIs
  <2>4. PICK r : r = [q EXCEPT !.at = at, !.op = "login", !.whom = p]
    OBVIOUS
  <2>5. /\ r \in Requests /\ r.at = at /\ r.op = "login" /\ r.whom = p
        /\ r.n = NoLogin
    BY <2>3, <2>4, IdleIs DEF Requests, Ats, Ops
  <2>6. /\ tab' \in [Tabs -> Requests] /\ tab'[t] = r
        /\ \A u \in Tabs \ {t} : tab'[u] = tab[u]
    BY <1>1, <2>2, <2>3, <2>4, <2>5, BecomeIs
  <2>7. Moved(t)
    BY <2>5, <2>6 DEF Moved, Same, InFlight
  <2>8. Proper(t)'
    BY <2>2, <2>5, <2>6 DEF Proper, InFlight, LoginAts, FormAts
  <2>9. /\ jar' \subseteq Tabs /\ (\A u \in jar \ {t} : u \in jar')
        /\ UNCHANGED <<db, fromGroup, cookie, shared, faults, history>>
    BY <1>1, <1>2 DEF LoginHandler
  <2>. QED
    BY <2>7, <2>8, <2>9, GoesOnIInv
<1>3. ASSUME LoginAfterDetour(t) PROVE IInv'
  <2>1. Goto(t, "idp") /\ tab[t].at = "login" /\ "idp" \in Ats
    BY <1>3 DEF LoginAfterDetour, Ats
  <2>2. Moved(t) /\ Proper(t)'
    BY <1>1, <1>3, <2>1, GotoIs
    DEF LoginAfterDetour, Moved, Same, InFlight, Proper, LoginAts, FormAts
  <2>. QED
    BY <1>1, <1>3, <2>2, GoesOnIInv DEF LoginAfterDetour
<1>4. ASSUME Lapse(t) PROVE IInv'
  <2>1. PICK q \in Requests : q = tab[t]
    BY <1>1
  <2>2. PICK r : r = [q EXCEPT !.lapsed = TRUE]
    OBVIOUS
  <2>3. /\ r \in Requests /\ r.at = q.at /\ r.op = q.op /\ r.n = q.n
        /\ r.whom = q.whom /\ r.lapsed
    BY <2>2 DEF Requests
  <2>4. Become(t, r)
    BY <1>4, <2>1, <2>2 DEF Lapse
  <2>5. /\ tab' \in [Tabs -> Requests] /\ tab'[t] = r
        /\ \A u \in Tabs \ {t} : tab'[u] = tab[u]
    BY <1>1, <2>3, <2>4, BecomeIs
  <2>6. Moved(t) /\ Proper(t)'
    BY <1>1, <1>4, <2>1, <2>3, <2>5
    DEF Lapse, Moved, Same, InFlight, Proper, LoginAts, FormAts
  <2>. QED
    BY <1>1, <1>4, <2>6, GoesOnIInv DEF Lapse
<1>5. ASSUME CallbackRefused(t) \/ InsertRefused(t) PROVE IInv'
  BY <1>1, <1>5, AnsweredIInv DEF CallbackRefused, InsertRefused, browser
<1>6. ASSUME SelectFails(t) PROVE IInv'
  <2>1. Goto(t, "insert") /\ tab[t].at = "select" /\ "insert" \in Ats
    BY <1>6 DEF SelectFails, Ats
  <2>2. faults' > 0
    BY <1>1, <1>6, FaultDoes DEF SelectFails
  <2>3. UNCHANGED <<account, logins, subject, fromGroup>>
    BY <1>6 DEF SelectFails, db
  <2>4. Moved(t) /\ Proper(t)'
    BY <1>1, <2>1, <2>2, <2>3, GotoIs
    DEF Moved, Same, InFlight, Proper, LoginAts, FormAts, Issued
  <2>. QED
    BY <1>1, <1>6, <2>4, GoesOnIInv DEF SelectFails, browser
<1>7. ASSUME LoginFails(t) PROVE IInv'
  BY <1>1, <1>7, AnsweredIInv DEF LoginFails
<1>. QED
  BY <1>2, <1>3, <1>4, <1>5, <1>6, <1>7

(* The lookup finds the account as the token says it is, or goes on.        *)
LEMMA SelectIInv ==
  ASSUME IInv, NEW t \in Tabs, Select(t) PROVE IInv'
<1>. DEFINE p == tab[t].whom
            n == tab[t].n
<1>1. TypeOK /\ tab[t] \in Requests /\ Proper(t) /\ Flags
  BY IInvIs DEF TypeOK
<1>2. p \in People /\ n \in Issued /\ subject[n] = p /\ n \in 0..MaxLogins
  BY <1>1 DEF Select, Proper, InFlight, LoginAts, Requests
<1>3. PICK at \in {"insert", "flag", "session"} :
        /\ Goto(t, at)
        /\ at = "insert" <=> account[p] = "none"
        /\ at = "flag" => fromGroup
        /\ at = "session" => ~Differs(account[p], n) /\ Decides(p, n)
        /\ at # "session" => UNCHANGED newest
  BY DEF Select, Differs
<1>4. /\ tab' \in [Tabs -> Requests]
      /\ \A u \in Tabs \ {t} : tab'[u] = tab[u]
      /\ tab'[t].at = at /\ tab'[t].op = tab[t].op /\ tab'[t].n = n /\ tab'[t].whom = p
      /\ tab[t].at = "select"
  BY <1>1, <1>3, GotoIs DEF Ats, Select
<1>5. UNCHANGED <<db, fromGroup, browser, faults, crossed, ended>>
  BY DEF Select
<1>6. Moved(t) /\ Proper(t)'
  BY <1>1, <1>2, <1>3, <1>4, <1>5
  DEF Moved, Same, InFlight, Proper, LoginAts, FormAts, Issued, db
<1>7. newest' \in [People -> 0..MaxLogins] /\ Flags'
  <2>1. CASE UNCHANGED newest
    BY <1>1, <1>5, <2>1, FlagsKept DEF TypeOK, db
  <2>2. CASE newest' # newest
    <3>1. /\ fromGroup /\ (account[p] = "admin") = claim[n] /\ account[p] # "none"
          /\ newest' = [newest EXCEPT ![p] = n]
      BY <1>3, <2>2 DEF Decides, Differs
    <3>. QED
      BY <1>1, <1>2, <1>5, <3>1 DEF TypeOK, Flags, Followed, FlagFollowsClaim, Issued, db
  <2>. QED
    BY <2>1, <2>2
<1>8. PICK N \in SUBSET {tab[t].n} : N = {}
  OBVIOUS
<1>9. /\ sess' \subseteq sess \union N /\ cookie' \in [Tabs -> 0..MaxLogins]
      /\ \A u \in Tabs : cookie'[u] \in {NoLogin, cookie[u]} \union N
      /\ jar' \subseteq Tabs /\ (\A u \in jar \ {t} : u \in jar')
      /\ UNCHANGED <<account, fromGroup, logins, subject, claim, shared, faults, crossed, ended>>
  BY <1>1, <1>5 DEF db, browser, TypeOK
<1>. QED
  BY <1>6, <1>7, <1>8, <1>9, MoveIInv

-----------------------------------------------------------------------------
(* Requests with a session. *)

LEMMA ArrivesIInv ==
  ASSUME IInv, NEW t \in Tabs, NEW op \in {"grant", "revoke", "logout"},
         NEW q \in People \union {Nobody},
         op # "logout" => q \in People /\ account[q] # "none", Arrives(t, op, q)
  PROVE  IInv'
<1>1. TypeOK /\ jar \subseteq Tabs /\ Numbers
  BY IInvIs DEF TypeOK
<1>2. PICK n \in 0..MaxLogins : n = cookie[t] /\ n \in Issued
  BY <1>1 DEF Arrives, Numbers, OneLogin, TypeOK
<1>3. PICK w \in BOOLEAN : w <=> account[subject[n]] = "admin"
  OBVIOUS
<1>4. PICK r : r = [Idle EXCEPT !.at = "get", !.op = op, !.n = n, !.whom = q, !.was = w]
  OBVIOUS
<1>5. Become(t, r)
  <2>1. (account[subject[cookie[t]]] = "admin") = w
    BY <1>2, <1>3
  <2>. QED
    BY <1>2, <1>4, <2>1 DEF Arrives
<1>6. /\ r \in Requests /\ r.at = "get" /\ r.op = op /\ r.n = n /\ r.whom = q
      /\ r.was = w
  <2>1. PICK z \in Requests : z = Idle
    BY IdleIs
  <2>. QED
    BY <1>4, <2>1 DEF Requests, Ats, Ops
<1>7. /\ tab' \in [Tabs -> Requests] /\ tab'[t] = r
      /\ \A u \in Tabs \ {t} : tab'[u] = tab[u]
  BY <1>1, <1>5, <1>6, BecomeIs
<1>8. UNCHANGED <<db, fromGroup, browser, faults, history>>
  BY DEF Arrives
<1>9. Moved(t)
  BY <1>2, <1>6, <1>7 DEF Moved, Same, InFlight
<1>10. Proper(t)'
  BY <1>2, <1>3, <1>6, <1>7, <1>8 DEF Proper, InFlight, LoginAts, FormAts, Issued, db
<1>. QED
  BY <1>1, <1>8, <1>9, <1>10, GoesOnIInv DEF browser

(* A request ends with its tab's cookies perhaps gone.                      *)
LEMMA CookieGoneIInv ==
  ASSUME IInv, NEW t \in Tabs, Answered(t), sess' \subseteq sess,
         SetCookie(t, NoLogin) \/ UNCHANGED cookie,
         faults' = faults \/ Fault,
         UNCHANGED <<account, logins, subject, claim, fromGroup, jar, shared, history>>
  PROVE  IInv'
<1>1. TypeOK
  BY IInvIs
<1>2. /\ tab' \in [Tabs -> Requests] /\ tab'[t] = Idle
      /\ \A u \in Tabs \ {t} : tab'[u] = tab[u]
  BY <1>1, AnsweredIs
<1>3. Moved(t) /\ Proper(t)'
  BY <1>2, IdleIs DEF Moved, Same, InFlight, Proper, LoginAts, FormAts
<1>4. /\ cookie' \in [Tabs -> 0..MaxLogins]
      /\ \A u \in Tabs : cookie'[u] \in {NoLogin, cookie[u]}
  <2>1. NoLogin \in 0..MaxLogins
    BY SignInAssumption DEF NoLogin
  <2>. QED
    BY <1>1, <2>1 DEF TypeOK, SetCookie
<1>5. Flags' /\ newest' \in [People -> 0..MaxLogins]
  BY <1>1, FlagsKept DEF history, TypeOK
<1>6. PICK N \in SUBSET {tab[t].n} : N = {}
  OBVIOUS
<1>7. /\ sess' \subseteq sess \union N
      /\ \A u \in Tabs : cookie'[u] \in {NoLogin, cookie[u]} \union N
      /\ jar' \subseteq Tabs /\ (\A u \in jar \ {t} : u \in jar')
      /\ UNCHANGED <<account, fromGroup, logins, subject, claim, shared, crossed, ended>>
  BY <1>1, <1>4, <1>6 DEF history, TypeOK
<1>. QED
  BY <1>3, <1>4, <1>5, <1>6, <1>7, MoveIInv

LEMMA SessionIInv ==
  ASSUME IInv, NEW t \in Tabs,
         \/ GetNone(t) \/ GetFails(t) \/ GetSession(t) \/ LoadUser(t)
         \/ AccountFromForm(t) \/ AccountFromFormFails(t) \/ Actor(t)
         \/ WriteFails(t) \/ DeleteSession(t)
  PROVE  IInv'
<1>1. TypeOK /\ jar \subseteq Tabs /\ tab[t] \in Requests /\ Proper(t)
  BY IInvIs DEF TypeOK
<1>2. CASE GetNone(t) \/ GetFails(t)
  <2>1. CASE Answered(t)
    <3>1. SetCookie(t, NoLogin) \/ UNCHANGED cookie
      BY <1>2 DEF GetNone, GetFails, WithoutSession
    <3>2. /\ sess' \subseteq sess /\ (faults' = faults \/ Fault)
          /\ UNCHANGED <<account, logins, subject, claim, fromGroup, jar, shared, history>>
      BY <1>2 DEF GetNone, GetFails, db
    <3>. QED
      BY <2>1, <3>1, <3>2, CookieGoneIInv
  <2>2. CASE /\ tab[t].at = "actor" /\ UNCHANGED cookie
             /\ Become(t, [tab[t] EXCEPT !.at = "write", !.blind = TRUE])
    <3>1. PICK q \in Requests : q = tab[t]
      BY <1>1
    <3>2. PICK r : r = [q EXCEPT !.at = "write", !.blind = TRUE]
      OBVIOUS
    <3>3. /\ r \in Requests /\ r.at = "write" /\ r.op = q.op /\ r.n = q.n
          /\ r.whom = q.whom /\ r.was = q.was /\ r.blind
      BY <3>2 DEF Requests, Ats
    <3>4. /\ tab' \in [Tabs -> Requests] /\ tab'[t] = r
          /\ \A u \in Tabs \ {t} : tab'[u] = tab[u]
      BY <1>1, <2>2, <3>1, <3>2, <3>3, BecomeIs
    <3>5. UNCHANGED <<db, fromGroup, jar, shared, history>> /\ (faults' = faults \/ Fault)
      BY <1>2 DEF GetNone, GetFails
    <3>6. Moved(t) /\ Proper(t)'
      BY <1>1, <2>2, <3>1, <3>3, <3>4, <3>5
      DEF Moved, Same, InFlight, Proper, LoginAts, FormAts, Issued, db
    <3>. QED
      BY <1>1, <2>2, <3>5, <3>6, GoesOnIInv
  <2>. QED
    BY <1>2, <2>1, <2>2 DEF GetNone, GetFails, WithoutSession
<1>3. CASE WriteFails(t) \/ AccountFromFormFails(t)
  BY <1>1, <1>3, AnsweredIInv DEF WriteFails, AccountFromFormFails, browser
<1>4. CASE DeleteSession(t)
  BY <1>4, CookieGoneIInv DEF DeleteSession
<1>5. CASE (LoadUser(t) \/ Actor(t)) /\ Answered(t)
  BY <1>1, <1>5, AnsweredIInv DEF LoadUser, Actor, browser
<1>6. CASE GetSession(t) \/ AccountFromForm(t) \/ ((LoadUser(t) \/ Actor(t)) /\ ~Answered(t))
  <2>1. PICK at \in {"load", "find", "actor", "write", "delete"} :
          /\ Goto(t, at)
          /\ at = "delete" => tab[t].at = "get" /\ tab[t].op = "logout"
          /\ at = "load" => tab[t].at = "get" /\ tab[t].op # "logout"
          /\ at = "find" =>
               tab[t].at = "load" /\ ~fromGroup /\ account[subject[tab[t].n]] = "admin"
          /\ at \in {"actor", "write"} =>
               \/ tab[t].at = "find" /\ (tab[t].op = "grant" <=> at = "write")
               \/ tab[t].at = "actor" /\ at = "write" /\ tab[t].whom # subject[tab[t].n]
    BY <1>6 DEF GetSession, LoadUser, AccountFromForm, Actor
  <2>2. UNCHANGED <<db, fromGroup, browser, faults, history>>
    BY <1>6 DEF GetSession, LoadUser, AccountFromForm, Actor
  <2>3. /\ tab' \in [Tabs -> Requests]
        /\ \A u \in Tabs \ {t} : tab'[u] = tab[u]
        /\ tab'[t].at = at /\ tab'[t].op = tab[t].op /\ tab'[t].n = tab[t].n
        /\ tab'[t].whom = tab[t].whom /\ tab'[t].was = tab[t].was
        /\ tab'[t].blind = tab[t].blind
    BY <1>1, <2>1, GotoIs DEF Ats
  <2>4. Moved(t) /\ Proper(t)'
    BY <1>1, <2>1, <2>2, <2>3
    DEF Moved, Same, InFlight, Proper, LoginAts, FormAts, Issued, db
  <2>. QED
    BY <1>1, <2>2, <2>4, GoesOnIInv DEF browser
<1>. QED
  BY <1>2, <1>3, <1>4, <1>5, <1>6

(* The login's token is nobody's else, and its session new.                 *)
LEMMA CreateIInv ==
  ASSUME IInv, NEW t \in Tabs, CreateSession(t) PROVE IInv'
<1>1. TypeOK /\ tab[t] \in Requests
  BY IInvIs DEF TypeOK
<1>2. PICK N \in SUBSET {tab[t].n} : N = {tab[t].n}
  OBVIOUS
<1>3. /\ tab' \in [Tabs -> Requests] /\ tab'[t] = Idle
      /\ \A u \in Tabs \ {t} : tab'[u] = tab[u]
  BY <1>1, AnsweredIs DEF CreateSession
<1>4. Moved(t) /\ Proper(t)' /\ InFlight(t) /\ ~InFlight(t)'
  BY <1>3, IdleIs DEF CreateSession, Moved, Same, InFlight, Proper, LoginAts, FormAts
<1>5. /\ cookie' \in [Tabs -> 0..MaxLogins]
      /\ \A u \in Tabs : cookie'[u] \in {NoLogin, cookie[u]} \union N
  <2>1. tab[t].n \in 0..MaxLogins
    BY <1>1 DEF Requests
  <2>. QED
    BY <1>1, <1>2, <2>1 DEF TypeOK, CreateSession, SetCookie
<1>6. Flags' /\ newest' \in [People -> 0..MaxLogins]
  BY <1>1, FlagsKept DEF CreateSession, history, TypeOK
<1>7. /\ sess' \subseteq sess \union N
      /\ jar' \subseteq Tabs /\ (\A u \in jar \ {t} : u \in jar')
      /\ UNCHANGED <<account, fromGroup, logins, subject, claim, shared, faults, crossed, ended>>
  BY <1>1, <1>2 DEF CreateSession, history, TypeOK
<1>. QED
  BY <1>2, <1>4, <1>5, <1>6, <1>7, MoveIInv

-----------------------------------------------------------------------------
(* Steps that change an account. *)

LEMMA PromotedIs ==
  ASSUME NEW f \in [Tabs -> Requests], NEW p
  PROVE  /\ Promoted(f, p) \in [Tabs -> Requests]
         /\ \A u \in Tabs :
              /\ Same(Promoted(f, p)[u], f[u])
              /\ f[u].was => Promoted(f, p)[u].was
              /\ f[u].n # NoLogin /\ f[u].op # "login" /\ subject[f[u].n] = p
                   => Promoted(f, p)[u].was
<1>1. \A u \in Tabs :
        /\ Promoted(f, p)[u] \in Requests
        /\ Same(Promoted(f, p)[u], f[u])
        /\ f[u].was => Promoted(f, p)[u].was
        /\ f[u].n # NoLogin /\ f[u].op # "login" /\ subject[f[u].n] = p
             => Promoted(f, p)[u].was
  <2>. SUFFICES ASSUME NEW u \in Tabs
                PROVE  /\ Promoted(f, p)[u] \in Requests
                       /\ Same(Promoted(f, p)[u], f[u])
                       /\ f[u].was => Promoted(f, p)[u].was
                       /\ f[u].n # NoLogin /\ f[u].op # "login" /\ subject[f[u].n] = p
                            => Promoted(f, p)[u].was
    OBVIOUS
  <2>1. PICK q \in Requests : q = f[u]
    OBVIOUS
  <2>2. PICK r : r = [q EXCEPT !.was = TRUE]
    OBVIOUS
  <2>3. r \in Requests /\ Same(r, q) /\ r.was
    BY <2>2 DEF Requests, Same
  <2>4. Promoted(f, p)[u] = IF q.n # NoLogin /\ q.op # "login" /\ subject[q.n] = p
                              THEN r ELSE q
    BY <2>1, <2>2 DEF Promoted
  <2>. QED
    BY <2>1, <2>3, <2>4 DEF Same
<1>2. DOMAIN Promoted(f, p) = Tabs /\ Promoted(f, p) = [u \in Tabs |-> Promoted(f, p)[u]]
  BY DEF Promoted
<1>. QED
  BY <1>1, <1>2

LEMMA SetUserAdminIs ==
  ASSUME TypeOK, NEW p \in People, NEW admin \in BOOLEAN, NEW t \in Tabs,
         NEW r \in Requests, SetUserAdmin(p, admin, t, r)
  PROVE  /\ account' = [account EXCEPT ![p] = IF admin THEN "admin" ELSE "plain"]
         /\ tab' \in [Tabs -> Requests]
         /\ \A u \in Tabs \ {t} :
              /\ Same(tab'[u], tab[u]) /\ (tab[u].was => tab'[u].was)
              /\ admin /\ tab[u].n # NoLogin /\ tab[u].op # "login" /\ subject[tab[u].n] = p
                   => tab'[u].was
         /\ Same(tab'[t], r)
<1>1. PICK f : f = [tab EXCEPT ![t] = r]
  OBVIOUS
<1>2. f \in [Tabs -> Requests] /\ f[t] = r /\ \A u \in Tabs \ {t} : f[u] = tab[u]
  BY <1>1 DEF TypeOK
<1>3. tab' = IF admin THEN Promoted(f, p) ELSE f
  BY <1>1 DEF SetUserAdmin
<1>4. account' = [account EXCEPT ![p] = IF admin THEN "admin" ELSE "plain"]
  BY DEF SetUserAdmin
<1>5. CASE admin
  BY <1>2, <1>3, <1>4, <1>5, PromotedIs
<1>6. CASE ~admin
  BY <1>2, <1>3, <1>4, <1>6 DEF Same
<1>. QED
  BY <1>5, <1>6

(* An account that was there or is now created gets flag v.                 *)
Sets(t, p, v) ==
  /\ account' = [account EXCEPT ![p] = v]
  /\ \A u \in Tabs \ {t} :
       /\ tab[u].at \in FormAts /\ v = "admin" /\ subject[tab[u].n] = p => tab'[u].was
       /\ tab[u].at = "insert" /\ tab[u].whom = p
            => account[p] # "none" \/ tab[u].n \in crossed
  /\ UNCHANGED <<logins, subject, claim, sess, fromGroup, browser, faults, crossed, ended>>

LEMMA AccountIInv ==
  ASSUME IInv, NEW t \in Tabs, Moved(t), Proper(t)',
         NEW p \in People, NEW v \in {"plain", "admin"}, Sets(t, p, v),
         newest' \in [People -> 0..MaxLogins], Flags'
  PROVE  IInv'
<1>. USE DEF Sets
<1>1. TypeOK
  BY IInvIs
<1>2. /\ account' \in [People -> {"none", "plain", "admin"}] /\ account'[p] = v
      /\ \A q \in People \ {p} : account'[q] = account[q]
      /\ \A q \in People : account[q] # "none" => account'[q] # "none"
  BY <1>1 DEF TypeOK
<1>3. TypeOK'
  BY <1>1, <1>2 DEF TypeOK, Moved, browser
<1>4. Numbers'
  <2>1. PICK N \in SUBSET {tab[t].n} : N = {}
    OBVIOUS
  <2>. QED
    BY <2>1, NumbersKept DEF browser
<1>5. ASSUME NEW u \in Tabs \ {t} PROVE Proper(u)'
  <2>0. Proper(u) /\ TypeOK /\ tab[u] \in Requests
    BY IInvIs DEF TypeOK
  <2>1. tab[u].at \in FormAts /\ account'[subject[tab[u].n]] = "admin"
          => account[subject[tab[u].n]] = "admin" \/ tab'[u].was
    <3>. SUFFICES ASSUME tab[u].at \in FormAts, account'[subject[tab[u].n]] = "admin"
                  PROVE  account[subject[tab[u].n]] = "admin" \/ tab'[u].was
      OBVIOUS
    <3>1. tab[u].n \in Issued
      BY <2>0 DEF Proper, FormAts
    <3>2. subject[tab[u].n] \in People
      BY <2>0, <3>1, IInvIs, SignInAssumption DEF Numbers, OneLogin, Issued, Logins, TypeOK
    <3>. QED
      BY <1>2, <3>2
  <2>2. tab[u].at = "insert" /\ account'[tab[u].whom] # "none"
          => account[tab[u].whom] # "none" \/ tab[u].n \in crossed
    BY <1>2, <2>0 DEF Proper, LoginAts
  <2>3. UNCHANGED <<fromGroup, logins, subject, crossed, jar, faults>> /\ faults \in Nat
    BY <2>0, SignInAssumption DEF browser, TypeOK
  <2>. QED
    BY <1>2, <2>1, <2>2, <2>3, OthersKept
<1>. QED
  BY <1>3, <1>4, <1>5, IInvNext

(* Of two logins of a person in flight, both are marked.                    *)
LEMMA RivalsAreMarked ==
  ASSUME IInv, NEW t \in Tabs, NEW u \in Tabs \ {t},
         InFlight(t), InFlight(u), tab[t].whom = tab[u].whom
  PROVE  tab[u].n \in crossed
<1>1. /\ Proper(t) /\ Proper(u) /\ Numbers
      /\ tab[t].n \in Nat /\ tab[u].n \in Nat
  BY IInvIs, SignInAssumption DEF TypeOK, Requests
<1>2. tab[t].n \in Issued /\ tab[u].n \in Issued /\ tab[t].n # tab[u].n
  BY <1>1 DEF Proper, InFlight, Numbers, OneLogin
<1>3. subject[tab[t].n] = tab[u].whom /\ subject[tab[u].n] = tab[t].whom
  BY <1>1 DEF Proper
<1>4. CASE tab[t].n < tab[u].n
  BY <1>1, <1>2, <1>3, <1>4 DEF Numbers, Overlapping
<1>5. CASE tab[u].n < tab[t].n
  BY <1>1, <1>2, <1>3, <1>5 DEF Numbers, Overlapping
<1>. QED
  BY <1>1, <1>2, <1>4, <1>5

LEMMA InsertIInv ==
  ASSUME IInv, NEW t \in Tabs, Insert(t) PROVE IInv'
<1>1. TypeOK /\ tab[t] \in Requests /\ Proper(t) /\ Flags /\ InFlight(t)
  BY IInvIs DEF TypeOK, Insert, InFlight
<1>2. PICK p \in People, n \in Issued :
        p = tab[t].whom /\ n = tab[t].n /\ subject[n] = p /\ n \in 0..MaxLogins
  BY <1>1 DEF Insert, Proper, InFlight, LoginAts, Requests
<1>3. PICK at \in {"flag", "session"} :
        /\ Goto(t, at)
        /\ at = "flag" => fromGroup
        /\ at = "session" => ~Differs("plain", n) /\ Decides(p, n)
        /\ at # "session" => UNCHANGED newest
  BY <1>2 DEF Insert, Differs
<1>4. /\ tab' \in [Tabs -> Requests]
      /\ \A u \in Tabs \ {t} : tab'[u] = tab[u]
      /\ tab'[t].at = at /\ tab'[t].op = tab[t].op /\ tab'[t].n = n /\ tab'[t].whom = p
      /\ tab[t].at = "insert"
  BY <1>1, <1>2, <1>3, GotoIs DEF Ats, Insert
<1>5. /\ account[p] = "none" /\ account' = [account EXCEPT ![p] = "plain"]
      /\ UNCHANGED <<logins, subject, claim, sess, fromGroup, browser, faults, crossed, ended>>
  BY <1>2 DEF Insert
<1>6. Moved(t) /\ Proper(t)'
  BY <1>1, <1>2, <1>3, <1>4, <1>5
  DEF Moved, Same, InFlight, Proper, LoginAts, FormAts, Issued
<1>7. newest' \in [People -> 0..MaxLogins] /\ Flags'
  <2>1. newest[p] = 0
    BY <1>1, <1>2, <1>5 DEF Flags, Followed
  <2>2. /\ account'[p] = "plain" /\ \A q \in People \ {p} : account'[q] = account[q]
    BY <1>1, <1>2, <1>5 DEF TypeOK
  <2>3. CASE UNCHANGED newest
    BY <1>1, <1>5, <2>1, <2>2, <2>3 DEF TypeOK, Flags, Followed, FlagFollowsClaim, Issued
  <2>4. CASE newest' # newest
    <3>1. fromGroup /\ claim[n] = FALSE /\ newest' = [newest EXCEPT ![p] = n]
      BY <1>1, <1>2, <1>3, <2>4 DEF Decides, Differs, TypeOK, Issued, Logins
    <3>2. /\ newest' \in [People -> 0..MaxLogins] /\ newest'[p] = n
          /\ \A q \in People \ {p} : newest'[q] = newest[q]
      BY <1>1, <1>2, <3>1 DEF TypeOK
    <3>3. Followed'
      BY <1>1, <1>2, <1>5, <2>2, <3>1, <3>2 DEF Flags, Followed, Issued
    <3>4. FlagFollowsClaim'
      BY <1>1, <1>2, <1>5, <2>2, <3>1, <3>2 DEF Flags, FlagFollowsClaim
    <3>. QED
      BY <3>2, <3>3, <3>4 DEF Flags
  <2>. QED
    BY <2>3, <2>4
<1>8. \A u \in Tabs \ {t} :
        tab[u].at = "insert" /\ tab[u].whom = p => account[p] # "none" \/ tab[u].n \in crossed
  BY <1>1, <1>2, RivalsAreMarked DEF InFlight
<1>9. PICK v \in {"plain", "admin"} : v = "plain"
  OBVIOUS
<1>10. /\ account' = [account EXCEPT ![p] = v]
       /\ \A u \in Tabs \ {t} :
            tab[u].at \in FormAts /\ v = "admin" /\ subject[tab[u].n] = p => tab'[u].was
  BY <1>5, <1>9
<1>11. Sets(t, p, v)
  BY <1>5, <1>8, <1>10 DEF Sets
<1>. QED
  BY <1>6, <1>7, <1>11, AccountIInv

LEMMA FlagIInv ==
  ASSUME IInv, NEW t \in Tabs, Flag(t) PROVE IInv'
<1>1. TypeOK /\ tab[t] \in Requests /\ Proper(t) /\ Flags /\ Numbers /\ InFlight(t)
  BY IInvIs DEF TypeOK, Flag, InFlight
<1>2. PICK p \in People, n \in Issued :
        /\ p = tab[t].whom /\ n = tab[t].n /\ subject[n] = p
        /\ n \in 0..MaxLogins /\ claim[n] \in BOOLEAN
  BY <1>1, SignInAssumption
  DEF Flag, Proper, InFlight, LoginAts, Requests, TypeOK, Issued, Logins
<1>3. PICK q \in Requests : q = tab[t]
  BY <1>1
<1>4. PICK r : r = [q EXCEPT !.at = "session"]
  OBVIOUS
<1>5. r \in Requests /\ r.at = "session" /\ r.op = q.op /\ r.n = q.n /\ r.whom = q.whom
  BY <1>4, AtIs DEF Ats
<1>6. SetUserAdmin(p, claim[n], t, r)
  BY <1>2, <1>3, <1>4 DEF Flag
<1>7. PICK v \in {"plain", "admin"} : v = IF claim[n] THEN "admin" ELSE "plain"
  OBVIOUS
<1>8. /\ account' = [account EXCEPT ![p] = v]
      /\ tab' \in [Tabs -> Requests]
      /\ \A u \in Tabs \ {t} :
           /\ Same(tab'[u], tab[u]) /\ (tab[u].was => tab'[u].was)
           /\ claim[n] /\ tab[u].n # NoLogin /\ tab[u].op # "login" /\ subject[tab[u].n] = p
                => tab'[u].was
      /\ Same(tab'[t], r)
  BY <1>1, <1>2, <1>5, <1>6, <1>7, SetUserAdminIs
<1>9. /\ UNCHANGED <<logins, subject, claim, sess, fromGroup, browser, faults, crossed, ended>>
      /\ Decides(p, n) /\ tab[t].at = "flag" /\ fromGroup
  BY <1>1, <1>2 DEF Flag, Proper
<1>10. Moved(t) /\ Proper(t)'
  BY <1>1, <1>2, <1>3, <1>5, <1>8, <1>9
  DEF Moved, Same, InFlight, Proper, LoginAts, FormAts, Issued
<1>11. newest' \in [People -> 0..MaxLogins] /\ Flags'
  <2>1. (account'[p] = "admin") = claim[n] /\ account'[p] # "none"
    BY <1>1, <1>2, <1>7, <1>8 DEF TypeOK
  <2>2. \A o \in People \ {p} : account'[o] = account[o]
    BY <1>1, <1>8 DEF TypeOK
  <2>3. CASE n > newest[p]
    <3>1. newest' = [newest EXCEPT ![p] = n]
      BY <1>9, <2>3 DEF Decides
    <3>. QED
      BY <1>1, <1>2, <1>9, <2>1, <2>2, <3>1
      DEF TypeOK, Flags, Followed, FlagFollowsClaim, Issued
  <2>4. CASE ~(n > newest[p])
    <3>1. newest' = newest
      BY <1>9, <2>4 DEF Decides
    <3>2. newest[p] # 0 /\ newest[p] # n => newest[p] \in crossed
      <4>1. n \in Nat /\ newest[p] \in Nat
        BY <1>1, <1>2, SignInAssumption DEF TypeOK
      <4>. QED
        BY <1>1, <1>2, <2>4, <4>1 DEF Flags, Followed, Numbers, Overlapping
    <3>. QED
      BY <1>1, <1>2, <1>9, <2>1, <2>2, <3>1, <3>2
      DEF TypeOK, Flags, Followed, FlagFollowsClaim, Issued
  <2>. QED
    BY <2>3, <2>4
<1>12. \A u \in Tabs \ {t} :
         tab[u].at = "insert" /\ tab[u].whom = p => account[p] # "none" \/ tab[u].n \in crossed
  BY <1>1, <1>2, RivalsAreMarked DEF InFlight
<1>13. \A u \in Tabs \ {t} :
         tab[u].at \in FormAts /\ v = "admin" /\ subject[tab[u].n] = p => tab'[u].was
  <2>1. \A u \in Tabs : tab[u].at \in FormAts => tab[u].n # NoLogin /\ tab[u].op # "login"
    <3>1. NoLogin \notin Issued
      BY DEF NoLogin, Issued
    <3>2. \A u \in Tabs : Proper(u)
      BY IInvIs
    <3>. QED
      BY <3>1, <3>2 DEF Proper, FormAts
  <2>. QED
    BY <1>7, <1>8, <2>1
<1>14. Sets(t, p, v)
  BY <1>8, <1>9, <1>12, <1>13 DEF Sets
<1>. QED
  BY <1>10, <1>11, <1>14, AccountIInv

LEMMA WriteIInv ==
  ASSUME IInv, NEW t \in Tabs, Write(t) PROVE IInv'
<1>1. TypeOK /\ tab[t] \in Requests /\ Proper(t) /\ Flags
  BY IInvIs DEF TypeOK
<1>2. PICK p \in People : p = tab[t].whom /\ account[p] # "none"
  BY <1>1 DEF Write, Proper, FormAts
<1>3. PICK admin \in BOOLEAN : admin <=> tab[t].op = "grant"
  OBVIOUS
<1>4. SetUserAdmin(p, admin, t, Idle)
  <2>1. (tab[t].op = "grant") = admin
    BY <1>3
  <2>. QED
    BY <1>2, <2>1 DEF Write
<1>5. PICK v \in {"plain", "admin"} : v = IF admin THEN "admin" ELSE "plain"
  OBVIOUS
<1>6. /\ account' = [account EXCEPT ![p] = v]
      /\ tab' \in [Tabs -> Requests]
      /\ \A u \in Tabs \ {t} :
           /\ Same(tab'[u], tab[u]) /\ (tab[u].was => tab'[u].was)
           /\ admin /\ tab[u].n # NoLogin /\ tab[u].op # "login" /\ subject[tab[u].n] = p
                => tab'[u].was
      /\ Same(tab'[t], Idle)
  BY <1>1, <1>4, <1>5, IdleIs, SetUserAdminIs
<1>7. /\ UNCHANGED <<logins, subject, claim, sess, fromGroup, browser, faults, history>>
      /\ tab[t].at = "write" /\ ~fromGroup
  BY <1>1 DEF Write, Proper
<1>8. Moved(t) /\ Proper(t)'
  BY <1>6, IdleIs DEF Moved, Same, InFlight, Proper, LoginAts, FormAts
<1>9. newest' \in [People -> 0..MaxLogins] /\ Flags'
  BY <1>1, <1>7 DEF history, TypeOK, Flags, Followed, FlagFollowsClaim
<1>10. \A u \in Tabs : tab[u].at \in FormAts => tab[u].n # NoLogin /\ tab[u].op # "login"
  <2>1. NoLogin \notin Issued
    BY DEF NoLogin, Issued
  <2>2. \A u \in Tabs : Proper(u)
    BY IInvIs
  <2>. QED
    BY <2>1, <2>2 DEF Proper, FormAts
<1>11. Sets(t, p, v)
  BY <1>2, <1>5, <1>6, <1>7, <1>10 DEF Sets, history
<1>. QED
  BY <1>8, <1>9, <1>11, AccountIInv

LEMMA MakeAdminIInv ==
  ASSUME IInv, NEW p \in People, MakeAdmin(p) PROVE IInv'
<1>1. TypeOK /\ Flags /\ \A u \in Tabs : Proper(u)
  BY IInvIs
<1>2. /\ tab' \in [Tabs -> Requests]
      /\ \A u \in Tabs :
           /\ Same(tab'[u], tab[u]) /\ (tab[u].was => tab'[u].was)
           /\ tab[u].n # NoLogin /\ tab[u].op # "login" /\ subject[tab[u].n] = p
                => tab'[u].was
  BY <1>1, PromotedIs DEF MakeAdmin, TypeOK
<1>3. /\ account' = [account EXCEPT ![p] = "admin"] /\ account[p] = "plain" /\ ~fromGroup
      /\ UNCHANGED <<logins, subject, claim, sess, fromGroup, browser, faults, history>>
  BY DEF MakeAdmin
<1>4. /\ account' \in [People -> {"none", "plain", "admin"}] /\ account'[p] = "admin"
      /\ \A q \in People \ {p} : account'[q] = account[q]
  BY <1>1, <1>3 DEF TypeOK
<1>5. PICK t \in Tabs : TRUE
  BY SignInAssumption
<1>6. Moved(t)
  BY <1>2 DEF Moved, Same, InFlight
<1>7. \A u \in Tabs : tab[u].at \in FormAts => tab[u].n # NoLogin /\ tab[u].op # "login"
  <2>1. NoLogin \notin Issued
    BY DEF NoLogin, Issued
  <2>. QED
    BY <1>1, <2>1 DEF Proper, FormAts
<1>8. Proper(t)'
  <2>1. Proper(t) /\ TypeOK /\ tab[t] \in Requests
    BY <1>1 DEF TypeOK
  <2>2. /\ tab'[t].at = tab[t].at /\ tab'[t].op = tab[t].op /\ tab'[t].n = tab[t].n
        /\ tab'[t].whom = tab[t].whom /\ tab'[t].blind = tab[t].blind
        /\ tab'[t].lapsed = tab[t].lapsed /\ (tab[t].was => tab'[t].was)
    BY <1>2 DEF Same
  <2>3. tab[t].at \in FormAts /\ account'[subject[tab[t].n]] = "admin" => tab'[t].was
    <3>. SUFFICES ASSUME tab[t].at \in FormAts, account'[subject[tab[t].n]] = "admin"
                  PROVE  tab'[t].was
      OBVIOUS
    <3>1. tab[t].n \in Issued
      BY <2>1 DEF Proper, FormAts
    <3>2. subject[tab[t].n] \in People
      BY <2>1, <3>1, IInvIs, SignInAssumption DEF Numbers, OneLogin, Issued, Logins, TypeOK
    <3>. QED
      BY <1>2, <1>4, <1>7, <2>1, <2>2, <3>2 DEF Proper
  <2>4. \A q \in People : account'[q] = "none" <=> account[q] = "none"
    BY <1>3, <1>4
  <2>5. tab[t].at \in LoginAts => tab[t].whom \in People
    BY <2>1 DEF Proper
  <2>6. tab[t].at = "insert" /\ account'[tab[t].whom] # "none" => account[tab[t].whom] # "none"
    BY <2>4, <2>5 DEF LoginAts
  <2>. QED
    BY <1>3, <2>1, <2>2, <2>3, <2>4, <2>6 DEF Proper, InFlight, Issued, browser, history
<1>9. newest' \in [People -> 0..MaxLogins] /\ Flags'
  BY <1>1, <1>3 DEF history, TypeOK, Flags, Followed, FlagFollowsClaim
<1>10. PICK v \in {"plain", "admin"} : v = "admin"
  OBVIOUS
<1>11. Sets(t, p, v)
  BY <1>2, <1>3, <1>7, <1>10 DEF Sets, history
<1>. QED
  BY <1>6, <1>8, <1>9, <1>11, AccountIInv

-----------------------------------------------------------------------------
(* Tokens, logouts, expiry and restarts. *)

LEMMA CallbackIInv ==
  ASSUME IInv, NEW t \in Tabs, NEW shape, HandleCallback(t, shape) PROVE IInv'
<1>1. TypeOK /\ tab[t] \in Requests /\ Numbers /\ Flags /\ \A u \in Tabs : Proper(u)
  BY IInvIs DEF TypeOK
<1>2. PICK p \in People : p = tab[t].whom
  BY <1>1 DEF HandleCallback, Proper, LoginAts
<1>3. PICK n \in Logins : n = logins + 1 /\ logins' = n
  BY <1>1, SignInAssumption DEF HandleCallback, TypeOK, Logins
<1>4. /\ Issued' = Issued \union {n} /\ n \notin Issued /\ NoLogin # n
      /\ \A m \in Issued : m \in Logins /\ m \in Nat /\ m < n
  <2>1. logins \in Nat /\ logins < MaxLogins /\ MaxLogins \in Nat
    BY <1>1, SignInAssumption DEF HandleCallback, TypeOK
  <2>2. n = logins + 1 /\ logins' = logins + 1
    BY <1>3
  <2>. QED
    BY <2>1, <2>2 DEF Issued, Logins, NoLogin
<1>5. PICK c \in BOOLEAN : c <=> fromGroup /\ GroupMembership(shape)
  OBVIOUS
<1>6. claim' = [claim EXCEPT ![n] = c]
  <2>1. (fromGroup /\ GroupMembership(shape)) = c
    BY <1>5
  <2>. QED
    BY <1>3, <2>1 DEF HandleCallback
<1>7. PICK q \in Requests : q = tab[t]
  BY <1>1
<1>8. PICK r : r = [q EXCEPT !.at = "select", !.n = n]
  OBVIOUS
<1>9. /\ r \in Requests /\ r.at = "select" /\ r.n = n /\ r.op = q.op /\ r.whom = q.whom
  <2>1. n \in 0..MaxLogins
    BY SignInAssumption DEF Logins
  <2>. QED
    BY <1>8, <2>1 DEF Requests, Ats
<1>10. /\ tab' \in [Tabs -> Requests] /\ tab'[t] = r
       /\ \A u \in Tabs \ {t} : tab'[u] = tab[u]
  <2>1. Become(t, r)
    BY <1>3, <1>7, <1>8 DEF HandleCallback
  <2>. QED
    BY <1>1, <1>9, <2>1, BecomeIs
<1>11. /\ subject' = [subject EXCEPT ![n] = p] /\ jar' = jar \ {t} /\ tab[t].at = "idp"
       /\ UNCHANGED <<account, sess, fromGroup, cookie, shared, faults, newest, ended>>
  BY <1>2, <1>3 DEF HandleCallback
<1>12. /\ subject' \in [Logins -> People \union {Nobody}] /\ subject'[n] = p
       /\ \A m \in Logins \ {n} : subject'[m] = subject[m] /\ claim'[m] = claim[m]
       /\ claim' \in [Logins -> BOOLEAN]
  BY <1>1, <1>6, <1>11 DEF TypeOK
<1>13. PICK R : R = {tab[u].n : u \in {v \in Tabs : InFlight(v) /\ tab[v].whom = p}}
  OBVIOUS
<1>14. /\ crossed \subseteq crossed' /\ crossed' \subseteq Logins
       /\ \A u \in Tabs : InFlight(u) /\ tab[u].whom = p => {tab[u].n, n} \subseteq crossed'
  <2>1. crossed' = IF R = {} THEN crossed ELSE crossed \union R \union {n}
    BY <1>2, <1>3, <1>13 DEF HandleCallback
  <2>2. R \subseteq Logins
    <3>1. \A u \in Tabs : InFlight(u) => tab[u].n \in Issued
      BY <1>1 DEF Proper, InFlight
    <3>. QED
      BY <1>4, <1>13, <3>1
  <2>3. \A u \in Tabs : InFlight(u) /\ tab[u].whom = p => tab[u].n \in R
    BY <1>13
  <2>. QED
    BY <1>1, <2>1, <2>2, <2>3 DEF TypeOK
<1>15. TypeOK'
  BY <1>1, <1>3, <1>10, <1>11, <1>12, <1>14, SignInAssumption DEF TypeOK, Logins
<1>16. ASSUME NEW u \in Tabs \ {t} PROVE Proper(u)'
  <2>1. tab[u].n \in Issued => subject'[tab[u].n] = subject[tab[u].n]
    BY <1>4, <1>12
  <2>. QED
    BY <1>1, <1>4, <1>10, <1>11, <1>14, <2>1 DEF Proper, InFlight, FormAts
<1>17. Proper(t)'
  BY <1>1, <1>2, <1>4, <1>7, <1>9, <1>10, <1>12, <1>11 DEF Proper, InFlight, FormAts, LoginAts
<1>18. \A u \in Tabs : tab[u].n # n /\ cookie[u] # n
  BY <1>1, <1>4 DEF Proper, Numbers, OneLogin
<1>19. \A u \in Tabs \ {t} : /\ InFlight(u)' <=> InFlight(u)
                             /\ tab'[u].n = tab[u].n /\ tab'[u].whom = tab[u].whom
  BY <1>10 DEF InFlight
<1>20. Numbers'
  <2>1. OneLogin'
    <3>1. \A m \in Logins : subject'[m] \in People <=> m \in Issued'
      BY <1>1, <1>4, <1>12 DEF Numbers, OneLogin
    <3>2. \A u, v \in Tabs : InFlight(u)' /\ tab'[v].n = tab'[u].n => u = v
      BY <1>1, <1>9, <1>10, <1>18, <1>19 DEF Numbers, OneLogin
    <3>3. \A u \in Tabs : InFlight(u)' => /\ tab'[u].n \notin sess' \union ended'
                                          /\ \A v \in Tabs : cookie'[v] # tab'[u].n
      BY <1>1, <1>4, <1>9, <1>10, <1>11, <1>18, <1>19 DEF Numbers, OneLogin
    <3>4. /\ sess' \union ended' \subseteq Issued'
          /\ \A u \in Tabs : cookie'[u] # NoLogin => cookie'[u] \in Issued'
      BY <1>1, <1>4, <1>11 DEF Numbers, OneLogin
    <3>. QED
      BY <3>1, <3>2, <3>3, <3>4 DEF OneLogin
  <2>2. Overlapping'
    <3>. SUFFICES ASSUME NEW u \in Tabs, NEW m \in Issued', InFlight(u)', tab'[u].n < m,
                         subject'[m] = tab'[u].whom
                  PROVE  {tab'[u].n, m} \subseteq crossed'
      BY DEF Overlapping
    <3>1. CASE u = t
      BY <1>3, <1>4, <1>9, <1>10, <3>1
    <3>2. CASE u # t /\ m = n
      BY <1>12, <1>14, <1>19, <3>2
    <3>3. CASE u # t /\ m # n
      BY <1>1, <1>4, <1>12, <1>14, <1>19, <3>3 DEF Numbers, Overlapping
    <3>. QED
      BY <3>1, <3>2, <3>3
  <2>3. CutOff'
    BY <1>1, <1>11 DEF Numbers, CutOff
  <2>. QED
    BY <2>1, <2>2, <2>3 DEF Numbers
<1>21. Flags'
  BY <1>1, <1>4, <1>11, <1>12, <1>14 DEF Flags, Followed, FlagFollowsClaim
<1>. QED
  BY <1>15, <1>16, <1>17, <1>20, <1>21, IInvNext

LEMMA SessionsIInv ==
  ASSUME IInv, \/ \E p \in People : BackchannelLogout(p) \/ BackchannelLogoutFails(p)
               \/ \E n \in Logins : Expire(n)
  PROVE  IInv'
<1>1. TypeOK /\ Numbers /\ Flags /\ \A u \in Tabs : Proper(u)
  BY IInvIs
<1>2. /\ UNCHANGED <<account, logins, subject, claim, fromGroup, tab, browser, crossed, newest>>
      /\ faults' = faults \/ Fault
  BY DEF BackchannelLogout, BackchannelLogoutFails, Expire, db, history
<1>3. /\ sess' \subseteq sess /\ ended' \subseteq Issued /\ sess' \cap ended' = {}
      /\ \A u \in Tabs : InFlight(u) => tab[u].n \notin ended'
  <2>1. CASE UNCHANGED ended /\ sess' \subseteq sess
    BY <1>1, <2>1 DEF Numbers, OneLogin, CutOff
  <2>2. ASSUME NEW p \in People, BackchannelLogout(p)
        PROVE  /\ sess' \subseteq sess /\ ended' \subseteq Issued /\ sess' \cap ended' = {}
               /\ \A u \in Tabs : InFlight(u) => tab[u].n \notin ended'
    <3>1. LoginsOf(p) \subseteq Issued
      BY <1>1 DEF LoginsOf, Numbers, OneLogin
    <3>2. \A u \in Tabs : InFlight(u) => tab[u].n \in Flying
      BY DEF Flying
    <3>. QED
      BY <1>1, <2>2, <3>1, <3>2 DEF BackchannelLogout, Numbers, OneLogin, CutOff
  <2>. QED
    BY <2>1, <2>2 DEF BackchannelLogoutFails, Expire, db, history
<1>4. faults' \in 0..MaxFaults /\ (faults > 0 => faults' > 0)
  BY <1>1, <1>2, FaultDoes, SignInAssumption DEF TypeOK
<1>5. TypeOK'
  BY <1>1, <1>2, <1>3, <1>4, SignInAssumption DEF TypeOK, browser, Issued, Logins
<1>6. \A u \in Tabs : Proper(u)'
  BY <1>1, <1>2, <1>4 DEF Proper, InFlight, Issued, browser
<1>7. Numbers'
  <2>1. OneLogin'
    BY <1>1, <1>2, <1>3 DEF Numbers, OneLogin, InFlight, Issued, browser
  <2>2. Overlapping'
    BY <1>1, <1>2 DEF Numbers, Overlapping, InFlight, Issued
  <2>. QED
    BY <1>3, <2>1, <2>2 DEF Numbers, CutOff
<1>8. Flags'
  BY <1>2, FlagsKept
<1>. QED
  BY <1>5, <1>6, <1>7, <1>8, IInvNext

LEMMA RestartIInv ==
  ASSUME IInv, Restart PROVE IInv'
<1>1. TypeOK /\ Numbers /\ Flags
  BY IInvIs
<1>2. \A t \in Tabs : tab'[t] = Idle
  BY DEF Restart
<1>3. newest' \in [People -> 0..MaxLogins] /\ (newest' = newest \/ \A p \in People : newest'[p] = 0)
  BY <1>1, SignInAssumption DEF Restart, TypeOK
<1>4. TypeOK'
  <2>1. tab' \in [Tabs -> Requests]
    BY IdleIs DEF Restart
  <2>2. faults' \in 0..MaxFaults
    BY <1>1, FaultDoes DEF Restart
  <2>. QED
    BY <1>1, <1>3, <2>1, <2>2 DEF Restart, TypeOK, db
<1>5. \A t \in Tabs : Proper(t)'
  BY <1>2, IdleIs DEF Proper, InFlight, LoginAts, FormAts
<1>6. Numbers'
  <2>1. \A t \in Tabs : ~InFlight(t)'
    BY <1>2, IdleIs DEF InFlight
  <2>2. UNCHANGED <<db, cookie, ended>>
    BY DEF Restart
  <2>. QED
    BY <1>1, <2>1, <2>2 DEF Numbers, OneLogin, Overlapping, CutOff, Issued, db
<1>7. Flags'
  <2>1. fromGroup' = fromGroup \/ \A p \in People : newest'[p] = 0
    BY DEF Restart
  <2>. QED
    BY <1>1, <1>3, <2>1 DEF Restart, Flags, Followed, FlagFollowsClaim, Issued, db
<1>. QED
  BY <1>4, <1>5, <1>6, <1>7, IInvNext

-----------------------------------------------------------------------------
LEMMA NextIInv == IInv /\ [Next]_vars => IInv'
<1>. SUFFICES ASSUME IInv, [Next]_vars PROVE IInv'
  OBVIOUS
<1>1. CASE UNCHANGED vars
  <2>1. UNCHANGED <<db, fromGroup, tab, browser, faults, history>>
    BY <1>1 DEF vars
  <2>2. TypeOK' /\ \A t \in Tabs : Proper(t)'
    BY <2>1, IInvIs DEF TypeOK, Proper, InFlight, Issued, db, browser, history
  <2>3. Numbers' /\ Flags'
    BY <2>1, IInvIs
    DEF Numbers, OneLogin, Overlapping, CutOff, Flags, Followed, FlagFollowsClaim,
        InFlight, Issued, db, browser, history
  <2>. QED
    BY <2>2, <2>3, IInvNext
<1>2. ASSUME NEW t \in Tabs, LoginStep(t) PROVE IInv'
  <2>1. ASSUME NEW shape \in Shapes, HandleCallback(t, shape) PROVE IInv'
    BY <2>1, CallbackIInv
  <2>. QED
    BY <1>2, <2>1, LoginIInv, SelectIInv, InsertIInv, FlagIInv, CreateIInv, Zenon DEF LoginStep
<1>3. ASSUME NEW t \in Tabs, SessionStep(t) PROVE IInv'
  <2>1. ASSUME NEW op \in {"grant", "revoke"}, NEW q \in People, SubmitForm(t, op, q)
        PROVE  IInv'
    BY <2>1, ArrivesIInv DEF SubmitForm
  <2>2. ASSUME SignOut(t) PROVE IInv'
    BY <2>2, ArrivesIInv DEF SignOut
  <2>. QED
    BY <1>3, <2>1, <2>2, SessionIInv, WriteIInv, Zenon DEF SessionStep
<1>4. CASE Next
  BY <1>2, <1>3, <1>4, SessionsIInv, MakeAdminIInv, RestartIInv, Zenon DEF Next
<1>. QED
  BY <1>1, <1>4

LEMMA InitIInv == Init => IInv
<1>. SUFFICES ASSUME Init PROVE IInv
  OBVIOUS
<1>1. Issued = {}
  BY DEF Init, Issued
<1>2. TypeOK
  BY IdleIs, SignInAssumption DEF Init, TypeOK, NoLogin, Logins
<1>3. \A t \in Tabs : Proper(t)
  BY IdleIs DEF Init, Proper, InFlight, LoginAts, FormAts
<1>4. Numbers
  BY <1>1, IdleIs, SignInAssumption
  DEF Init, Numbers, OneLogin, Overlapping, CutOff, InFlight, Logins, NoLogin
<1>5. Flags
  BY DEF Init, Flags, Followed, FlagFollowsClaim
<1>. QED
  BY <1>2, <1>3, <1>4, <1>5, IInvIs

(* In every reachable state the invariant holds: what each request carries, *)
(* which tokens are whose and what is written of them agree.                *)
THEOREM Invariance == Spec => []IInv
  BY InitIInv, NextIInv, PTL DEF Spec

(* Whoever is about to change rights has been an admin since their request  *)
(* arrived (admin.go:165-187, 520-566).                                     *)
THEOREM NoRightsFromOldPages == Spec => []OnlyAdminsWrite
  BY Invariance, PTL DEF IInv

(* The flag is what the newest ID token said, unless logins of one person   *)
(* overlapped (oidc.go:245-266), with any failures and restarts.            *)
THEOREM FlagsFollowClaims == Spec => []FlagFollowsClaim
  BY Invariance, PTL DEF IInv

(* A session from before a back-channel logout is never valid again         *)
(* (ui.go:314-330), in however many browsers the person was signed in.      *)
THEOREM LoggedOutForGood == Spec => []CutOff
  BY Invariance, PTL DEF IInv

(* The callback finds its state cookie, whatever address the portal was     *)
(* opened by and however many logins are under way (oidc.go:89-143).        *)
THEOREM StateIsFound == Spec => []CallbackFindsState
  BY Invariance, PTL DEF IInv

(* A person is refused as a duplicate only on account of another login of   *)
(* theirs or of a failed lookup (db.go:482-511).                            *)
THEOREM OnlyRivalsAreRefused == Spec => []RefusedOnlyForRival
  BY Invariance, PTL DEF IInv

(* Where the panel manages admins, the last one is removed by nobody but a  *)
(* remover who is no admin any more, or whom the handler could not identify *)
(* (admin.go:542-566): what is left of the promise sign_in_alone refutes.   *)
THEOREM NeverLeftAlone == Spec => LastRemovalIsCrossed
<1>1. IInv /\ [Next]_vars =>
        [~fromGroup /\ Admins # {} /\ Admins' = {}
           => \E t \in Tabs : /\ tab[t].at = "write" /\ tab[t].op = "revoke"
                              /\ \/ subject[tab[t].n] \notin Admins
                                 \/ tab[t].blind]_vars
  <2>. SUFFICES ASSUME IInv, Next, ~fromGroup, NEW p \in Admins, Admins' = {}
                PROVE  \E t \in Tabs : /\ tab[t].at = "write" /\ tab[t].op = "revoke"
                                       /\ \/ subject[tab[t].n] \notin Admins
                                          \/ tab[t].blind
    OBVIOUS
  <2>1. /\ TypeOK /\ (\A t \in Tabs : Proper(t)) /\ p \in People /\ account[p] = "admin"
        /\ \A q \in People : account'[q] # "admin"
    BY IInvIs DEF Admins
  <2>2. account' # account
    BY <2>1
  <2>3. ~(\E q \in People : MakeAdmin(q))
    BY <2>1 DEF MakeAdmin, TypeOK
  <2>4. ~(\E t \in Tabs : Insert(t) \/ Flag(t))
    <3>1. ASSUME NEW t \in Tabs, Insert(t) PROVE FALSE
      BY <2>1, <3>1 DEF Insert, TypeOK
    <3>2. ASSUME NEW t \in Tabs, Flag(t) PROVE FALSE
      BY <2>1, <3>2 DEF Flag, Proper
    <3>. QED
      BY <3>1, <3>2
  <2>5. \E t \in Tabs : Write(t)
    BY <2>2, <2>3, <2>4
    DEF Next, LoginStep, SessionStep, LoginHandler, LoginAfterDetour, Lapse, CallbackRefused,
        HandleCallback, Select, SelectFails, InsertRefused, CreateSession, LoginFails,
        SignOut, SubmitForm, Arrives, GetNone, GetFails, GetSession, LoadUser,
        AccountFromForm, AccountFromFormFails, Actor, WriteFails, DeleteSession, BackchannelLogout, BackchannelLogoutFails, Expire,
        Restart, db
  <2>6. PICK t \in Tabs : Write(t)
    BY <2>5
  <2>7. account' = [account EXCEPT ![tab[t].whom] = IF tab[t].op = "grant" THEN "admin" ELSE "plain"]
    BY <2>6 DEF Write, SetUserAdmin
  <2>8. tab[t].at = "write" /\ tab[t].whom \in People /\ tab[t].op \in {"grant", "revoke"}
    BY <2>1, <2>6 DEF Write, Proper, FormAts
  <2>9. tab[t].op = "revoke"
    BY <2>1, <2>7, <2>8 DEF TypeOK
  <2>10. subject[tab[t].n] \in Admins => tab[t].whom = subject[tab[t].n]
    BY <2>1, <2>7 DEF TypeOK, Admins
  <2>11. tab[t].whom = subject[tab[t].n] => tab[t].blind
    BY <2>1, <2>8, <2>9 DEF Proper
  <2>. QED
    BY <2>8, <2>9, <2>10, <2>11
<1>. QED
  BY <1>1, Invariance, PTL DEF Spec, LastRemovalIsCrossed
=============================================================================
