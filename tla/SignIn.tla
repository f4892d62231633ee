-------------------------------- MODULE SignIn --------------------------------
(***************************************************************************)
(* Who is signed in and who is an administrator: logins against the        *)
(* identity provider, sessions, back-channel logout, and the panel's       *)
(* Admins tab with its stale pages.                                        *)
(*                                                                         *)
(* A tab is a place requests come from, one at a time. Each database       *)
(* statement is an action. An account is known by its subject, which is    *)
(* unique in the users table, and accounts are never deleted. A login and  *)
(* the session it creates have the number of the ID token they come from.  *)
(***************************************************************************)
EXTENDS Naturals

CONSTANTS People, Nobody,
          Tabs,
          MaxLogins,   \* bound on ID tokens issued
          MaxFaults    \* bound on failing statements and calls and on restarts

ASSUME SignInAssumption == /\ Nobody \notin People /\ Tabs # {}
                           /\ MaxLogins \in Nat /\ MaxFaults \in Nat

VARIABLES account,   \* account[p]: the row of users, if any, and its admin flag
          fromGroup, \* ADMIN_GROUP is set: the login system decides on admins
          logins,    \* the number of ID tokens issued
          subject,   \* subject[n]: whose ID token number n is
          claim,     \* claim[n]: whether it says its subject is in the group
          sess,      \* the sessions that are valid
          tab,       \* the request each tab waits for
          cookie,    \* the session cookie in each tab's browser
          jar,       \* tabs whose login's state cookie the browser holds
          shared,    \* all tabs are of one browser, or each has its own
          faults,    \* how much of MaxFaults is used up
          crossed,   \* history: logins in flight together with one of their person's
          newest,    \* history: newest[p]: the newest token that set p's flag
          ended      \* history: logins that were over when their person was logged out

db == <<account, logins, subject, claim, sess>>
browser == <<cookie, jar, shared>>
history == <<crossed, newest, ended>>
vars == <<db, fromGroup, tab, browser, faults, history>>

-----------------------------------------------------------------------------
Logins == 1..MaxLogins
NoLogin == 0

Ats == {"idle", "login", "idp", "select", "insert", "flag", "session",
        "get", "load", "find", "actor", "write", "delete"}
Ops == {"none", "login", "grant", "revoke", "logout"}

(* whom: who logs in, or whom a form names. was: the session's owner has    *)
(* been an admin since the request arrived. blind: the handler could not    *)
(* find out who acts. lapsed: the login took longer than its state cookie.  *)
Requests == [at : Ats, op : Ops, n : 0..MaxLogins, whom : People \union {Nobody},
             was : BOOLEAN, blind : BOOLEAN, lapsed : BOOLEAN]

TypeOK == /\ account \in [People -> {"none", "plain", "admin"}]
          /\ fromGroup \in BOOLEAN
          /\ logins \in 0..MaxLogins
          /\ subject \in [Logins -> People \union {Nobody}]
          /\ claim \in [Logins -> BOOLEAN]
          /\ sess \subseteq Logins
          /\ tab \in [Tabs -> Requests]
          /\ cookie \in [Tabs -> 0..MaxLogins]
          /\ jar \subseteq Tabs /\ shared \in BOOLEAN
          /\ faults \in 0..MaxFaults
          /\ crossed \subseteq Logins /\ ended \subseteq Logins
          /\ newest \in [People -> 0..MaxLogins]

Idle == [at |-> "idle", op |-> "none", n |-> NoLogin, whom |-> Nobody,
         was |-> FALSE, blind |-> FALSE, lapsed |-> FALSE]

Init == /\ account \in [People -> {"none", "plain", "admin"}]
        /\ fromGroup \in BOOLEAN
        /\ logins = 0 /\ subject = [n \in Logins |-> Nobody]
        /\ claim = [n \in Logins |-> FALSE]
        /\ sess = {}
        /\ tab = [t \in Tabs |-> Idle]
        /\ cookie = [t \in Tabs |-> NoLogin]
        /\ jar = {} /\ shared \in BOOLEAN
        /\ faults = 0
        /\ crossed = {} /\ ended = {}
        /\ newest = [p \in People |-> 0]

-----------------------------------------------------------------------------
Fault == faults < MaxFaults /\ faults' = faults + 1

Admins == {p \in People : account[p] = "admin"}
Issued == 1..logins

Become(t, r) == tab' = [tab EXCEPT ![t] = r]
Goto(t, at) == Become(t, [tab[t] EXCEPT !.at = at])
Answered(t) == Become(t, Idle)

(* The other tabs of the same browser, and the cookie they share.           *)
Mates(t) == IF shared THEN Tabs ELSE {t}
SetCookie(t, n) == cookie' = [u \in Tabs |-> IF u \in Mates(t) THEN n ELSE cookie[u]]

(* The tabs whose session is p's, once p has become an admin.               *)
Promoted(f, p) ==
  [t \in Tabs |-> IF f[t].n # NoLogin /\ f[t].op # "login" /\ subject[f[t].n] = p
                    THEN [f[t] EXCEPT !.was = TRUE] ELSE f[t]]

(* SetUserAdmin, and the request t goes on as r.                            *)
SetUserAdmin(p, admin, t, r) ==
  /\ account' = [account EXCEPT ![p] = IF admin THEN "admin" ELSE "plain"]
  /\ LET f == [tab EXCEPT ![t] = r] IN tab' = IF admin THEN Promoted(f, p) ELSE f

-----------------------------------------------------------------------------
(* Login and Callback. *)

(* LoginHandler, for someone who opens /login by some address. The state    *)
(* cookie is good for that address's host alone, and the callback comes by  *)
(* the one of OIDC_REDIRECT_URL: a request for another host is sent there   *)
(* first. The Host header is the address's, unless a proxy rewrites it. The *)
(* cookie is named for its state: a second login in the browser leaves the  *)
(* first one's alone.                                                       *)
Addresses == {"canonical", "alias"}

(* Mutant: no detour. *)
LoginHandlerStaying(t, p, address, rewritten) ==
  /\ tab[t].at = "idle"
  /\ Become(t, [Idle EXCEPT !.at = "idp", !.op = "login", !.whom = p])
  /\ jar' = IF address = "canonical" THEN jar \union {t} ELSE jar
  /\ UNCHANGED <<db, fromGroup, cookie, shared, faults, history>>

LoginHandler(t, p, address, rewritten) ==
  /\ tab[t].at = "idle"
  /\ IF rewritten \/ address # "canonical"
       THEN /\ Become(t, [Idle EXCEPT !.at = "login", !.op = "login", !.whom = p])
            /\ UNCHANGED jar
       ELSE /\ Become(t, [Idle EXCEPT !.at = "idp", !.op = "login", !.whom = p])
            /\ jar' = jar \union {t}
  /\ UNCHANGED <<db, fromGroup, cookie, shared, faults, history>>

(* The request the detour leads to is marked, and is served whatever its    *)
(* Host header says.                                                        *)
LoginAfterDetour(t) ==
  /\ tab[t].at = "login"
  /\ Goto(t, "idp")
  /\ jar' = jar \union {t}
  /\ UNCHANGED <<db, fromGroup, cookie, shared, faults, history>>

(* The state cookie lasts five minutes.                                     *)
Lapse(t) ==
  /\ tab[t].at = "idp" /\ t \in jar
  /\ jar' = jar \ {t}
  /\ Become(t, [tab[t] EXCEPT !.lapsed = TRUE])
  /\ UNCHANGED <<db, fromGroup, cookie, shared, faults, history>>

(* HandleCallback without the cookie: "invalid state".                      *)
CallbackRefused(t) ==
  /\ tab[t].at = "idp" /\ t \notin jar
  /\ Answered(t)
  /\ UNCHANGED <<db, fromGroup, browser, faults, history>>

(* GroupMembership: what the group claim of a token may look like and what  *)
(* it says. One that is missing or has another shape grants nothing.        *)
Shapes == {"list with group", "list without", "group", "another", "absent", "other"}
GroupMembership(shape) == shape \in {"list with group", "group"}

InFlight(t) == tab[t].at \in {"select", "insert", "flag", "session"}

(* HandleCallback with the cookie, which it removes: the code is exchanged  *)
(* for an ID token. Whether it lists the group is up to the identity        *)
(* provider, each time anew, and looked at only with ADMIN_GROUP set.       *)
HandleCallback(t, shape) ==
  LET p == tab[t].whom
      n == logins + 1
      rivals == {tab[u].n : u \in {v \in Tabs : InFlight(v) /\ tab[v].whom = p}}
  IN
  /\ tab[t].at = "idp" /\ t \in jar
  /\ logins < MaxLogins /\ logins' = n
  /\ jar' = jar \ {t}
  /\ subject' = [subject EXCEPT ![n] = p]
  /\ claim' = [claim EXCEPT ![n] = fromGroup /\ GroupMembership(shape)]
  /\ Become(t, [tab[t] EXCEPT !.at = "select", !.n = n])
  /\ crossed' = IF rivals = {} THEN crossed ELSE crossed \union rivals \union {n}
  /\ UNCHANGED <<account, sess, fromGroup, cookie, shared, faults, newest, ended>>

(* The flag is now what login n says.                                       *)
Decides(p, n) ==
  newest' = IF fromGroup /\ n > newest[p] THEN [newest EXCEPT ![p] = n] ELSE newest

(* Whether the flag read says otherwise than the claim.                     *)
Differs(flag, n) == fromGroup /\ (flag = "admin") # claim[n]

(* GetOrCreateUser: the account is looked up and its name and address are   *)
(* brought up to date, which may fail without consequence. Only a flag that *)
(* differs from the claim is written.                                       *)
(* Mutant: the lookup misses accounts that are not administrators'. *)
SelectAdmins(t) ==
  LET p == tab[t].whom
      n == tab[t].n
  IN
  /\ tab[t].at = "select"
  /\ CASE account[p] # "admin" -> Goto(t, "insert") /\ UNCHANGED newest
       [] account[p] = "admin" /\ Differs(account[p], n) ->
            Goto(t, "flag") /\ UNCHANGED newest
       [] OTHER -> Goto(t, "session") /\ Decides(p, n)
  /\ UNCHANGED <<db, fromGroup, browser, faults, crossed, ended>>

Select(t) ==
  LET p == tab[t].whom
      n == tab[t].n
  IN
  /\ tab[t].at = "select"
  /\ CASE account[p] = "none" -> Goto(t, "insert") /\ UNCHANGED newest
       [] account[p] # "none" /\ Differs(account[p], n) ->
            Goto(t, "flag") /\ UNCHANGED newest
       [] OTHER -> Goto(t, "session") /\ Decides(p, n)
  /\ UNCHANGED <<db, fromGroup, browser, faults, crossed, ended>>

(* Any error of the lookup is taken for an account that does not exist.     *)
SelectFails(t) ==
  /\ Fault
  /\ tab[t].at = "select"
  /\ Goto(t, "insert")
  /\ UNCHANGED <<db, fromGroup, browser, history>>

Insert(t) ==
  LET p == tab[t].whom
      n == tab[t].n
  IN
  /\ tab[t].at = "insert"
  /\ account[p] = "none"
  /\ account' = [account EXCEPT ![p] = "plain"]
  /\ IF Differs("plain", n) THEN Goto(t, "flag") /\ UNCHANGED newest
     ELSE Goto(t, "session") /\ Decides(p, n)
  /\ UNCHANGED <<logins, subject, claim, sess, fromGroup, browser, faults, crossed, ended>>

(* The subject is unique: the login is refused.                             *)
InsertRefused(t) ==
  /\ tab[t].at = "insert"
  /\ account[tab[t].whom] # "none"
  /\ Answered(t)
  /\ UNCHANGED <<db, fromGroup, browser, faults, history>>

(* Mutant: a login grants the rights and does not take them away. *)
FlagGrantsOnly(t) ==
  LET p == tab[t].whom
      n == tab[t].n
  IN
  /\ tab[t].at = "flag"
  /\ SetUserAdmin(p, claim[n] \/ account[p] = "admin", t, [tab[t] EXCEPT !.at = "session"])
  /\ Decides(p, n)
  /\ UNCHANGED <<logins, subject, claim, sess, fromGroup, browser, faults, crossed, ended>>

Flag(t) ==
  LET p == tab[t].whom
      n == tab[t].n
  IN
  /\ tab[t].at = "flag"
  /\ SetUserAdmin(p, claim[n], t, [tab[t] EXCEPT !.at = "session"])
  /\ Decides(p, n)
  /\ UNCHANGED <<logins, subject, claim, sess, fromGroup, browser, faults, crossed, ended>>

(* Manager.Create and SetCookie.                                            *)
CreateSession(t) ==
  /\ tab[t].at = "session"
  /\ sess' = sess \union {tab[t].n}
  /\ SetCookie(t, tab[t].n)
  /\ Answered(t)
  /\ UNCHANGED <<account, logins, subject, claim, fromGroup, jar, shared, faults, history>>

(* Any other failure ends the login with an error page.                     *)
LoginFails(t) ==
  /\ Fault
  /\ tab[t].at \in {"idp", "insert", "flag", "session"}
  /\ jar' = jar \ {t}
  /\ Answered(t)
  /\ UNCHANGED <<db, fromGroup, cookie, shared, history>>

-----------------------------------------------------------------------------
(* Requests with a session. *)

Arrives(t, op, q) ==
  /\ tab[t].at = "idle" /\ cookie[t] # NoLogin
  /\ Become(t, [Idle EXCEPT !.at = "get", !.op = op, !.n = cookie[t], !.whom = q,
                            !.was = account[subject[cookie[t]]] = "admin"])
  /\ UNCHANGED <<db, fromGroup, browser, faults, history>>

(* The panel offers to promote whoever is no admin, and a button to remove  *)
(* every admin but the one it is rendered for. But a page may be of any     *)
(* age, may have been rendered for the browser's previous account, and      *)
(* without a session is rendered for nobody: any account may be named.      *)
SubmitForm(t, op, q) ==
  /\ op \in {"grant", "revoke"} /\ account[q] # "none"
  /\ Arrives(t, op, q)

SignOut(t) == Arrives(t, "logout", Nobody)

(* What a handler does without a session: at the gate the request ends,     *)
(* later on the handler goes on without knowing who acts.                   *)
WithoutSession(t) ==
  \/ /\ tab[t].at \in {"get", "load"}
     /\ Answered(t)
     /\ IF tab[t].op = "logout" THEN SetCookie(t, NoLogin) ELSE UNCHANGED cookie
  \/ /\ tab[t].at = "actor"
     /\ Become(t, [tab[t] EXCEPT !.at = "write", !.blind = TRUE])
     /\ UNCHANGED cookie

(* Manager.Get: the session, then its account. An expired one is no         *)
(* session.                                                                 *)
GetNone(t) ==
  /\ tab[t].at \in {"get", "actor"}
  /\ tab[t].n \notin sess
  /\ WithoutSession(t)
  /\ UNCHANGED <<db, fromGroup, jar, shared, faults, history>>

GetFails(t) ==
  /\ Fault
  /\ tab[t].at \in {"get", "load", "actor"}
  /\ WithoutSession(t)
  /\ UNCHANGED <<db, fromGroup, jar, shared, history>>

GetSession(t) ==
  /\ tab[t].at = "get"
  /\ tab[t].n \in sess
  /\ Goto(t, IF tab[t].op = "logout" THEN "delete" ELSE "load")
  /\ UNCHANGED <<db, fromGroup, browser, faults, history>>

(* Middleware lets those in whose account, loaded afresh, says they are     *)
(* admins. refuseWhenGroupManaged turns both forms away.                    *)
(* Mutant: whoever has a session is let in. *)
LoadUserUnchecked(t) ==
  /\ tab[t].at = "load"
  /\ IF fromGroup THEN Answered(t) ELSE Goto(t, "find")
  /\ UNCHANGED <<db, fromGroup, browser, faults, history>>

LoadUser(t) ==
  /\ tab[t].at = "load"
  /\ IF fromGroup \/ account[subject[tab[t].n]] # "admin" THEN Answered(t) ELSE Goto(t, "find")
  /\ UNCHANGED <<db, fromGroup, browser, faults, history>>

(* accountFromForm: the account the form names is looked up.                *)
AccountFromForm(t) ==
  /\ tab[t].at = "find"
  /\ Goto(t, IF tab[t].op = "grant" THEN "write" ELSE "actor")
  /\ UNCHANGED <<db, fromGroup, browser, faults, history>>

(* Any error of the lookup is taken for an account that is not known.       *)
AccountFromFormFails(t) ==
  /\ Fault
  /\ tab[t].at = "find"
  /\ Answered(t)
  /\ UNCHANGED <<db, fromGroup, browser, history>>

(* RevokeAdmin asks who acts: nobody removes their own rights.              *)
(* Mutant: it relies on the page. *)
ActorUnasked(t) ==
  /\ tab[t].at = "actor"
  /\ tab[t].n \in sess
  /\ Goto(t, "write")
  /\ UNCHANGED <<db, fromGroup, browser, faults, history>>

Actor(t) ==
  /\ tab[t].at = "actor"
  /\ tab[t].n \in sess
  /\ IF tab[t].whom = subject[tab[t].n] THEN Answered(t) ELSE Goto(t, "write")
  /\ UNCHANGED <<db, fromGroup, browser, faults, history>>

(* GrantAdmin and RevokeAdmin.                                              *)
Write(t) ==
  /\ tab[t].at = "write"
  /\ SetUserAdmin(tab[t].whom, tab[t].op = "grant", t, Idle)
  /\ UNCHANGED <<logins, subject, claim, sess, fromGroup, browser, faults, history>>

WriteFails(t) ==
  /\ Fault
  /\ tab[t].at = "write"
  /\ Answered(t)
  /\ UNCHANGED <<db, fromGroup, browser, history>>

(* Logout: the cookie goes also when the session could not be deleted.      *)
DeleteSession(t) ==
  /\ tab[t].at = "delete"
  /\ \/ sess' = sess \ {tab[t].n} /\ UNCHANGED faults
     \/ Fault /\ UNCHANGED sess
  /\ SetCookie(t, NoLogin)
  /\ Answered(t)
  /\ UNCHANGED <<account, logins, subject, claim, fromGroup, jar, shared, history>>

-----------------------------------------------------------------------------
(* The identity provider, the clock, the command line, the process. *)

LoginsOf(p) == {n \in Logins : subject[n] = p}
Flying == {tab[t].n : t \in {u \in Tabs : InFlight(u)}}

(* BackchannelLogout with a valid logout token for p, as often as it comes. *)
(* Mutant: only the newest session goes. *)
BackchannelLogoutOne(p) ==
  LET gone == {n \in LoginsOf(p) : \A m \in LoginsOf(p) : m <= n} IN
  /\ sess' = sess \ gone
  /\ ended' = ended \union (LoginsOf(p) \ Flying)
  /\ UNCHANGED <<account, logins, subject, claim, fromGroup, tab, browser, faults, crossed, newest>>

BackchannelLogout(p) ==
  /\ sess' = sess \ LoginsOf(p)
  /\ ended' = ended \union (LoginsOf(p) \ Flying)
  /\ UNCHANGED <<account, logins, subject, claim, fromGroup, tab, browser, faults, crossed, newest>>

(* The portal answers 200 also when the statement fails, so that the        *)
(* provider has no reason to come again.                                    *)
BackchannelLogoutFails(p) ==
  /\ Fault
  /\ UNCHANGED <<db, fromGroup, tab, browser, history>>

(* A session's time is up. Its row stays until the next request, the hourly *)
(* DeleteExpiredSessions or the next start removes it.                      *)
Expire(n) ==
  /\ n \in sess
  /\ sess' = sess \ {n}
  /\ UNCHANGED <<account, logins, subject, claim, fromGroup, tab, browser, faults, history>>

(* keyosk -make-admin, whose lookup only names the account. It refuses when *)
(* the login system decides.                                                *)
MakeAdmin(p) ==
  /\ ~fromGroup
  /\ account[p] = "plain"
  /\ account' = [account EXCEPT ![p] = "admin"]
  /\ tab' = Promoted(tab, p)
  /\ UNCHANGED <<logins, subject, claim, sess, fromGroup, browser, faults, history>>

(* The requests are cut off where they are. The flags stay as they are also *)
(* when ADMIN_GROUP is set or unset, and no longer follow earlier claims.   *)
Restart ==
  /\ Fault
  /\ fromGroup' \in BOOLEAN
  /\ tab' = [t \in Tabs |-> Idle]
  /\ jar' = {}
  /\ newest' = IF fromGroup' = fromGroup THEN newest ELSE [p \in People |-> 0]
  /\ UNCHANGED <<db, cookie, shared, crossed, ended>>

-----------------------------------------------------------------------------
LoginStep(t) ==
  \/ \E p \in People, address \in Addresses, rewritten \in BOOLEAN :
       LoginHandler(t, p, address, rewritten)
  \/ LoginAfterDetour(t) \/ Lapse(t) \/ CallbackRefused(t)
  \/ \E shape \in Shapes : HandleCallback(t, shape)
  \/ Select(t) \/ SelectFails(t) \/ Insert(t) \/ InsertRefused(t)
  \/ Flag(t) \/ CreateSession(t) \/ LoginFails(t)

SessionStep(t) ==
  \/ SignOut(t)
  \/ \E op \in {"grant", "revoke"}, q \in People : SubmitForm(t, op, q)
  \/ GetNone(t) \/ GetFails(t) \/ GetSession(t) \/ LoadUser(t)
  \/ AccountFromForm(t) \/ AccountFromFormFails(t) \/ Actor(t)
  \/ Write(t) \/ WriteFails(t) \/ DeleteSession(t)

Next == \/ \E t \in Tabs : LoginStep(t) \/ SessionStep(t)
        \/ \E p \in People : \/ BackchannelLogout(p) \/ BackchannelLogoutFails(p)
                             \/ MakeAdmin(p)
        \/ \E n \in Logins : Expire(n)
        \/ Restart

Spec == Init /\ [][Next]_vars

-----------------------------------------------------------------------------
(* "An admin can remove any other admin but not themselves, so the panel    *)
(* can never be left with nobody in charge by accident"                     *)
(* (docs/content/administrators.md): where the panel manages admins, no     *)
(* step takes away the last one. Only the run sign_in_alone checks it, with *)
(* nothing failing and no session ending during a removal.                  *)
SomeoneInCharge == [][~fromGroup /\ Admins # {} => Admins' # {}]_vars

(* What is left of it: the last admin goes only by a removal that crossed   *)
(* the removal of the one who makes it, or whose handler no longer found    *)
(* the session and so could not tell who acts. A removal that crosses none, *)
(* from a page of whatever age, leaves somebody in charge.                  *)
LastRemovalIsCrossed ==
  [][~fromGroup /\ Admins # {} /\ Admins' = {}
       => \E t \in Tabs : /\ tab[t].at = "write" /\ tab[t].op = "revoke"
                          /\ \/ subject[tab[t].n] \notin Admins
                             \/ tab[t].blind]_vars

(* "A removal takes effect on the person's next request": whoever is about  *)
(* to change rights has been an admin since the request arrived.            *)
OnlyAdminsWrite == \A t \in Tabs : tab[t].at = "write" => tab[t].was

(* Where the login system decides, the flag is what the newest ID token     *)
(* said that reached the account, unless two logins of the person ran at    *)
(* the same time and the older one came last.                               *)
FlagFollowsClaim ==
  \A p \in People :
    fromGroup /\ newest[p] # 0 /\ newest[p] \notin crossed
      => (account[p] = "admin") = claim[newest[p]]

(* "To cut someone off at once, end their session in the IdP as well;       *)
(* Keyosk honours back-channel logout": whichever tabs and browsers a       *)
(* person is signed in with, no session from before a logout that reached   *)
(* the database is valid again. Logins in flight at that moment are         *)
(* another matter, and create their session afterwards.                     *)
CutOff == sess \cap ended = {}

(* Whatever address the portal is opened by, whatever the proxy makes of    *)
(* it and whichever logins the browser has under way: the callback finds    *)
(* its state cookie, unless the login took longer than that lasts.          *)
CallbackFindsState ==
  \A t \in Tabs : tab[t].at = "idp" /\ t \notin jar => tab[t].lapsed

(* A person is refused as a duplicate only when another login of theirs     *)
(* created the account meanwhile, or after a lookup that failed.            *)
RefusedOnlyForRival ==
  \A t \in Tabs :
    tab[t].at = "insert" /\ account[tab[t].whom] # "none"
      => tab[t].n \in crossed \/ faults > 0

-----------------------------------------------------------------------------
(* Why these hold. *)
LoginAts == {"login", "idp", "select", "insert", "flag", "session"}
FormAts == {"get", "load", "find", "actor", "write"}

(* What a request at some place carries.                                    *)
Carries ==
  \A t \in Tabs :
    LET r == tab[t] IN
    /\ r.at \in LoginAts => r.op = "login" /\ r.whom \in People
    /\ r.at \in {"idle", "login", "idp"} => r.n = NoLogin
    /\ r.at \notin {"idle", "login", "idp"} => r.n \in Issued
    /\ r.at \in {"load", "find", "actor", "write"} => r.op \in {"grant", "revoke"}
    /\ r.at \in {"find", "actor", "write"} => ~fromGroup
    /\ r.at = "actor" => r.op = "revoke"
    /\ r.at = "get" => r.op \in {"grant", "revoke", "logout"}
    /\ r.at \in FormAts /\ r.op # "logout" => r.whom \in People /\ account[r.whom] # "none"
    /\ InFlight(t) => subject[r.n] = r.whom
    /\ r.at = "flag" => fromGroup

(* A token has one login, whose session, cookie and requests come after it. *)
OneLogin ==
  /\ \A n \in Logins : subject[n] \in People <=> n \in Issued
  /\ \A t, u \in Tabs : InFlight(t) /\ tab[u].n = tab[t].n => t = u
  /\ \A t \in Tabs : InFlight(t) => /\ tab[t].n \notin sess \union ended
                                   /\ \A u \in Tabs : cookie[u] # tab[t].n
  /\ sess \union ended \subseteq Issued
  /\ \A t \in Tabs : cookie[t] # NoLogin => cookie[t] \in Issued

(* Two logins of a person that overlap are both marked.                     *)
Overlapping ==
  \A t \in Tabs, n \in Issued :
    InFlight(t) /\ tab[t].n < n /\ subject[n] = tab[t].whom
      => {tab[t].n, n} \subseteq crossed

(* The token the flag follows reached an account that exists.               *)
Followed ==
  \A p \in People :
    newest[p] # 0 => /\ fromGroup /\ account[p] # "none"
                     /\ newest[p] \in Issued /\ subject[newest[p]] = p

(* Whoever is an admin has been one since the request arrived, and removes  *)
(* themselves only if the handler could not tell.                           *)
Gated ==
  \A t \in Tabs :
    LET r == tab[t] IN
    /\ r.at \in FormAts /\ account[subject[r.n]] = "admin" => r.was
    /\ r.at \in {"find", "actor", "write"} => r.was
    /\ r.at = "write" /\ r.op = "revoke" /\ ~r.blind => r.whom # subject[r.n]

IInv == /\ TypeOK /\ Carries /\ OneLogin /\ Overlapping /\ Followed /\ Gated
        /\ OnlyAdminsWrite /\ FlagFollowsClaim /\ CutOff
        /\ CallbackFindsState /\ RefusedOnlyForRival
=============================================================================
