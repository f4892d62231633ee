-------------------------------- MODULE Quota ---------------------------------
(***************************************************************************)
(* Allowances from the profile form to the dashboard: which rows of the    *)
(* form become windows, how they are split between a key and its owner in  *)
(* the gateway, what the gateway counts against them and what the          *)
(* dashboard makes of its figures.                                         *)
(*                                                                         *)
(* One person, their key and their profile. How pushes interleave is the   *)
(* business of LimitSync; here one task at a time changes the gateway, one *)
(* call after the other, and may fail in between. A null budget of the     *)
(* gateway is 0, a null period NoPeriod. A list of windows is a function   *)
(* from the numbers of the form's rows they come from. The audit row of a  *)
(* save, an insert of its own after the commit that nothing here reads to  *)
(* decide anything, is left out.                                           *)
(***************************************************************************)
EXTENDS Integers, Sequences, Functions

CONSTANTS Forms,       \* the quota rows an administrator may post
          MaxCost,     \* the most a single request costs
          MaxSpend,    \* bound on what is spent within a period
          MaxEdits,    \* bound on saves of the profile
          MaxFaults    \* bound on failing calls

ASSUME QuotaAssumption == /\ Forms \subseteq Seq([kind : {"blank", "malformed", "number"},
                                                  amount : Int, period : STRING])
                          /\ MaxCost \in Nat \ {0} /\ MaxSpend \in Nat
                          /\ MaxEdits \in Nat /\ MaxFaults \in Nat

VARIABLES quotas,    \* the profile's windows
          task,      \* the push or generation under way
          user,      \* the gateway's record of the person
          key,       \* the gateway's record of their key
          edits, faults, \* how much of MaxEdits and MaxFaults is used up
          spent,     \* history: the person's requests since the boundary steady is about
          done,      \* history: the last task went through, and none is under way
          steady     \* history: the allowance is as it was at its last period's boundary

vars == <<quotas, task, user, key, edits, faults, spent, done, steady>>

-----------------------------------------------------------------------------
(* Windows. *)
ValidQuotaPeriods == {"1h", "24h", "7d", "30d"}
NoPeriod == ""
IsValidQuotaPeriod(p) == p = NoPeriod \/ p \in ValidQuotaPeriods
Periods == ValidQuotaPeriods

periodRank(p) == CASE p = "1h" -> 1 [] p = "24h" -> 2 [] p = "7d" -> 3 [] p = "30d" -> 4
                   [] OTHER -> 0
periodHours == [p \in Periods |->
                  CASE p = "1h" -> 1 [] p = "24h" -> 24 [] p = "7d" -> 168 [] OTHER -> 720]

(* effectiveWindows: rows that set no limit are not windows.                *)
effectiveWindows(ws) ==
  Restrict(ws, {i \in DOMAIN ws : ws[i].budget > 0 /\ ws[i].period # NoPeriod})

(* WidestWindow: the first of the longest period goes to the owner, the     *)
(* others stay with the key.                                                *)
WidestAt(ws) ==
  CHOOSE i \in DOMAIN ws : \A j \in DOMAIN ws :
    /\ periodRank(ws[j].period) <= periodRank(ws[i].period)
    /\ j < i => periodRank(ws[j].period) < periodRank(ws[i].period)

NoWindow == [budget |-> 0, period |-> NoPeriod]
NoWindows == <<>>
Widest(ws) == IF DOMAIN ws = {} THEN NoWindow ELSE ws[WidestAt(ws)]
Rest(ws) == Restrict(ws, {i \in DOMAIN ws : i # WidestAt(ws)})

-----------------------------------------------------------------------------
(* The form. A row's amount is blank, not a number, or a number.            *)
Invalid == <<NoWindow>>

(* checkWindowsBind: a shorter window may not allow more than a longer one. *)
(* Mutant: the comparison is the wrong way round. *)
checkWindowsReversed(ws) ==
  \A i, j \in DOMAIN ws :
    periodHours[ws[i].period] < periodHours[ws[j].period] => ws[i].budget >= ws[j].budget

checkWindowsBind(ws) ==
  \A i, j \in DOMAIN ws :
    periodHours[ws[i].period] < periodHours[ws[j].period] => ws[i].budget <= ws[j].budget

(* parseQuotaWindows: blank rows and amounts of zero or less are dropped,   *)
(* anything else that is no window of its own period refuses the form.      *)
parseQuotaWindows(form) ==
  LET kept == {i \in DOMAIN form : form[i].kind = "number" /\ form[i].amount > 0}
      ws == [i \in kept |-> [budget |-> form[i].amount, period |-> form[i].period]]
  IN IF \/ \E i \in DOMAIN form : form[i].kind = "malformed"
        \/ \E i \in DOMAIN ws : ~IsValidQuotaPeriod(ws[i].period) \/ ws[i].period = NoPeriod
        \/ \E i, j \in DOMAIN ws : i # j /\ ws[i].period = ws[j].period
        \/ ~checkWindowsBind(ws)
     THEN Invalid ELSE ws

Saved == {parseQuotaWindows(form) : form \in Forms} \ {Invalid}

-----------------------------------------------------------------------------
Budgets == {w.budget : w \in UNION {Range(ws) : ws \in Saved}} \union {0}
Users == [there : BOOLEAN, max : Budgets, period : Periods \union {NoPeriod}, spend : 0..MaxSpend]
Keys == [there : BOOLEAN, bound : BOOLEAN, max : Budgets, period : Periods \union {NoPeriod},
         limits : {NoWindows} \union UNION {{ws, Rest(ws)} : ws \in Saved},
         spend : 0..MaxSpend, used : [Periods -> 0..MaxSpend]]
Tasks == [at : {"none", "owner", "key"}, op : {"push", "generate"}, ws : Saved]

TypeOK == /\ quotas \in Saved
          /\ task \in Tasks
          /\ user \in Users /\ key \in Keys
          /\ edits \in 0..MaxEdits /\ faults \in 0..MaxFaults
          /\ spent \in 0..MaxSpend
          /\ done \in BOOLEAN /\ steady \in BOOLEAN

NoUser == [there |-> FALSE, max |-> 0, period |-> NoPeriod, spend |-> 0]
Nothing == [p \in Periods |-> 0]
NoKey == [there |-> FALSE, bound |-> FALSE, max |-> 0, period |-> NoPeriod,
          limits |-> NoWindows, spend |-> 0, used |-> Nothing]

(* The two shapes a key keeps its windows in: the flat pair for one, the    *)
(* budget_limits for several. toKeyParams for a new key.                    *)
Single(ws) == \E i \in DOMAIN ws : DOMAIN ws = {i}
Only(ws) == ws[CHOOSE i \in DOMAIN ws : TRUE]
Flat(ws) == IF Single(ws) THEN Only(ws) ELSE NoWindow
Several(ws) == IF Single(ws) THEN NoWindows ELSE ws

Shaped(k, ws) == [k EXCEPT !.max = Flat(ws).budget, !.period = Flat(ws).period,
                           !.limits = Several(ws)]

(* No key yet, or one issued before the portal tracked owners, with all the *)
(* windows on it.                                                           *)
Init == /\ quotas \in Saved
        /\ user = NoUser
        /\ key \in {NoKey, Shaped([NoKey EXCEPT !.there = TRUE], effectiveWindows(quotas))}
        /\ task = [at |-> "none", op |-> "push", ws |-> quotas]
        /\ edits = 0 /\ faults = 0
        /\ spent = 0
        /\ done = FALSE /\ steady = FALSE

-----------------------------------------------------------------------------
Fault == faults < MaxFaults /\ faults' = faults + 1

(* UpdateProfile with a form that parses: the transaction of the store.     *)
Save(ws) ==
  /\ edits < MaxEdits /\ edits' = edits + 1
  /\ ws \in Saved
  /\ quotas' = ws
  /\ UNCHANGED <<task, user, key, faults, spent, done, steady>>

(* A push of the limits of the key there is, or a generation, with the      *)
(* windows the profile has at that moment.                                  *)
Begin(op) ==
  /\ task.at = "none"
  /\ op = "push" => key.there
  /\ task' = [at |-> "owner", op |-> op, ws |-> quotas]
  /\ done' = FALSE
  /\ UNCHANGED <<quotas, user, key, edits, faults, spent, steady>>

(* UpsertUser: /user/new, and /user/update for a user there already. Both   *)
(* fields of the budget are always sent, null without one.                  *)
UpsertUser ==
  LET w == Widest(effectiveWindows(task.ws)) IN
  /\ task.at = "owner"
  /\ user' = [user EXCEPT !.there = TRUE, !.max = w.budget, !.period = w.period]
  /\ task' = [task EXCEPT !.at = "key"]
  /\ steady' = (steady /\ w.budget = user.max /\ w.period = user.period)
  /\ spent' = IF steady' THEN spent ELSE 0
  /\ UNCHANGED <<quotas, key, edits, faults, done>>

(* UpdateKeyLimits. Both shapes are always sent, the one not used as null,  *)
(* and the owner with them. A window that is new to the key starts at zero. *)
(* Mutant: the shape not used is left out, and stays. *)
UpdateKeyLimitsOmitting ==
  LET ws == Rest(effectiveWindows(task.ws)) IN
  /\ task.at = "key" /\ task.op = "push"
  /\ key' = IF Single(ws) THEN [key EXCEPT !.bound = TRUE, !.max = Only(ws).budget,
                                            !.period = Only(ws).period]
             ELSE [key EXCEPT !.bound = TRUE, !.limits = ws]
  /\ task' = [task EXCEPT !.at = "none"]
  /\ done' = TRUE
  /\ UNCHANGED <<quotas, user, edits, faults, spent, steady>>

UpdateKeyLimits ==
  LET ws == Rest(effectiveWindows(task.ws))
      held == {key.limits[i].period : i \in DOMAIN key.limits}
  IN
  /\ task.at = "key" /\ task.op = "push"
  /\ key' = Shaped([key EXCEPT !.bound = TRUE,
                               !.used = [p \in Periods |-> IF p \in held THEN @[p] ELSE 0]],
                   ws)
  /\ task' = [task EXCEPT !.at = "none"]
  /\ done' = TRUE
  /\ UNCHANGED <<quotas, user, edits, faults, spent, steady>>

(* CreateKey: a new key with the windows that are not the owner's and       *)
(* nothing counted against them. The key it replaces is deleted.            *)
(* Mutant: the key gets all the windows and no owner. *)
CreateKeyOwnerless ==
  /\ task.at = "key" /\ task.op = "generate"
  /\ key' = Shaped([NoKey EXCEPT !.there = TRUE], effectiveWindows(task.ws))
  /\ task' = [task EXCEPT !.at = "none"]
  /\ done' = TRUE
  /\ UNCHANGED <<quotas, user, edits, faults, spent, steady>>

CreateKey ==
  LET ws == Rest(effectiveWindows(task.ws)) IN
  /\ task.at = "key" /\ task.op = "generate"
  /\ key' = Shaped([NoKey EXCEPT !.there = TRUE, !.bound = TRUE], ws)
  /\ task' = [task EXCEPT !.at = "none"]
  /\ done' = TRUE
  /\ UNCHANGED <<quotas, user, edits, faults, spent, steady>>

(* A call fails: an allowance already given to the owner stays.             *)
TaskFails ==
  /\ Fault
  /\ task.at # "none"
  /\ task' = [task EXCEPT !.at = "none"]
  /\ UNCHANGED <<quotas, user, key, edits, spent, done, steady>>

(* DeleteKey. The owner keeps the allowance and what is counted against it. *)
DeleteKey ==
  /\ task.at = "none" /\ key.there
  /\ key' = NoKey
  /\ UNCHANGED <<quotas, task, user, edits, faults, spent, done, steady>>

-----------------------------------------------------------------------------
(* The gateway: it refuses a request when any window is used up, and counts *)
(* what it lets through in full, also what goes beyond the rest of one.     *)
OwnerRefuses == key.bound /\ user.max > 0 /\ user.spend >= user.max
KeyRefuses == \/ key.max > 0 /\ key.spend >= key.max
              \/ \E i \in DOMAIN key.limits :
                   key.used[key.limits[i].period] >= key.limits[i].budget
Refuses == OwnerRefuses \/ KeyRefuses

Spend(c) ==
  /\ key.there /\ ~Refuses
  /\ \A n \in {spent, key.spend, user.spend} : n + c <= MaxSpend
  /\ user' = IF key.bound THEN [user EXCEPT !.spend = @ + c] ELSE user
  /\ key' = [key EXCEPT !.spend = @ + c,
               !.used = [p \in Periods |->
                           IF \E i \in DOMAIN key.limits : key.limits[i].period = p
                             THEN @[p] + c ELSE @[p]]]
  /\ spent' = IF steady THEN spent + c ELSE 0
  /\ UNCHANGED <<quotas, task, edits, faults, done, steady>>

(* The end of a period, which ends the shorter ones too.                    *)
Boundary(p) ==
  LET over(q) == q # NoPeriod /\ periodRank(q) <= periodRank(p) IN
  /\ user' = IF over(user.period) THEN [user EXCEPT !.spend = 0] ELSE user
  /\ key' = [key EXCEPT !.spend = IF over(key.period) THEN 0 ELSE @,
                        !.used = [q \in Periods |-> IF over(q) THEN 0 ELSE @[q]]]
  /\ spent' = IF over(user.period) THEN 0 ELSE spent
  /\ steady' = (steady \/ (user.there /\ over(user.period) /\ (key.there => key.bound)))
  /\ UNCHANGED <<quotas, task, edits, faults, done>>

-----------------------------------------------------------------------------
Next == \/ \E ws \in Saved : Save(ws)
        \/ \E op \in {"push", "generate"} : Begin(op)
        \/ UpsertUser \/ UpdateKeyLimits \/ CreateKey \/ TaskFails \/ DeleteKey
        \/ \E c \in 1..MaxCost : Spend(c)
        \/ \E p \in Periods : Boundary(p)

Spec == Init /\ [][Next]_vars

-----------------------------------------------------------------------------
(* The dashboard. reported: the windows of the key the gateway gives a      *)
(* figure for.                                                              *)
Reading(p, limit, used, known) ==
  [period |-> p, limit |-> limit, used |-> used, known |-> known]

keyWindows(reported) ==
  IF DOMAIN key.limits # {}
    THEN {LET p == w.period
          IN Reading(p, w.budget, IF p \in reported THEN key.used[p] ELSE 0, p \in reported) :
            w \in Range(key.limits)}
    ELSE IF key.max # 0 /\ key.period # NoPeriod
           THEN {Reading(key.period, key.max, key.spend, TRUE)} ELSE {}

userWindow == IF user.there /\ user.max # 0 /\ user.period # NoPeriod
                THEN {Reading(user.period, user.max, user.spend, TRUE)} ELSE {}

(* Windows: the key's and the owner's, whose order on the page is left out. *)
(* quotaWindows shows none of them when the figure of one is missing.       *)
Windows(reported) == keyWindows(reported) \union userWindow

quotaWindows(reported) ==
  IF \A w \in Windows(reported) : w.known THEN Windows(reported) ELSE {}

quotaPct(used, limit) ==
  IF limit <= 0 THEN 0 ELSE IF used >= limit THEN 100 ELSE (used * 100) \div limit

(* bindingWindow: one with the highest percentage.                          *)
(* Mutant: the headline is the widest window's. *)
bindingWidest(ws) ==
  CHOOSE v \in ws : \A w \in ws : periodRank(w.period) <= periodRank(v.period)

bindingWindow(ws) ==
  CHOOSE v \in ws : \A w \in ws : quotaPct(w.used, w.limit) <= quotaPct(v.used, v.limit)

(* Provider.Quota: the owner's allowance, or else the key's flat pair.      *)
Quota == IF user.there /\ user.max > 0 THEN quotaPct(user.spend, user.max)
         ELSE quotaPct(key.spend, key.max)

Headline(reported) ==
  LET ws == quotaWindows(reported)
      w == bindingWindow(ws)
  IN IF ws = {} THEN Quota ELSE quotaPct(w.used, w.limit)

-----------------------------------------------------------------------------
(* Once a push or a generation went through, every window of the profile it *)
(* was for is enforced in exactly one place, on the owner or in one of the  *)
(* key's two shapes, and nothing else is enforced: no window is lost in the *)
(* split, none is left from an earlier profile. (Between the two calls, and *)
(* after one that failed, the windows of the key may be enforced nowhere.)  *)
OwnerWindow == [budget |-> user.max, period |-> user.period]
KeyWindow == [budget |-> key.max, period |-> key.period]
Enforced == {w \in {OwnerWindow, KeyWindow} \union Range(key.limits) : w.budget > 0}

Places(w) == (IF key.bound /\ w = OwnerWindow THEN {<<"owner", 0>>} ELSE {})
             \union (IF w = KeyWindow THEN {<<"key", 0>>} ELSE {})
             \union {<<"limits", i>> : i \in {j \in DOMAIN key.limits : key.limits[j] = w}}

EachOnce ==
  done /\ key.there =>
    /\ Enforced = Range(task.ws)
    /\ \A w \in Enforced : \E x \in Places(w) : Places(w) = {x}

(* Issue #26: a new key does not start the allowance over. However often    *)
(* the key is replaced or deleted, within a period of the widest window no  *)
(* more is spent than its budget and the rest of the request that used it   *)
(* up, as long as the allowance stays the one of the period's boundary.     *)
RotationGainsNothing ==
  steady => spent < user.max + MaxCost

(* "The headline should name the window that binds": it says 100% only when *)
(* the gateway would refuse the next request, and always then, unless the   *)
(* gateway gave no figure for one of the key's windows.                     *)
HeadlineIsHonest ==
  key.there =>
    /\ \A reported \in SUBSET Periods : Headline(reported) = 100 => Refuses
    /\ Refuses => Headline(Periods) = 100

(* A window the form accepts can take effect: there is a way to use it up   *)
(* without going beyond a longer one.                                       *)
AcceptedCanBind ==
  \A w \in Range(quotas) :
    \E use \in [Periods -> 0..w.budget] :
      /\ \A p, q \in Periods : periodRank(p) <= periodRank(q) => use[p] <= use[q]
      /\ use[w.period] = w.budget
      /\ \A v \in Range(quotas) :
           use[v.period] <= v.budget \/ periodRank(v.period) < periodRank(w.period)

-----------------------------------------------------------------------------
(* Why these hold. *)

(* A budget is one with its period, of a user who is there. Nothing is      *)
(* counted against the owner of a key from before owners were tracked, and  *)
(* no window of a key counts more than the key.                             *)
OwnerShape ==
  /\ user.max > 0 <=> user.period # NoPeriod
  /\ user.max > 0 => user.there
  /\ key.there /\ ~key.bound => user.spend = 0

KeyShape ==
  /\ key.max > 0 <=> key.period # NoPeriod
  /\ key.max > 0 => DOMAIN key.limits = {}
  /\ \A i \in DOMAIN key.limits : key.used[key.limits[i].period] <= key.spend

(* What a push or a generation has brought about so far.                    *)
Settled ==
  LET ws == effectiveWindows(task.ws) IN
  /\ done => task.at = "none"
  /\ task.at = "key" \/ done => user.there /\ OwnerWindow = Widest(ws)
  /\ done /\ key.there => /\ key.bound
                         /\ KeyWindow = Flat(Rest(ws))
                         /\ key.limits = Several(Rest(ws))

(* While the allowance is steady, all that is spent is the owner's.         *)
SteadyOwner ==
  steady => /\ user.there /\ user.period # NoPeriod /\ user.spend = spent
            /\ key.there => key.bound

IInv == /\ TypeOK /\ AcceptedCanBind
        /\ OwnerShape /\ KeyShape /\ Settled /\ SteadyOwner /\ RotationGainsNothing
=============================================================================
