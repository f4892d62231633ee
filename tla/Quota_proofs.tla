----------------------------- MODULE Quota_proofs -----------------------------
(***************************************************************************)
(* Theorems about Quota, for any forms, costs, bounds, edits and failures. *)
(***************************************************************************)
EXTENDS Quota, WellFoundedInduction, NaturalsInduction, TLAPS

-----------------------------------------------------------------------------
(* What a saved profile is. *)

LEMMA PeriodsAre ==
  /\ Periods = {"1h", "24h", "7d", "30d"} /\ NoPeriod \notin Periods
  /\ \A p \in Periods : periodRank(p) \in 1..4 /\ periodHours[p] \in Nat
  /\ \A p, q \in Periods : periodRank(p) = periodRank(q) => p = q
  /\ \A p, q \in Periods : periodRank(p) < periodRank(q) <=> periodHours[p] < periodHours[q]
  /\ periodRank("1h") = 1 /\ periodRank("24h") = 2 /\ periodRank("7d") = 3 /\ periodRank("30d") = 4
<1>1. Periods = {"1h", "24h", "7d", "30d"} /\ NoPeriod \notin Periods
  BY DEF Periods, ValidQuotaPeriods, NoPeriod
<1>2. periodRank("1h") = 1 /\ periodRank("24h") = 2 /\ periodRank("7d") = 3 /\ periodRank("30d") = 4
  BY DEF periodRank
<1>3. /\ periodHours["1h"] = 1 /\ periodHours["24h"] = 24
      /\ periodHours["7d"] = 168 /\ periodHours["30d"] = 720
  BY <1>1 DEF periodHours
<1>4. /\ \A p \in Periods : periodRank(p) \in 1..4 /\ periodHours[p] \in Nat
      /\ \A p, q \in Periods : periodRank(p) = periodRank(q) => p = q
  BY <1>1, <1>2, <1>3
<1>5. \A p, q \in Periods : periodRank(p) < periodRank(q) <=> periodHours[p] < periodHours[q]
  BY <1>1, <1>2, <1>3
<1>. QED
  BY <1>1, <1>2, <1>4, <1>5

SavedWindows == [budget : Nat \ {0}, period : Periods]

LEMMA SavedIs ==
  ASSUME NEW ws \in Saved
  PROVE  /\ ws = [i \in DOMAIN ws |-> ws[i]]
         /\ \A i \in DOMAIN ws : ws[i] \in SavedWindows /\ i \in Nat
         /\ \A i, j \in DOMAIN ws : ws[i].period = ws[j].period => i = j
         /\ checkWindowsBind(ws)
<1>. DEFINE Row == [kind : {"blank", "malformed", "number"}, amount : Int, period : STRING]
<1>1. PICK form \in Forms : ws = parseQuotaWindows(form) /\ ws # Invalid
  BY DEF Saved
<1>2. form \in Seq(Row)
  BY QuotaAssumption
<1>3. PICK kept : kept = {i \in DOMAIN form : form[i].kind = "number" /\ form[i].amount > 0}
  OBVIOUS
<1>4. PICK vs : vs = [i \in kept |-> [budget |-> form[i].amount, period |-> form[i].period]]
  OBVIOUS
<1>5. DOMAIN vs = kept /\ vs = [i \in DOMAIN vs |-> vs[i]]
  BY <1>4
<1>6. /\ ws = vs
      /\ \A i \in DOMAIN vs : IsValidQuotaPeriod(vs[i].period) /\ vs[i].period # NoPeriod
      /\ \A i, j \in DOMAIN vs : vs[i].period = vs[j].period => i = j
      /\ checkWindowsBind(vs)
  <2>1. parseQuotaWindows(form) =
          IF \/ \E i \in DOMAIN form : form[i].kind = "malformed"
             \/ \E i \in DOMAIN vs : ~IsValidQuotaPeriod(vs[i].period) \/ vs[i].period = NoPeriod
             \/ \E i, j \in DOMAIN vs : i # j /\ vs[i].period = vs[j].period
             \/ ~checkWindowsBind(vs)
          THEN Invalid ELSE vs
    BY <1>3, <1>4 DEF parseQuotaWindows
  <2>. QED
    BY <1>1, <2>1
<1>7. \A i \in DOMAIN vs : i \in Nat /\ form[i] \in Row /\ form[i].amount > 0
  <2>. HIDE DEF Row
  <2>1. DOMAIN form = 1..Len(form) /\ Len(form) \in Nat /\ \A i \in 1..Len(form) : form[i] \in Row
    BY <1>2
  <2>. QED
    BY <1>3, <1>5, <2>1
<1>8. \A i \in DOMAIN vs : form[i].amount \in Nat \ {0}
  BY <1>7
<1>9. \A i \in DOMAIN vs : vs[i].period \in Periods
  BY <1>6 DEF IsValidQuotaPeriod, Periods
<1>10. \A i \in DOMAIN vs : vs[i] \in SavedWindows
  <2>. TAKE i \in DOMAIN vs
  <2>1. vs[i] = [budget |-> form[i].amount, period |-> form[i].period]
    BY <1>4, <1>5
  <2>. QED
    BY <1>8, <1>9, <2>1 DEF SavedWindows
<1>. QED
  BY <1>5, <1>6, <1>7, <1>10

LEMMA EffectiveIs ==
  ASSUME NEW ws \in Saved PROVE effectiveWindows(ws) = ws
<1>1. \A i \in DOMAIN ws : ws[i].budget \in Nat \ {0} /\ ws[i].period \in Periods
  BY SavedIs DEF SavedWindows
<1>2. {i \in DOMAIN ws : ws[i].budget > 0 /\ ws[i].period # NoPeriod} = DOMAIN ws
  <2>1. \A i \in DOMAIN ws : ws[i].budget > 0
    BY <1>1
  <2>2. \A i \in DOMAIN ws : ws[i].period # NoPeriod
    BY <1>1, PeriodsAre
  <2>. QED
    BY <2>1, <2>2
<1>3. ws = [i \in DOMAIN ws |-> ws[i]]
  BY SavedIs
<1>. QED
  BY <1>2, <1>3 DEF effectiveWindows, Restrict

(* Its periods differ, so there is a widest window.                         *)
LEMMA WidestIs ==
  ASSUME NEW ws \in Saved, DOMAIN ws # {}
  PROVE  WidestAt(ws) \in DOMAIN ws
<1>. DEFINE rank(i) == periodRank(ws[i].period)
            widest(i) == \A j \in DOMAIN ws :
                           /\ periodRank(ws[j].period) <= periodRank(ws[i].period)
                           /\ j < i => periodRank(ws[j].period) < periodRank(ws[i].period)
<1>1. \A i \in DOMAIN ws : rank(i) \in 1..4
  BY SavedIs, PeriodsAre DEF SavedWindows
<1>2. \A i, j \in DOMAIN ws : rank(i) = rank(j) => i = j
  BY SavedIs, PeriodsAre DEF SavedWindows
<1>3. \A i \in DOMAIN ws : i \in Nat
  BY SavedIs
<1>4. \E i \in DOMAIN ws : \A j \in DOMAIN ws : rank(j) <= rank(i)
  <2>. HIDE DEF rank
  <2>. QED
    BY <1>1
<1>5. \E i \in DOMAIN ws : widest(i)
  <2>1. PICK i \in DOMAIN ws : \A j \in DOMAIN ws : rank(j) <= rank(i)
    BY <1>4
  <2>2. ASSUME NEW j \in DOMAIN ws, j < i PROVE rank(j) < rank(i)
    BY <1>1, <1>2, <1>3, <2>1, <2>2
  <2>. QED
    BY <2>1, <2>2
<1>. QED
  BY <1>5 DEF WidestAt
(* What is left on the key, and what of it goes into which shape.           *)
LEMMA RestIs ==
  ASSUME NEW ws \in Saved
  PROVE  /\ DOMAIN Rest(ws) = {i \in DOMAIN ws : i # WidestAt(ws)}
         /\ Rest(ws) = [i \in DOMAIN Rest(ws) |-> ws[i]]
         /\ \A i \in DOMAIN Rest(ws) : Rest(ws)[i] = ws[i]
  BY DEF Rest, Restrict

LEMMA WidestTyped ==
  ASSUME NEW ws \in Saved
  PROVE  /\ DOMAIN ws = {} => Widest(ws) = NoWindow
         /\ DOMAIN ws # {} => Widest(ws) \in SavedWindows /\ Widest(ws).budget \in Budgets
<1>1. CASE DOMAIN ws = {}
  BY <1>1 DEF Widest
<1>2. CASE DOMAIN ws # {}
  <2>1. Widest(ws) = ws[WidestAt(ws)] /\ WidestAt(ws) \in DOMAIN ws
    BY <1>2, WidestIs DEF Widest
  <2>2. PICK w : w = ws[WidestAt(ws)]
    OBVIOUS
  <2>3. w \in Range(ws)
    BY <2>1, <2>2 DEF Range
  <2>4. w.budget \in Budgets
    BY <2>3 DEF Budgets
  <2>. QED
    BY <1>2, <2>1, <2>2, <2>4, SavedIs
<1>. QED
  BY <1>1, <1>2

(* The flat pair and the list of windows that start as ws or as what the    *)
(* widest leaves of it.                                                     *)
LEMMA ShapesTyped ==
  ASSUME NEW ws \in Saved, NEW us \in {ws, Rest(ws)}
  PROVE  /\ Flat(us) = NoWindow \/ (Flat(us) \in SavedWindows /\ Flat(us).budget \in Budgets)
         /\ Flat(us) # NoWindow => Single(us)
         /\ Several(us) \in {NoWindows, us}
         /\ Single(us) => Several(us) = NoWindows
         /\ \A i \in DOMAIN us : us[i] \in SavedWindows /\ us[i].budget \in Budgets
<1>1. \A i \in DOMAIN us : i \in DOMAIN ws /\ us[i] = ws[i]
  BY RestIs
<1>2. \A i \in DOMAIN ws : ws[i] \in SavedWindows /\ ws[i].budget \in Budgets
  <2>. TAKE i \in DOMAIN ws
  <2>1. PICK w : w = ws[i]
    OBVIOUS
  <2>2. w \in Range(ws)
    BY <2>1 DEF Range
  <2>. QED
    BY <2>1, <2>2, SavedIs DEF Budgets
<1>3. ASSUME Single(us) PROVE Flat(us) \in SavedWindows /\ Flat(us).budget \in Budgets
  <2>1. (CHOOSE i \in DOMAIN us : TRUE) \in DOMAIN us
    BY <1>3 DEF Single
  <2>2. PICK i \in DOMAIN us : Flat(us) = us[i]
    BY <1>3, <2>1 DEF Flat, Only
  <2>. QED
    BY <1>1, <1>2, <2>2
<1>4. /\ Single(us) => Several(us) = NoWindows
      /\ ~Single(us) => Several(us) = us /\ Flat(us) = NoWindow
  BY DEF Flat, Several
<1>5. \A i \in DOMAIN us : us[i] \in SavedWindows /\ us[i].budget \in Budgets
  BY <1>1, <1>2
<1>6. Flat(us) = NoWindow \/ (Flat(us) \in SavedWindows /\ Flat(us).budget \in Budgets)
  <2>1. CASE Single(us)
    BY <1>3, <2>1
  <2>2. CASE ~Single(us)
    BY <1>4, <2>2
  <2>. QED
    BY <2>1, <2>2
<1>7. Flat(us) # NoWindow => Single(us)
  BY <1>4, Zenon
<1>8. Several(us) \in {NoWindows, us}
  BY <1>4, Zenon
<1>. QED
  BY <1>4, <1>5, <1>6, <1>7, <1>8, Zenon

LEMMA NoWindowIs ==
  /\ NoWindow.budget = 0 /\ NoWindow.period = NoPeriod /\ DOMAIN NoWindows = {}
  /\ 0 \in Budgets /\ \A b \in Budgets : b \in Nat
<1>1. NoWindow.budget = 0 /\ NoWindow.period = NoPeriod /\ DOMAIN NoWindows = {} /\ 0 \in Budgets
  BY DEF NoWindow, NoWindows, Budgets
<1>2. ASSUME NEW b \in Budgets, b # 0 PROVE b \in Nat
  <2>1. PICK ws \in Saved : \E w \in Range(ws) : b = w.budget
    BY <1>2 DEF Budgets
  <2>. PICK w \in Range(ws) : b = w.budget
    BY <2>1
  <2>2. PICK i \in DOMAIN ws : w = ws[i]
    BY DEF Range
  <2>3. w \in SavedWindows
    BY <2>2, SavedIs
  <2>. QED
    BY <2>3 DEF SavedWindows
<1>3. \A b \in Budgets : b \in Nat
  BY <1>2
<1>. QED
  BY <1>1, <1>3

(* A form that is accepted has windows that can take effect: a window and   *)
(* the longer ones each used for as much as it allows leave room below.     *)
LEMMA CanBind ==
  ASSUME NEW ws \in Saved, NEW w \in Range(ws)
  PROVE  \E use \in [Periods -> 0..w.budget] :
           /\ \A p, q \in Periods : periodRank(p) <= periodRank(q) => use[p] <= use[q]
           /\ use[w.period] = w.budget
           /\ \A v \in Range(ws) :
                use[v.period] <= v.budget \/ periodRank(v.period) < periodRank(w.period)
<1>1. PICK i \in DOMAIN ws : w = ws[i]
  BY DEF Range
<1>2. w \in SavedWindows
  BY <1>1, SavedIs
<1>3. PICK n \in Nat : n = w.budget
  BY <1>2 DEF SavedWindows
<1>4. PICK o \in Periods : o = w.period
  BY <1>2 DEF SavedWindows
<1>5. PICK use : use = [p \in Periods |-> IF periodRank(p) >= periodRank(o) THEN n ELSE 0]
  OBVIOUS
<1>6. use \in [Periods -> 0..n]
  BY <1>5
<1>7. \A p \in Periods : periodRank(p) \in Nat
  BY PeriodsAre
<1>8. \A p, q \in Periods : periodRank(p) <= periodRank(q) => use[p] <= use[q]
  BY <1>5, <1>7
<1>9. use[o] = n
  BY <1>5, <1>7
<1>10. ASSUME NEW v \in Range(ws), ~(periodRank(v.period) < periodRank(o))
       PROVE  use[v.period] <= v.budget
  <2>1. PICK j \in DOMAIN ws : v = ws[j]
    BY DEF Range
  <2>2. PICK r \in Periods : r = v.period
    BY <2>1, SavedIs DEF SavedWindows
  <2>3. v.budget \in Nat
    BY <2>1, SavedIs DEF SavedWindows
  <2>4. use[r] = n
    BY <1>5, <1>7, <1>10, <2>2
  <2>5. CASE r = o
    <3>1. ws[i].period = ws[j].period
      BY <1>1, <1>4, <2>1, <2>2, <2>5
    <3>2. i = j
      BY <3>1, SavedIs
    <3>. QED
      BY <1>1, <1>3, <2>1, <2>2, <2>3, <2>4, <3>2
  <2>6. CASE r # o
    <3>1. periodRank(o) < periodRank(r)
      BY <1>7, <1>10, <2>2, <2>6, PeriodsAre
    <3>2. periodHours[o] < periodHours[r]
      BY <3>1, PeriodsAre
    <3>3. ws[i].budget <= ws[j].budget
      BY <1>1, <1>4, <2>1, <2>2, <3>2, SavedIs DEF checkWindowsBind
    <3>. QED
      BY <1>1, <1>3, <2>1, <2>2, <2>4, <3>3
  <2>. QED
    BY <2>5, <2>6
<1>. QED
  BY <1>3, <1>4, <1>6, <1>8, <1>9, <1>10
-----------------------------------------------------------------------------
(* What the steps that leave a part alone keep of it.                       *)

LEMMA QuotasKept ==
  quotas' \in Saved => AcceptedCanBind'
  BY CanBind DEF AcceptedCanBind

LEMMA RecordsKept ==
  ASSUME UNCHANGED <<user, key>>
  PROVE  /\ OwnerShape => OwnerShape'
         /\ KeyShape => KeyShape'
         /\ UNCHANGED <<task, done>> /\ Settled => Settled'
         /\ UNCHANGED <<steady, spent>> /\ SteadyOwner => SteadyOwner'
         /\ UNCHANGED <<steady, spent>> /\ RotationGainsNothing => RotationGainsNothing'
<1>1. OwnerShape => OwnerShape'
  BY DEF OwnerShape
<1>2. KeyShape => KeyShape'
  BY DEF KeyShape
<1>3. UNCHANGED <<task, done>> /\ Settled => Settled'
  BY DEF Settled, OwnerWindow, KeyWindow
<1>4. UNCHANGED <<steady, spent>> /\ SteadyOwner => SteadyOwner'
  BY DEF SteadyOwner
<1>5. UNCHANGED <<steady, spent>> /\ RotationGainsNothing => RotationGainsNothing'
  BY DEF RotationGainsNothing
<1>. QED
  BY <1>1, <1>2, <1>3, <1>4, <1>5

LEMMA Numbers ==
  MaxSpend \in Nat /\ MaxCost \in Nat \ {0} /\ MaxEdits \in Nat /\ MaxFaults \in Nat
  BY QuotaAssumption

LEMMA UserFields ==
  ASSUME NEW u \in Users
  PROVE  /\ u.there \in BOOLEAN /\ u.max \in Budgets /\ u.period \in Periods \union {NoPeriod}
         /\ u.spend \in Nat /\ u.max \in Nat
         /\ u.spend \in 0..MaxSpend
<1>1. /\ u.there \in BOOLEAN /\ u.max \in Budgets /\ u.period \in Periods \union {NoPeriod}
      /\ u.spend \in 0..MaxSpend
  BY DEF Users
<1>2. u.max \in Nat
  BY <1>1, NoWindowIs
<1>3. u.spend \in Nat
  BY <1>1, Numbers
<1>. QED
  BY <1>1, <1>2, <1>3

LEMMA KeyFields ==
  ASSUME NEW k \in Keys
  PROVE  /\ k.there \in BOOLEAN /\ k.bound \in BOOLEAN /\ k.max \in Budgets
         /\ k.period \in Periods \union {NoPeriod}
         /\ k.limits \in {NoWindows} \union UNION {{ws, Rest(ws)} : ws \in Saved}
         /\ k.spend \in 0..MaxSpend /\ k.spend \in Nat /\ k.max \in Nat
         /\ k.used \in [Periods -> 0..MaxSpend]
<1>1. /\ k.there \in BOOLEAN /\ k.bound \in BOOLEAN /\ k.max \in Budgets
      /\ k.period \in Periods \union {NoPeriod}
      /\ k.limits \in {NoWindows} \union UNION {{ws, Rest(ws)} : ws \in Saved}
      /\ k.spend \in 0..MaxSpend
      /\ k.used \in [Periods -> 0..MaxSpend]
  BY DEF Keys
<1>2. k.max \in Nat
  BY <1>1, NoWindowIs
<1>3. k.spend \in Nat
  BY <1>1, Numbers
<1>. QED
  BY <1>1, <1>2, <1>3

(* The windows of a key are windows of a saved profile.                     *)
LEMMA LimitsAre ==
  ASSUME NEW k \in Keys
  PROVE  \A i \in DOMAIN k.limits : k.limits[i] \in SavedWindows
<1>1. k.limits \in {NoWindows} \union UNION {{ws, Rest(ws)} : ws \in Saved}
  BY KeyFields
<1>2. CASE k.limits = NoWindows
  BY <1>2, NoWindowIs
<1>3. ASSUME NEW ws \in Saved, k.limits \in {ws, Rest(ws)}
      PROVE  \A i \in DOMAIN k.limits : k.limits[i] \in SavedWindows
  BY <1>3, ShapesTyped
<1>. QED
  BY <1>1, <1>2, <1>3

(* A key that gets the windows us: its type and its shape.                  *)
LEMMA ShapedIs ==
  ASSUME NEW k \in Keys, NEW ws \in Saved, NEW us \in {ws, Rest(ws)}
  PROVE  /\ Shaped(k, us) \in Keys
         /\ Shaped(k, us).there = k.there /\ Shaped(k, us).bound = k.bound
         /\ Shaped(k, us).max = Flat(us).budget /\ Shaped(k, us).period = Flat(us).period
         /\ Shaped(k, us).limits = Several(us)
         /\ Shaped(k, us).spend = k.spend /\ Shaped(k, us).used = k.used
         /\ Shaped(k, us).max > 0 <=> Shaped(k, us).period # NoPeriod
         /\ Shaped(k, us).max > 0 => DOMAIN Shaped(k, us).limits = {}
<1>1. PICK b, p, l : b = Flat(us).budget /\ p = Flat(us).period /\ l = Several(us)
  OBVIOUS
<1>2. PICK n : n = Shaped(k, us)
  OBVIOUS
<1>3. n = [k EXCEPT !.max = b, !.period = p, !.limits = l]
  BY <1>1, <1>2 DEF Shaped
<1>4. b \in Budgets /\ p \in Periods \union {NoPeriod} /\ b \in Nat /\ (b > 0 <=> p # NoPeriod)
  <2>0. PICK w : w = Flat(us)
    OBVIOUS
  <2>1. CASE w = NoWindow
    <3>1. b = 0 /\ p = NoPeriod
      BY <1>1, <2>0, <2>1, NoWindowIs
    <3>2. 0 \in Budgets
      BY NoWindowIs
    <3>3. b \in Budgets /\ b \in Nat /\ ~(b > 0)
      BY <3>1, <3>2
    <3>4. p \in Periods \union {NoPeriod} /\ ~(p # NoPeriod)
      BY <3>1
    <3>. QED
      BY <3>3, <3>4
  <2>2. CASE w \in SavedWindows /\ w.budget \in Budgets
    <3>1. b \in Budgets /\ b \in Nat \ {0} /\ p \in Periods
      BY <1>1, <2>0, <2>2 DEF SavedWindows
    <3>2. p # NoPeriod
      BY <3>1, PeriodsAre
    <3>. QED
      BY <3>1, <3>2
  <2>. QED
    BY <2>0, <2>1, <2>2, ShapesTyped
<1>5. l \in {NoWindows} \union UNION {{vs, Rest(vs)} : vs \in Saved}
  <2>1. us \in UNION {{vs, Rest(vs)} : vs \in Saved}
    OBVIOUS
  <2>2. l \in {NoWindows, us}
    BY <1>1, ShapesTyped
  <2>. QED
    BY <2>1, <2>2
<1>6. n \in Keys
  BY <1>3, <1>4, <1>5 DEF Keys
<1>7. /\ n.there = k.there /\ n.bound = k.bound /\ n.max = b /\ n.period = p
      /\ n.limits = l /\ n.spend = k.spend /\ n.used = k.used
  BY <1>3 DEF Keys
<1>8. b > 0 => DOMAIN l = {}
  BY <1>1, <1>4, ShapesTyped, NoWindowIs
<1>. QED
  BY <1>1, <1>2, <1>4, <1>6, <1>7, <1>8
-----------------------------------------------------------------------------
(* Every step keeps the invariant. *)

LEMMA SaveKeeps ==
  ASSUME IInv, NEW ws \in Saved, Save(ws) PROVE IInv'
<1>. USE DEF IInv
<1>1. TypeOK'
  <2>1. /\ quotas' \in Saved /\ task' \in Tasks /\ user' \in Users /\ key' \in Keys
        /\ spent' \in 0..MaxSpend /\ done' \in BOOLEAN /\ steady' \in BOOLEAN
    BY DEF TypeOK, Save
  <2>2. edits' \in 0..MaxEdits
    BY Numbers DEF TypeOK, Save
  <2>3. faults' \in 0..MaxFaults
    BY DEF TypeOK, Save
  <2>. QED
    BY <2>1, <2>2, <2>3 DEF TypeOK
<1>2. AcceptedCanBind'
  BY QuotasKept DEF Save
<1>3. UNCHANGED <<user, key>> /\ UNCHANGED <<task, done>> /\ UNCHANGED <<steady, spent>>
  BY DEF Save
<1>4. OwnerShape' /\ KeyShape' /\ Settled' /\ SteadyOwner' /\ RotationGainsNothing'
  BY <1>3, RecordsKept
<1>. QED
  BY <1>1, <1>2, <1>4

LEMMA BeginKeeps ==
  ASSUME IInv, NEW op \in {"push", "generate"}, Begin(op) PROVE IInv'
<1>. USE DEF IInv
<1>1. TypeOK'
  BY DEF TypeOK, Begin, Tasks
<1>2. AcceptedCanBind'
  BY <1>1, QuotasKept DEF Begin, TypeOK
<1>3. UNCHANGED <<user, key>> /\ UNCHANGED <<steady, spent>>
  BY DEF Begin
<1>4. OwnerShape' /\ KeyShape' /\ SteadyOwner' /\ RotationGainsNothing'
  BY <1>3, RecordsKept
<1>5. Settled'
  BY DEF Begin, Settled
<1>. QED
  BY <1>1, <1>2, <1>4, <1>5

LEMMA FailKeeps ==
  ASSUME IInv, TaskFails PROVE IInv'
<1>. USE DEF IInv
<1>1. TypeOK'
  <2>1. faults' \in 0..MaxFaults
    BY Numbers DEF TypeOK, TaskFails, Fault
  <2>2. task' \in Tasks
    BY DEF TypeOK, TaskFails, Tasks
  <2>. QED
    BY <2>1, <2>2 DEF TypeOK, TaskFails
<1>2. AcceptedCanBind'
  BY <1>1, QuotasKept DEF TaskFails, TypeOK
<1>3. UNCHANGED <<user, key>> /\ UNCHANGED <<steady, spent>>
  BY DEF TaskFails
<1>4. OwnerShape' /\ KeyShape' /\ SteadyOwner' /\ RotationGainsNothing'
  BY <1>3, RecordsKept
<1>5. done' = FALSE /\ task'.at = "none"
  BY DEF TaskFails, Settled, TypeOK, Tasks
<1>6. Settled'
  BY <1>5 DEF Settled
<1>. QED
  BY <1>1, <1>2, <1>4, <1>6

LEMMA DeleteKeeps ==
  ASSUME IInv, DeleteKey PROVE IInv'
<1>. USE DEF IInv
<1>1. /\ NoKey \in Keys /\ NoKey.there = FALSE /\ NoKey.max = 0 /\ NoKey.period = NoPeriod
      /\ NoKey.limits = NoWindows
  BY NoWindowIs, Numbers DEF NoKey, Keys, Nothing
<1>2. TypeOK'
  BY <1>1 DEF TypeOK, DeleteKey
<1>3. AcceptedCanBind'
  BY <1>2, QuotasKept DEF DeleteKey, TypeOK
<1>4. OwnerShape'
  BY <1>1 DEF OwnerShape, DeleteKey
<1>5. KeyShape'
  BY <1>1, NoWindowIs DEF KeyShape, DeleteKey
<1>6. Settled'
  BY <1>1 DEF Settled, DeleteKey, OwnerWindow
<1>7. SteadyOwner' /\ RotationGainsNothing'
  BY <1>1 DEF SteadyOwner, RotationGainsNothing, DeleteKey
<1>. QED
  BY <1>2, <1>3, <1>4, <1>5, <1>6, <1>7

(* The owner gets the widest window of the task's, with its period.         *)
LEMMA UpsertKeeps ==
  ASSUME IInv, UpsertUser PROVE IInv'
<1>. USE DEF IInv
<1>1. PICK ws \in Saved : ws = task.ws
  BY DEF TypeOK, Tasks
<1>2. effectiveWindows(task.ws) = ws
  BY <1>1, EffectiveIs
<1>3. PICK w : w = Widest(ws)
  OBVIOUS
<1>4. /\ w.budget \in Budgets /\ w.period \in Periods \union {NoPeriod}
      /\ w.budget > 0 <=> w.period # NoPeriod
  <2>1. CASE w = NoWindow
    BY <2>1, NoWindowIs
  <2>2. CASE w \in SavedWindows /\ w.budget \in Budgets
    BY <2>2, PeriodsAre DEF SavedWindows
  <2>. QED
    BY <1>3, <2>1, <2>2, WidestTyped
<1>5. w = [budget |-> w.budget, period |-> w.period]
  <2>1. CASE w = NoWindow
    BY <2>1 DEF NoWindow
  <2>2. CASE w \in SavedWindows
    BY <2>2 DEF SavedWindows
  <2>. QED
    BY <1>3, <2>1, <2>2, WidestTyped
<1>6. user' = [user EXCEPT !.there = TRUE, !.max = w.budget, !.period = w.period]
  BY <1>2, <1>3 DEF UpsertUser
<1>7. /\ user' \in Users /\ user'.there = TRUE /\ user'.max = w.budget /\ user'.period = w.period
      /\ user'.spend = user.spend
  BY <1>4, <1>6 DEF TypeOK, Users
<1>8. /\ task' \in Tasks /\ task'.at = "key" /\ task'.ws = ws
  BY <1>1 DEF UpsertUser, TypeOK, Tasks
<1>9. /\ done' = FALSE /\ key' = key
      /\ steady' \in BOOLEAN
      /\ steady' => steady /\ w.budget = user.max /\ w.period = user.period
      /\ spent' = IF steady' THEN spent ELSE 0
  BY <1>2, <1>3 DEF UpsertUser, TypeOK, Settled, Tasks
<1>10. TypeOK'
  <2>1. spent' \in 0..MaxSpend
    BY <1>9, Numbers DEF TypeOK
  <2>. QED
    BY <1>7, <1>8, <1>9, <2>1 DEF TypeOK, UpsertUser
<1>11. AcceptedCanBind'
  BY <1>10, QuotasKept DEF UpsertUser, TypeOK
<1>12. OwnerShape'
  BY <1>4, <1>7, <1>9 DEF OwnerShape
<1>13. KeyShape'
  BY <1>9 DEF KeyShape
<1>14. Settled'
  <2>1. OwnerWindow' = w
    BY <1>5, <1>7 DEF OwnerWindow
  <2>2. effectiveWindows(task.ws)' = ws
    BY <1>8, EffectiveIs
  <2>. QED
    BY <1>3, <1>7, <1>8, <1>9, <2>1, <2>2 DEF Settled
<1>15. SteadyOwner'
  BY <1>7, <1>9 DEF SteadyOwner
<1>16. RotationGainsNothing'
  BY <1>7, <1>9 DEF RotationGainsNothing
<1>. QED
  BY <1>10, <1>11, <1>12, <1>13, <1>14, <1>15, <1>16
(* What a push and a generation have in common: a key with an owner, and    *)
(* what the widest window leaves.                                           *)
LEMMA KeyGets ==
  ASSUME IInv, task.at = "key", NEW k \in Keys, k.bound = TRUE,
         \A ws \in Saved : ws = task.ws =>
           \A i \in DOMAIN Rest(ws) : k.used[Rest(ws)[i].period] <= k.spend,
         key' = Shaped(k, Rest(effectiveWindows(task.ws))),
         task' = [task EXCEPT !.at = "none"],
         done' = TRUE,
         UNCHANGED <<quotas, user, edits, faults, spent, steady>>
  PROVE  IInv'
<1>. USE DEF IInv
<1>1. PICK ws \in Saved : ws = task.ws
  BY DEF TypeOK, Tasks
<1>2. effectiveWindows(task.ws) = ws
  BY <1>1, EffectiveIs
<1>3. PICK us : us = Rest(ws)
  OBVIOUS
<1>4. /\ key' \in Keys
      /\ key'.there = k.there /\ key'.bound = TRUE
      /\ key'.max = Flat(us).budget /\ key'.period = Flat(us).period
      /\ key'.limits = Several(us)
      /\ key'.spend = k.spend /\ key'.used = k.used
      /\ key'.max > 0 <=> key'.period # NoPeriod
      /\ key'.max > 0 => DOMAIN key'.limits = {}
  BY <1>2, <1>3, ShapedIs
<1>5. /\ task' \in Tasks /\ task'.at = "none" /\ task'.ws = ws
  BY <1>1 DEF TypeOK, Tasks
<1>6. TypeOK'
  BY <1>4, <1>5 DEF TypeOK
<1>7. AcceptedCanBind'
  BY <1>6, QuotasKept DEF TypeOK
<1>8. OwnerShape'
  BY <1>4 DEF OwnerShape
<1>9. KeyShape'
  <2>1. \A i \in DOMAIN us : k.used[us[i].period] <= k.spend
    BY <1>1, <1>3
  <2>2. Several(us) \in {NoWindows, us}
    BY <1>3, ShapesTyped
  <2>3. \A i \in DOMAIN key'.limits : key'.used[key'.limits[i].period] <= key'.spend
    <3>1. CASE Several(us) = NoWindows
      BY <1>4, <3>1, NoWindowIs
    <3>2. CASE Several(us) = us
      BY <1>4, <2>1, <3>2
    <3>. QED
      BY <2>2, <3>1, <3>2
  <2>. QED
    BY <1>4, <2>3 DEF KeyShape
<1>10. Settled'
  <2>1. user.there /\ OwnerWindow = Widest(ws)
    BY <1>2 DEF Settled
  <2>2. effectiveWindows(task.ws)' = ws
    BY <1>5, EffectiveIs
  <2>3. OwnerWindow' = Widest(ws) /\ user'.there
    BY <2>1 DEF OwnerWindow
  <2>4. KeyWindow' = Flat(us)
    <3>1. KeyWindow' = [budget |-> Flat(us).budget, period |-> Flat(us).period]
      BY <1>4 DEF KeyWindow
    <3>2. CASE Flat(us) = NoWindow
      BY <3>1, <3>2 DEF NoWindow
    <3>3. CASE Flat(us) \in SavedWindows
      BY <3>1, <3>3 DEF SavedWindows
    <3>. QED
      BY <1>3, <3>2, <3>3, ShapesTyped
  <2>. QED
    BY <1>3, <1>4, <1>5, <2>2, <2>3, <2>4 DEF Settled
<1>11. SteadyOwner' /\ RotationGainsNothing'
  BY <1>4 DEF SteadyOwner, RotationGainsNothing
<1>. QED
  BY <1>6, <1>7, <1>8, <1>9, <1>10, <1>11

LEMMA UpdateKeeps ==
  ASSUME IInv, UpdateKeyLimits PROVE IInv'
<1>. DEFINE held == {key.limits[i].period : i \in DOMAIN key.limits}
            used == [p \in Periods |-> IF p \in held THEN key.used[p] ELSE 0]
<1>1. key \in Keys /\ KeyShape
  BY DEF IInv, TypeOK
<1>2. PICK h : h = held
  OBVIOUS
<1>3. PICK f : f = [p \in Periods |-> IF p \in h THEN key.used[p] ELSE 0]
  OBVIOUS
<1>4. f \in [Periods -> 0..MaxSpend]
  BY <1>1, <1>3, KeyFields, Numbers
<1>5. PICK k : k = [key EXCEPT !.bound = TRUE, !.used = f]
  OBVIOUS
<1>6. k \in Keys /\ k.bound = TRUE /\ k.used = f /\ k.spend = key.spend
  BY <1>1, <1>4, <1>5 DEF Keys
<1>7. key' = Shaped(k, Rest(effectiveWindows(task.ws)))
  BY <1>2, <1>3, <1>5 DEF UpdateKeyLimits
<1>8. ASSUME NEW ws \in Saved, NEW i \in DOMAIN Rest(ws)
      PROVE  k.used[Rest(ws)[i].period] <= k.spend
  <2>1. PICK p \in Periods : p = Rest(ws)[i].period
    BY <1>8, ShapesTyped DEF SavedWindows
  <2>2. key.spend \in Nat /\ key.used[p] \in Nat
    BY <1>1, KeyFields, Numbers
  <2>3. f[p] <= key.spend
    <3>1. CASE p \in h
      <4>1. PICK j \in DOMAIN key.limits : p = key.limits[j].period
        BY <1>2, <3>1
      <4>2. key.used[p] <= key.spend
        BY <1>1, <4>1 DEF KeyShape
      <4>. QED
        BY <1>3, <3>1, <4>2
    <3>2. CASE p \notin h
      BY <1>3, <2>2, <3>2
    <3>. QED
      BY <3>1, <3>2
  <2>. QED
    BY <1>6, <2>1, <2>3
<1>9. /\ task.at = "key" /\ task' = [task EXCEPT !.at = "none"] /\ done' = TRUE
      /\ UNCHANGED <<quotas, user, edits, faults, spent, steady>>
  BY DEF UpdateKeyLimits
<1>. QED
  BY <1>6, <1>7, <1>8, <1>9, KeyGets

LEMMA CreateKeeps ==
  ASSUME IInv, CreateKey PROVE IInv'
<1>1. PICK k : k = [NoKey EXCEPT !.there = TRUE, !.bound = TRUE]
  OBVIOUS
<1>2. NoKey \in Keys
  BY NoWindowIs, Numbers DEF NoKey, Keys, Nothing
<1>3. k \in Keys /\ k.bound = TRUE /\ k.used = Nothing /\ k.spend = 0
  BY <1>1, <1>2 DEF Keys, NoKey
<1>4. key' = Shaped(k, Rest(effectiveWindows(task.ws)))
  BY <1>1 DEF CreateKey
<1>5. ASSUME NEW ws \in Saved, NEW i \in DOMAIN Rest(ws)
      PROVE  k.used[Rest(ws)[i].period] <= k.spend
  <2>1. PICK p \in Periods : p = Rest(ws)[i].period
    BY <1>5, ShapesTyped DEF SavedWindows
  <2>. QED
    BY <1>3, <2>1 DEF Nothing
<1>6. /\ task.at = "key" /\ task' = [task EXCEPT !.at = "none"] /\ done' = TRUE
      /\ UNCHANGED <<quotas, user, edits, faults, spent, steady>>
  BY DEF CreateKey
<1>. QED
  BY <1>3, <1>4, <1>5, <1>6, KeyGets
(* What a request and a boundary leave alone.                               *)
LEMMA CountsOnly ==
  ASSUME IInv, user' \in Users, key' \in Keys,
         UNCHANGED <<quotas, task, edits, faults, done>>,
         user'.there = user.there, user'.max = user.max, user'.period = user.period,
         key'.there = key.there, key'.bound = key.bound, key'.max = key.max,
         key'.period = key.period, key'.limits = key.limits,
         spent' \in 0..MaxSpend, steady' \in BOOLEAN
  PROVE  /\ TypeOK' /\ AcceptedCanBind' /\ Settled'
         /\ user'.max > 0 <=> user'.period # NoPeriod
         /\ user'.max > 0 => user'.there
         /\ key'.max > 0 <=> key'.period # NoPeriod
         /\ key'.max > 0 => DOMAIN key'.limits = {}
<1>. USE DEF IInv
<1>1. TypeOK'
  BY DEF TypeOK
<1>2. AcceptedCanBind'
  BY <1>1, QuotasKept DEF TypeOK
<1>3. Settled'
  BY DEF Settled, OwnerWindow, KeyWindow
<1>4. /\ user'.max > 0 <=> user'.period # NoPeriod
      /\ user'.max > 0 => user'.there
  BY DEF OwnerShape
<1>5. /\ key'.max > 0 <=> key'.period # NoPeriod
      /\ key'.max > 0 => DOMAIN key'.limits = {}
  BY DEF KeyShape
<1>. QED
  BY <1>1, <1>2, <1>3, <1>4, <1>5

LEMMA SpendKeeps ==
  ASSUME IInv, NEW c \in 1..MaxCost, Spend(c) PROVE IInv'
<1>0. /\ user \in Users /\ key \in Keys /\ spent \in Nat /\ steady \in BOOLEAN
      /\ OwnerShape /\ KeyShape /\ SteadyOwner /\ RotationGainsNothing
      /\ c \in Nat /\ c <= MaxCost
  BY Numbers DEF IInv, TypeOK
<1>1. user.spend + c <= MaxSpend /\ key.spend + c <= MaxSpend /\ spent + c <= MaxSpend
  BY DEF Spend
<1>2. PICK held : held = {p \in Periods : \E i \in DOMAIN key.limits : key.limits[i].period = p}
  OBVIOUS
<1>3. PICK f : f = [p \in Periods |-> IF p \in held THEN key.used[p] + c ELSE key.used[p]]
  OBVIOUS
<1>4. \A p \in held : key.used[p] <= key.spend
  BY <1>0, <1>2 DEF KeyShape
<1>5. f \in [Periods -> 0..MaxSpend]
  <2>1. \A p \in Periods : key.used[p] \in 0..MaxSpend
    BY <1>0, KeyFields
  <2>2. key.spend \in Nat
    BY <1>0, KeyFields
  <2>. QED
    BY <1>0, <1>1, <1>3, <1>4, <2>1, <2>2, Numbers
<1>6. PICK n : n = key.spend + c
  OBVIOUS
<1>7. n \in 0..MaxSpend
  BY <1>0, <1>1, <1>6, KeyFields, Numbers
<1>8. key' = [key EXCEPT !.spend = n, !.used = f]
  BY <1>2, <1>3, <1>6 DEF Spend
<1>9. /\ key' \in Keys /\ key'.there = key.there /\ key'.bound = key.bound /\ key'.max = key.max
      /\ key'.period = key.period /\ key'.limits = key.limits
      /\ key'.spend = n /\ key'.used = f
  BY <1>0, <1>5, <1>7, <1>8 DEF Keys
<1>10. PICK m : m = user.spend + c
  OBVIOUS
<1>11. m \in 0..MaxSpend
  BY <1>0, <1>1, <1>10, UserFields, Numbers
<1>12. user' = IF key.bound THEN [user EXCEPT !.spend = m] ELSE user
  BY <1>10 DEF Spend
<1>13. /\ user' \in Users /\ user'.there = user.there /\ user'.max = user.max
       /\ user'.period = user.period
       /\ user'.spend = IF key.bound THEN m ELSE user.spend
  BY <1>0, <1>11, <1>12 DEF Users
<1>14. /\ UNCHANGED <<quotas, task, edits, faults, done, steady>>
       /\ spent' = IF steady THEN spent + c ELSE 0
       /\ key.there
  BY DEF Spend
<1>15. spent' \in 0..MaxSpend
  BY <1>0, <1>1, <1>14, Numbers
<1>16. /\ TypeOK' /\ AcceptedCanBind' /\ Settled'
       /\ user'.max > 0 <=> user'.period # NoPeriod
       /\ user'.max > 0 => user'.there
       /\ key'.max > 0 <=> key'.period # NoPeriod
       /\ key'.max > 0 => DOMAIN key'.limits = {}
  BY <1>0, <1>9, <1>13, <1>14, <1>15, CountsOnly
<1>17. OwnerShape'
  BY <1>0, <1>9, <1>13, <1>16 DEF OwnerShape
<1>18. KeyShape'
  <2>1. ASSUME NEW i \in DOMAIN key.limits PROVE f[key.limits[i].period] <= n
    <3>1. PICK p \in Periods : p = key.limits[i].period
      BY <1>0, LimitsAre DEF SavedWindows
    <3>2. p \in held
      BY <1>2, <3>1
    <3>3. key.used[p] \in Nat /\ key.spend \in Nat
      BY <1>0, KeyFields, Numbers
    <3>. QED
      BY <1>0, <1>3, <1>4, <1>6, <3>1, <3>2, <3>3
  <2>. QED
    BY <1>9, <1>16, <2>1 DEF KeyShape
<1>19. SteadyOwner'
  BY <1>0, <1>9, <1>10, <1>13, <1>14 DEF SteadyOwner
<1>20. RotationGainsNothing'
  <2>. SUFFICES ASSUME steady PROVE spent + c < user.max + MaxCost
    BY <1>0, <1>13, <1>14 DEF RotationGainsNothing
  <2>1. key.bound /\ user.spend = spent /\ user.max > 0
    BY <1>0, <1>14 DEF SteadyOwner, OwnerShape
  <2>2. ~(user.spend >= user.max)
    BY <2>1 DEF Spend, Refuses, OwnerRefuses
  <2>3. user.max \in Nat /\ user.spend \in Nat
    BY <1>0, UserFields
  <2>. QED
    BY <1>0, <2>1, <2>2, <2>3, Numbers
<1>. QED
  BY <1>16, <1>17, <1>18, <1>19, <1>20 DEF IInv

LEMMA BoundaryKeeps ==
  ASSUME IInv, NEW p \in Periods, Boundary(p) PROVE IInv'
<1>. DEFINE over(q) == q # NoPeriod /\ periodRank(q) <= periodRank(p)
<1>0. /\ user \in Users /\ key \in Keys /\ spent \in 0..MaxSpend /\ steady \in BOOLEAN
      /\ OwnerShape /\ KeyShape /\ SteadyOwner /\ RotationGainsNothing
      /\ 0 \in 0..MaxSpend
  BY Numbers DEF IInv, TypeOK
<1>1. PICK f : f = [q \in Periods |-> IF over(q) THEN 0 ELSE key.used[q]]
  OBVIOUS
<1>2. \A q \in Periods : key.used[q] \in 0..MaxSpend /\ key.used[q] \in Nat
  BY <1>0, KeyFields, Numbers
<1>3. f \in [Periods -> 0..MaxSpend]
  <2>. HIDE DEF over
  <2>. QED
    BY <1>0, <1>1, <1>2
<1>4. PICK n : n = IF over(key.period) THEN 0 ELSE key.spend
  OBVIOUS
<1>5. n \in 0..MaxSpend
  BY <1>0, <1>4, KeyFields
<1>6. key' = [key EXCEPT !.spend = n, !.used = f]
  BY <1>1, <1>4 DEF Boundary
<1>7. /\ key' \in Keys /\ key'.there = key.there /\ key'.bound = key.bound /\ key'.max = key.max
      /\ key'.period = key.period /\ key'.limits = key.limits
      /\ key'.spend = n /\ key'.used = f
  BY <1>0, <1>3, <1>5, <1>6 DEF Keys
<1>8. user' = IF over(user.period) THEN [user EXCEPT !.spend = 0] ELSE user
  BY DEF Boundary
<1>9. /\ user' \in Users /\ user'.there = user.there /\ user'.max = user.max
      /\ user'.period = user.period
      /\ user'.spend = IF over(user.period) THEN 0 ELSE user.spend
  <2>. HIDE DEF over
  <2>. QED
    BY <1>0, <1>8 DEF Users
<1>10. /\ UNCHANGED <<quotas, task, edits, faults, done>>
       /\ spent' = IF over(user.period) THEN 0 ELSE spent
       /\ steady' = (steady \/ (user.there /\ over(user.period) /\ (key.there => key.bound)))
  BY DEF Boundary
<1>11. spent' \in 0..MaxSpend /\ steady' \in BOOLEAN
  BY <1>0, <1>10
<1>12. /\ TypeOK' /\ AcceptedCanBind' /\ Settled'
       /\ user'.max > 0 <=> user'.period # NoPeriod
       /\ user'.max > 0 => user'.there
       /\ key'.max > 0 <=> key'.period # NoPeriod
       /\ key'.max > 0 => DOMAIN key'.limits = {}
  BY <1>7, <1>9, <1>10, <1>11, CountsOnly
<1>13. OwnerShape'
  BY <1>0, <1>7, <1>9, <1>12 DEF OwnerShape
<1>14. KeyShape'
  <2>1. ASSUME NEW i \in DOMAIN key.limits PROVE f[key.limits[i].period] <= n
    <3>1. PICK q \in Periods : q = key.limits[i].period
      BY <1>0, LimitsAre DEF SavedWindows
    <3>2. key.max \in Nat /\ ~(key.max > 0)
      BY <1>0, KeyFields DEF KeyShape
    <3>3. key.period = NoPeriod
      BY <1>0, <3>2 DEF KeyShape
    <3>4. n = key.spend /\ key.spend \in Nat
      BY <1>0, <1>4, <3>3, KeyFields
    <3>5. key.used[q] <= key.spend
      BY <1>0, <3>1 DEF KeyShape
    <3>6. f[q] = 0 \/ f[q] = key.used[q]
      BY <1>1
    <3>. QED
      BY <1>2, <3>1, <3>4, <3>5, <3>6
  <2>. QED
    BY <1>7, <1>12, <2>1 DEF KeyShape
<1>15. SteadyOwner'
  <2>. HIDE DEF over
  <2>1. over(user.period) => user.period # NoPeriod
    BY DEF over
  <2>2. CASE over(user.period)
    BY <1>0, <1>7, <1>9, <1>10, <2>1, <2>2 DEF SteadyOwner
  <2>3. CASE ~over(user.period)
    BY <1>0, <1>7, <1>9, <1>10, <2>3 DEF SteadyOwner
  <2>. QED
    BY <2>2, <2>3
<1>16. RotationGainsNothing'
  <2>. HIDE DEF over
  <2>1. user.max \in Nat
    BY <1>0, UserFields
  <2>2. CASE over(user.period)
    BY <1>9, <1>10, <2>1, <2>2, Numbers DEF RotationGainsNothing
  <2>3. CASE ~over(user.period)
    BY <1>0, <1>9, <1>10, <2>3 DEF RotationGainsNothing
  <2>. QED
    BY <2>2, <2>3
<1>. QED
  BY <1>12, <1>13, <1>14, <1>15, <1>16 DEF IInv
LEMMA InitIInv == Init => IInv
<1>. SUFFICES ASSUME Init PROVE IInv
  OBVIOUS
<1>1. /\ quotas \in Saved /\ user = NoUser /\ edits = 0 /\ faults = 0
      /\ task = [at |-> "none", op |-> "push", ws |-> quotas]
      /\ spent = 0 /\ done = FALSE /\ steady = FALSE
  BY DEF Init
<1>2. /\ user \in Users /\ user.max = 0 /\ user.period = NoPeriod /\ user.spend = 0
  BY <1>1, NoWindowIs, Numbers DEF NoUser, Users
<1>3. NoKey \in Keys
  BY NoWindowIs, Numbers DEF NoKey, Keys, Nothing
<1>4. PICK k : k = [NoKey EXCEPT !.there = TRUE]
  OBVIOUS
<1>5. k \in Keys /\ k.spend = 0 /\ k.used = Nothing
  BY <1>3, <1>4 DEF NoKey, Keys
<1>6. key = NoKey \/ key = Shaped(k, quotas)
  BY <1>1, <1>4, EffectiveIs DEF Init
<1>7. /\ key \in Keys /\ key.used = Nothing /\ key.spend = 0
      /\ key.max > 0 <=> key.period # NoPeriod
      /\ key.max > 0 => DOMAIN key.limits = {}
  <2>1. CASE key = NoKey
    BY <1>3, <2>1, NoWindowIs DEF NoKey
  <2>2. CASE key = Shaped(k, quotas)
    BY <1>1, <1>5, <2>2, ShapedIs
  <2>. QED
    BY <1>6, <2>1, <2>2
<1>8. KeyShape
  <2>1. ASSUME NEW i \in DOMAIN key.limits PROVE key.used[key.limits[i].period] <= key.spend
    <3>1. PICK p \in Periods : p = key.limits[i].period
      BY <1>7, LimitsAre DEF SavedWindows
    <3>. QED
      BY <1>7, <3>1 DEF Nothing
  <2>. QED
    BY <1>7, <2>1 DEF KeyShape
<1>9. TypeOK
  <2>1. task \in Tasks
    BY <1>1 DEF Tasks
  <2>2. edits \in 0..MaxEdits /\ faults \in 0..MaxFaults /\ spent \in 0..MaxSpend
    BY <1>1, Numbers
  <2>3. quotas \in Saved /\ done \in BOOLEAN /\ steady \in BOOLEAN
    BY <1>1
  <2>. QED
    BY <1>2, <1>7, <2>1, <2>2, <2>3 DEF TypeOK
<1>10. AcceptedCanBind
  BY <1>1, CanBind DEF AcceptedCanBind
<1>11. OwnerShape
  BY <1>1, <1>2 DEF OwnerShape
<1>12. Settled /\ SteadyOwner /\ RotationGainsNothing
  BY <1>1 DEF Settled, SteadyOwner, RotationGainsNothing
<1>. QED
  BY <1>8, <1>9, <1>10, <1>11, <1>12 DEF IInv

LEMMA SameKeeps == IInv /\ UNCHANGED vars => IInv'
<1>. SUFFICES ASSUME IInv, UNCHANGED vars PROVE IInv'
  OBVIOUS
<1>. USE DEF vars, IInv
<1>1. TypeOK'
  BY DEF TypeOK
<1>2. AcceptedCanBind'
  BY <1>1, QuotasKept DEF TypeOK
<1>3. UNCHANGED <<user, key>> /\ UNCHANGED <<task, done>> /\ UNCHANGED <<steady, spent>>
  OBVIOUS
<1>4. OwnerShape' /\ KeyShape' /\ Settled' /\ SteadyOwner' /\ RotationGainsNothing'
  BY <1>3, RecordsKept
<1>. QED
  BY <1>1, <1>2, <1>4

LEMMA NextIInv == IInv /\ [Next]_vars => IInv'
<1>. SUFFICES ASSUME IInv, [Next]_vars PROVE IInv'
  OBVIOUS
<1>1. ASSUME NEW ws \in Saved, Save(ws) PROVE IInv'
  BY <1>1, SaveKeeps
<1>2. ASSUME NEW op \in {"push", "generate"}, Begin(op) PROVE IInv'
  BY <1>2, BeginKeeps
<1>3. CASE UpsertUser
  BY <1>3, UpsertKeeps
<1>4. CASE UpdateKeyLimits
  BY <1>4, UpdateKeeps
<1>5. CASE CreateKey
  BY <1>5, CreateKeeps
<1>6. CASE TaskFails
  BY <1>6, FailKeeps
<1>7. CASE DeleteKey
  BY <1>7, DeleteKeeps
<1>8. ASSUME NEW c \in 1..MaxCost, Spend(c) PROVE IInv'
  BY <1>8, SpendKeeps
<1>9. ASSUME NEW p \in Periods, Boundary(p) PROVE IInv'
  BY <1>9, BoundaryKeeps
<1>10. CASE UNCHANGED vars
  BY <1>10, SameKeeps
<1>. QED
  BY <1>1, <1>2, <1>3, <1>4, <1>5, <1>6, <1>7, <1>8, <1>9, <1>10 DEF Next

(* In every reachable state the invariant holds: what is saved can take     *)
(* effect, the gateway's records are of the shapes the portal sends, what   *)
(* a task has brought about so far is there, and all that is spent while    *)
(* the allowance is steady is counted against the owner, however often the  *)
(* key is replaced or deleted (provider.go:89-116).                         *)
THEOREM Invariance == Spec => []IInv
  BY InitIInv, NextIInv, PTL DEF Spec

(* However often a key is replaced or deleted, no more than the owner's     *)
(* allowance and the rest of one request is spent within its period         *)
(* (provider.go:89-116).                                                    *)
THEOREM RotationIsNoGain == Spec => []RotationGainsNothing
  BY Invariance, PTL DEF IInv

-----------------------------------------------------------------------------
(* Where the windows are enforced. *)

LEMMA Placed ==
  ASSUME IInv, done, key.there
  PROVE  /\ Enforced = Range(task.ws)
         /\ \A w \in Enforced : \E x \in Places(w) : Places(w) = {x}
<1>1. PICK ws \in Saved : ws = task.ws
  BY DEF IInv, TypeOK, Tasks
<1>2. /\ key.bound /\ OwnerWindow = Widest(ws) /\ KeyWindow = Flat(Rest(ws))
      /\ key.limits = Several(Rest(ws))
  <2>1. effectiveWindows(task.ws) = ws
    BY <1>1, EffectiveIs
  <2>. QED
    BY <2>1 DEF IInv, Settled
<1>3. PICK us : us = Rest(ws)
  OBVIOUS
<1>4. PICK o, k, l : o = OwnerWindow /\ k = KeyWindow /\ l = key.limits
  OBVIOUS
<1>5. Enforced = {w \in {o, k} \union {l[i] : i \in DOMAIN l} : w.budget > 0}
  BY <1>4 DEF Enforced, Range
<1>6. \A w : Places(w) = (IF w = o THEN {<<"owner", 0>>} ELSE {})
                        \union (IF w = k THEN {<<"key", 0>>} ELSE {})
                        \union {<<"limits", i>> : i \in {j \in DOMAIN l : l[j] = w}}
  BY <1>2, <1>4 DEF Places
<1>7. Range(ws) = {ws[i] : i \in DOMAIN ws}
  BY DEF Range
<1>8. /\ \A i \in DOMAIN ws : ws[i].budget > 0
      /\ \A i, j \in DOMAIN ws : ws[i] = ws[j] => i = j
      /\ NoWindow.budget = 0
  BY SavedIs, NoWindowIs DEF SavedWindows
<1>9. /\ DOMAIN us = {i \in DOMAIN ws : i # WidestAt(ws)}
      /\ \A i \in DOMAIN us : us[i] = ws[i]
  BY <1>3, RestIs
<1>10. CASE DOMAIN ws = {}
  <2>1. o = NoWindow
    BY <1>2, <1>4, <1>10, WidestTyped
  <2>2. ~Single(us) /\ DOMAIN us = {}
    BY <1>9, <1>10 DEF Single
  <2>3. k = NoWindow /\ l = us
    BY <1>2, <1>3, <1>4, <2>2 DEF Flat, Several
  <2>4. Enforced = {}
    BY <1>5, <1>8, <2>1, <2>2, <2>3
  <2>5. Range(ws) = {}
    BY <1>7, <1>10
  <2>. QED
    BY <1>1, <2>4, <2>5
<1>11. CASE DOMAIN ws # {}
  <2>1. PICK n \in DOMAIN ws : n = WidestAt(ws) /\ o = ws[n]
    BY <1>2, <1>4, <1>11, WidestIs DEF Widest
  <2>2. CASE Single(us)
    <3>1. PICK m \in DOMAIN us : DOMAIN us = {m} /\ k = us[m]
      BY <1>2, <1>3, <1>4, <2>2 DEF Single, Flat, Only
    <3>2. m \in DOMAIN ws /\ m # n /\ k = ws[m] /\ DOMAIN ws = {n, m}
      BY <1>9, <2>1, <3>1
    <3>3. l = NoWindows /\ DOMAIN l = {}
      BY <1>2, <1>3, <1>4, <2>2, NoWindowIs DEF Several
    <3>4. Enforced = {o, k}
      BY <1>5, <1>8, <2>1, <3>2, <3>3
    <3>5. Range(ws) = {o, k} /\ o # k
      BY <1>7, <1>8, <2>1, <3>2
    <3>6. Places(o) = {<<"owner", 0>>} /\ Places(k) = {<<"key", 0>>}
      BY <1>6, <3>3, <3>5
    <3>. QED
      BY <1>1, <3>4, <3>5, <3>6
  <2>3. CASE ~Single(us)
    <3>1. k = NoWindow /\ l = us
      BY <1>2, <1>3, <1>4, <2>3 DEF Flat, Several
    <3>2. DOMAIN ws = {n} \union DOMAIN us /\ n \notin DOMAIN us
      BY <1>9, <2>1
    <3>3. Enforced = {o} \union {us[i] : i \in DOMAIN us}
      BY <1>5, <1>8, <1>9, <2>1, <3>1
    <3>4. Range(ws) = {o} \union {us[i] : i \in DOMAIN us}
      BY <1>7, <1>9, <2>1, <3>2
    <3>5. \A i \in DOMAIN ws : ws[i] # k
      BY <1>8, <3>1
    <3>6. Places(o) = {<<"owner", 0>>}
      <4>1. o # k /\ \A i \in DOMAIN l : l[i] # o
        BY <1>8, <1>9, <2>1, <3>1, <3>2, <3>5
      <4>. QED
        BY <1>6, <4>1
    <3>7. ASSUME NEW i \in DOMAIN us PROVE Places(us[i]) = {<<"limits", i>>}
      <4>1. us[i] # o /\ us[i] # k
        BY <1>8, <1>9, <2>1, <3>2, <3>5
      <4>2. {j \in DOMAIN l : l[j] = us[i]} = {i}
        BY <1>8, <1>9, <3>1
      <4>. QED
        BY <1>6, <4>1, <4>2
    <3>. QED
      BY <1>1, <3>3, <3>4, <3>6, <3>7
  <2>. QED
    BY <2>2, <2>3
<1>. QED
  BY <1>10, <1>11

(* After a push or a generation every window of the profile it was for is   *)
(* enforced in exactly one place and nothing else is (quota.go:49-80,       *)
(* provider.go:34-49, 89-116, usage.go:223-303), for any list of windows.   *)
THEOREM WindowsEnforcedOnce == Spec => []EachOnce
<1>1. IInv => EachOnce
  BY Placed DEF EachOnce
<1>. QED
  BY <1>1, Invariance, PTL
-----------------------------------------------------------------------------
(* What the dashboard says. *)

LEMMA PctIs ==
  ASSUME NEW used \in Nat, NEW limit \in Nat
  PROVE  /\ quotaPct(used, limit) \in 0..100
         /\ quotaPct(used, limit) = 100 <=> limit > 0 /\ used >= limit
<1>1. CASE limit <= 0
  BY <1>1 DEF quotaPct
<1>2. CASE limit > 0 /\ used >= limit
  BY <1>2 DEF quotaPct
<1>3. CASE limit > 0 /\ used < limit
  <2>1. PICK q : q = (used * 100) \div limit
    OBVIOUS
  <2>2. q \in Nat /\ q < 100
    BY <1>3, <2>1
  <2>. QED
    BY <1>3, <2>1, <2>2 DEF quotaPct
<1>. QED
  BY <1>1, <1>2, <1>3

Readings == [period : Periods, limit : Nat, used : Nat, known : BOOLEAN]

(* The headline's window is one of those there are, and none is fuller.     *)
LEMMA BindingIs ==
  ASSUME NEW ws \in SUBSET Readings, ws # {}
  PROVE  /\ bindingWindow(ws) \in ws
         /\ \A w \in ws : quotaPct(w.used, w.limit)
                           <= quotaPct(bindingWindow(ws).used, bindingWindow(ws).limit)
<1>. DEFINE pct(w) == quotaPct(w.used, w.limit)
            free(w) == 100 - pct(w)
            T == {free(w) : w \in ws}
<1>1. \A w \in ws : pct(w) \in 0..100
  <2>. TAKE w \in ws
  <2>1. PICK u \in Nat, l \in Nat : u = w.used /\ l = w.limit
    BY DEF Readings
  <2>2. quotaPct(u, l) \in 0..100
    BY PctIs
  <2>. QED
    BY <2>1, <2>2
<1>2. T \in SUBSET Nat /\ T # {}
  <2>. HIDE DEF pct
  <2>. QED
    BY <1>1
<1>3. PICK x \in T : \A y \in T : ~(<<y, x>> \in OpToRel(<, Nat))
  <2>. HIDE DEF T
  <2>. QED
    BY <1>2, WFMin, NatLessThanWellFounded
<1>4. \A y \in T : ~(y < x)
  <2>. HIDE DEF T
  <2>. QED
    BY <1>2, <1>3 DEF OpToRel
<1>5. PICK v \in ws : x = free(v)
  BY <1>3
<1>6. \A w \in ws : pct(w) <= pct(v)
  <2>. TAKE w \in ws
  <2>1. PICK a \in 0..100, b \in 0..100 : a = pct(w) /\ b = pct(v)
    BY <1>1
  <2>2. ~(free(w) < free(v))
    BY <1>4, <1>5
  <2>3. ~(100 - a < 100 - b)
    BY <2>1, <2>2
  <2>. QED
    BY <2>1, <2>3
<1>. QED
  BY <1>6 DEF bindingWindow
(* The windows of the page, and when one of them is used up.                *)
LEMMA WindowsAre ==
  ASSUME IInv, key.there, NEW reported \in SUBSET Periods
  PROVE  /\ Windows(reported) \in SUBSET Readings
         /\ \A w \in Windows(reported) :
              w.known /\ w.limit > 0 /\ w.used >= w.limit => Refuses
<1>1. user \in Users /\ key \in Keys /\ OwnerShape /\ KeyShape
  BY DEF IInv, TypeOK
<1>2. ASSUME NEW w \in userWindow
      PROVE  w \in Readings /\ (w.limit > 0 /\ w.used >= w.limit => Refuses)
  <2>1. /\ w = [period |-> user.period, limit |-> user.max, used |-> user.spend, known |-> TRUE]
        /\ user.there /\ user.max # 0 /\ user.period # NoPeriod
    BY <1>2 DEF userWindow, Reading
  <2>2. user.period \in Periods /\ user.max \in Nat /\ user.spend \in Nat
    BY <1>1, <2>1, UserFields
  <2>3. w \in Readings /\ w.limit = user.max /\ w.used = user.spend
    BY <2>1, <2>2 DEF Readings
  <2>4. ASSUME user.max > 0, user.spend >= user.max PROVE Refuses
    <3>1. key.bound \in BOOLEAN
      BY <1>1, KeyFields
    <3>2. user.spend # 0
      BY <2>2, <2>4
    <3>3. key.bound
      BY <1>1, <3>1, <3>2 DEF OwnerShape
    <3>. QED
      BY <2>4, <3>3 DEF Refuses, OwnerRefuses
  <2>. QED
    BY <2>3, <2>4
<1>3. ASSUME NEW w \in keyWindows(reported), DOMAIN key.limits # {}
      PROVE  w \in Readings /\ (w.known /\ w.limit > 0 /\ w.used >= w.limit => Refuses)
  <2>1. PICK i \in DOMAIN key.limits :
          w = LET p == key.limits[i].period
              IN Reading(p, key.limits[i].budget,
                         IF p \in reported THEN key.used[p] ELSE 0, p \in reported)
    BY <1>3 DEF keyWindows, Range
  <2>2. PICK p \in Periods, b \in Nat : p = key.limits[i].period /\ b = key.limits[i].budget
    BY <1>1, LimitsAre DEF SavedWindows
  <2>3. PICK u : u = IF p \in reported THEN key.used[p] ELSE 0
    OBVIOUS
  <2>4. u \in Nat
    BY <1>1, <2>3, KeyFields, Numbers
  <2>5. PICK n \in BOOLEAN : n = (p \in reported)
    <3>1. (p \in reported) \in BOOLEAN
      OBVIOUS
    <3>. QED
      BY <3>1, Zenon
  <2>6. w = [period |-> p, limit |-> b, used |-> u, known |-> n]
    BY <2>1, <2>2, <2>3, <2>5 DEF Reading
  <2>7. w \in Readings /\ w.limit = b /\ w.used = u /\ w.known = n
    BY <2>2, <2>4, <2>6 DEF Readings
  <2>8. ASSUME p \in reported, u >= b PROVE Refuses
    BY <2>2, <2>3, <2>8 DEF Refuses, KeyRefuses
  <2>. QED
    BY <2>5, <2>7, <2>8
<1>4. ASSUME NEW w \in keyWindows(reported), DOMAIN key.limits = {}
      PROVE  w \in Readings /\ (w.limit > 0 /\ w.used >= w.limit => Refuses)
  <2>1. /\ w = [period |-> key.period, limit |-> key.max, used |-> key.spend, known |-> TRUE]
        /\ key.max # 0 /\ key.period # NoPeriod
    BY <1>4 DEF keyWindows, Reading
  <2>2. key.period \in Periods /\ key.max \in Nat /\ key.spend \in Nat
    BY <1>1, <2>1, KeyFields
  <2>3. w \in Readings /\ w.limit = key.max /\ w.used = key.spend
    BY <2>1, <2>2 DEF Readings
  <2>. QED
    BY <2>3 DEF Refuses, KeyRefuses
<1>5. ASSUME NEW w \in Windows(reported)
      PROVE  w \in Readings /\ (w.known /\ w.limit > 0 /\ w.used >= w.limit => Refuses)
  BY <1>2, <1>3, <1>4, <1>5 DEF Windows
<1>. QED
  BY <1>5

(* A hundred percent is the truth.                                          *)
LEMMA FullMeansRefused ==
  ASSUME IInv, key.there, NEW reported \in SUBSET Periods, Headline(reported) = 100
  PROVE  Refuses
<1>1. user \in Users /\ key \in Keys /\ OwnerShape /\ KeyShape
  BY DEF IInv, TypeOK
<1>2. PICK ws : ws = quotaWindows(reported)
  OBVIOUS
<1>3. CASE ws = {}
  <2>1. Quota = 100
    BY <1>2, <1>3 DEF Headline
  <2>2. CASE user.there /\ user.max > 0
    <3>1. quotaPct(user.spend, user.max) = 100
      BY <2>1, <2>2 DEF Quota
    <3>2. user.spend >= user.max /\ user.spend \in Nat
      BY <1>1, <3>1, UserFields, PctIs
    <3>3. user.spend # 0 /\ key.bound \in BOOLEAN
      BY <1>1, <2>2, <3>2, UserFields, KeyFields
    <3>4. key.bound
      BY <1>1, <3>3 DEF OwnerShape
    <3>. QED
      BY <2>2, <3>2, <3>4 DEF Refuses, OwnerRefuses
  <2>3. CASE ~(user.there /\ user.max > 0)
    <3>1. quotaPct(key.spend, key.max) = 100
      BY <2>1, <2>3 DEF Quota
    <3>2. key.max > 0 /\ key.spend >= key.max
      BY <1>1, <3>1, KeyFields, PctIs
    <3>. QED
      BY <3>2 DEF Refuses, KeyRefuses
  <2>. QED
    BY <2>2, <2>3
<1>4. CASE ws # {}
  <2>1. ws = Windows(reported) /\ \A w \in ws : w.known
    BY <1>2, <1>4 DEF quotaWindows
  <2>2. ws \in SUBSET Readings
    BY <2>1, WindowsAre
  <2>3. PICK w \in ws : w = bindingWindow(ws)
    BY <1>4, <2>2, BindingIs
  <2>4. quotaPct(w.used, w.limit) = 100
    BY <1>2, <1>4, <2>3 DEF Headline
  <2>5. w.used \in Nat /\ w.limit \in Nat
    BY <2>2 DEF Readings
  <2>6. w.limit > 0 /\ w.used >= w.limit
    BY <2>4, <2>5, PctIs
  <2>. QED
    BY <2>1, <2>6, WindowsAre
<1>. QED
  BY <1>3, <1>4

(* With every figure there, a window that is used up shows.                 *)
LEMMA RefusedMeansFull ==
  ASSUME IInv, key.there, Refuses PROVE Headline(Periods) = 100
<1>1. user \in Users /\ key \in Keys /\ OwnerShape /\ KeyShape
  BY DEF IInv, TypeOK
<1>2. PICK ws : ws = Windows(Periods)
  OBVIOUS
<1>3. ws \in SUBSET Readings
  BY <1>2, WindowsAre
<1>4. ws = quotaWindows(Periods)
  <2>1. \A w \in userWindow : w.known
    BY DEF userWindow, Reading
  <2>2. \A w \in keyWindows(Periods) : w.known
    <3>1. CASE DOMAIN key.limits # {}
      <4>1. \A i \in DOMAIN key.limits : key.limits[i].period \in Periods
        BY <1>1, LimitsAre DEF SavedWindows
      <4>. TAKE w \in keyWindows(Periods)
      <4>2. PICK i \in DOMAIN key.limits :
              w = LET p == key.limits[i].period
                  IN Reading(p, key.limits[i].budget,
                             IF p \in Periods THEN key.used[p] ELSE 0, p \in Periods)
        BY <3>1 DEF keyWindows, Range
      <4>3. PICK n \in BOOLEAN : n = (key.limits[i].period \in Periods) /\ n = TRUE
        BY <4>1
      <4>4. w.known = n
        BY <4>2, <4>3 DEF Reading
      <4>. QED
        BY <4>3, <4>4
    <3>2. CASE DOMAIN key.limits = {}
      BY <3>2 DEF keyWindows, Reading
    <3>. QED
      BY <3>1, <3>2
  <2>. QED
    BY <1>2, <2>1, <2>2 DEF quotaWindows, Windows
<1>5. \E w \in ws : w.limit > 0 /\ w.used >= w.limit
  <2>1. CASE OwnerRefuses
    <3>1. user.max > 0 /\ user.spend >= user.max
      BY <2>1 DEF OwnerRefuses
    <3>2. user.there /\ user.period # NoPeriod /\ user.max # 0
      BY <1>1, <3>1 DEF OwnerShape
    <3>3. Reading(user.period, user.max, user.spend, TRUE) \in ws
      BY <1>2, <3>2 DEF Windows, userWindow
    <3>. QED
      BY <3>1, <3>3 DEF Reading
  <2>2. CASE key.max > 0 /\ key.spend >= key.max
    <3>1. DOMAIN key.limits = {} /\ key.period # NoPeriod /\ key.max # 0
      BY <1>1, <2>2 DEF KeyShape
    <3>2. Reading(key.period, key.max, key.spend, TRUE) \in ws
      BY <1>2, <3>1 DEF Windows, keyWindows
    <3>. QED
      BY <2>2, <3>2 DEF Reading
  <2>3. ASSUME NEW i \in DOMAIN key.limits,
               key.used[key.limits[i].period] >= key.limits[i].budget
        PROVE  \E w \in ws : w.limit > 0 /\ w.used >= w.limit
    <3>1. PICK p \in Periods, b \in Nat \ {0} : p = key.limits[i].period /\ b = key.limits[i].budget
      BY <1>1, LimitsAre DEF SavedWindows
    <3>2. PICK w : w = Reading(p, b, key.used[p], TRUE)
      OBVIOUS
    <3>3. w \in keyWindows(Periods)
      BY <3>1, <3>2 DEF keyWindows, Range, Reading
    <3>4. w.limit = b /\ w.used = key.used[p]
      BY <3>2 DEF Reading
    <3>. QED
      BY <1>2, <2>3, <3>1, <3>3, <3>4 DEF Windows
  <2>. QED
    BY <2>1, <2>2, <2>3 DEF Refuses, KeyRefuses
<1>6. PICK w \in ws : w.limit > 0 /\ w.used >= w.limit
  BY <1>5
<1>7. PICK v \in ws : /\ v = bindingWindow(ws)
                      /\ quotaPct(w.used, w.limit) <= quotaPct(v.used, v.limit)
  BY <1>3, <1>6, BindingIs
<1>8. quotaPct(w.used, w.limit) = 100 /\ quotaPct(v.used, v.limit) \in 0..100
  <2>1. PICK u \in Nat, l \in Nat : u = w.used /\ l = w.limit
    BY <1>3 DEF Readings
  <2>2. quotaPct(u, l) = 100
    BY <1>6, <2>1, PctIs
  <2>3. PICK a \in Nat, b \in Nat : a = v.used /\ b = v.limit
    BY <1>3 DEF Readings
  <2>4. quotaPct(a, b) \in 0..100
    BY PctIs
  <2>. QED
    BY <2>1, <2>2, <2>3, <2>4
<1>9. quotaPct(v.used, v.limit) = 100
  BY <1>7, <1>8
<1>. QED
  BY <1>4, <1>6, <1>7, <1>9 DEF Headline

(* The dashboard says 100% exactly when the gateway refuses the next        *)
(* request, as far as the gateway gives figures (ui.go:710-866), for any    *)
(* lists of windows on the key and any counters.                            *)
THEOREM HeadlineTellsTheTruth == Spec => []HeadlineIsHonest
<1>1. IInv => HeadlineIsHonest
  BY FullMeansRefused, RefusedMeansFull DEF HeadlineIsHonest
<1>. QED
  BY <1>1, Invariance, PTL
=============================================================================
