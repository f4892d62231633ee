--------------------------- MODULE Reminder_proofs ---------------------------
(***************************************************************************)
(* Theorems about Reminder, for every set of users, refused or not, all    *)
(* thresholds and durations, and any number of edits and failures.         *)
(***************************************************************************)
EXTENDS Reminder, TLAPS

-----------------------------------------------------------------------------
(* What single steps make of the variables. *)

LEMMA ThresholdsCount == Len(Thresholds) \in Nat \ {0} /\ T = 1..Len(Thresholds) /\ 1 \in T
  BY ReminderAssumption DEF T

LEMMA StartingIs ==
  /\ Starting \in Runs /\ Starting.at = "find" /\ Starting.todo = {}
  /\ [Starting EXCEPT !.at = "down"] \in Runs
  /\ [Starting EXCEPT !.at = "down"].at = "down"
  /\ [Starting EXCEPT !.at = "down"].todo = {}
<1>1. (CHOOSE u \in Users : TRUE) \in Users
  BY ReminderAssumption
<1>2. PICK c \in Copies : c = Nothing
  <2>1. 0 \in Ids
    BY ReminderAssumption DEF Ids
  <2>. QED
    BY <1>1, <2>1 DEF Nothing, Copies, NoKey
<1>3. Starting = [at |-> "find", t |-> 1, todo |-> {}, cur |-> c]
  BY <1>2 DEF Starting
<1>4. [Starting EXCEPT !.at = "down"] = [at |-> "down", t |-> 1, todo |-> {}, cur |-> c]
  BY <1>3
<1>5. 1 \in T
  BY ThresholdsCount
<1>6. Starting \in Runs /\ Starting.at = "find" /\ Starting.todo = {}
  BY <1>2, <1>3, <1>5 DEF Runs
<1>7. [Starting EXCEPT !.at = "down"] \in Runs
  BY <1>2, <1>4, <1>5 DEF Runs
<1>. QED
  BY <1>4, <1>6, <1>7

(* The runner's steps within a list. *)
LEMMA TakenIs ==
  ASSUME run \in Runs, NEW c \in run.todo
  PROVE  /\ Taken(c) \in Runs /\ Taken(c).at = run.at /\ Taken(c).t = run.t
         /\ Taken(c).todo = run.todo \ {c} /\ Taken(c).cur = run.cur
<1>1. PICK S \in SUBSET Copies : S = run.todo \ {c}
  BY DEF Runs
<1>2. Taken(c) = [run EXCEPT !.todo = S]
  BY <1>1 DEF Taken
<1>. QED
  BY <1>1, <1>2 DEF Runs

LEMMA InHandIs ==
  ASSUME run \in Runs, NEW c \in run.todo,
         run' = [Taken(c) EXCEPT !.at = "record", !.cur = c]
  PROVE  /\ run' \in Runs /\ run'.at = "record" /\ run'.t = run.t
         /\ run'.todo = run.todo \ {c} /\ run'.cur = c
<1>1. PICK r \in Runs : r = Taken(c) /\ r.t = run.t /\ r.todo = run.todo \ {c}
  BY TakenIs
<1>2. c \in Copies
  BY DEF Runs
<1>. QED
  BY <1>1, <1>2 DEF Runs

LEMMA GotoIs ==
  ASSUME run \in Runs, NEW at \in {"next", "record"}, Goto(at)
  PROVE  /\ run' \in Runs /\ run'.at = at /\ run'.t = run.t
         /\ run'.todo = run.todo /\ run'.cur = run.cur
  BY DEF Goto, Runs

(* Deliveries and loose ends are counted for the date a key has now.        *)
LEMMA DeliveredDoes ==
  ASSUME mailed \in [Users -> [T -> Nat]], NEW c, c.u \in Users, NEW t \in T, Delivered(c, t)
  PROVE  /\ mailed' \in [Users -> [T -> Nat]]
         /\ \A u \in Users, s \in T :
              mailed'[u][s] = IF About(c) /\ u = c.u /\ s = t
                                THEN mailed[u][s] + 1 ELSE mailed[u][s]
<1>1. PICK v \in Users : v = c.u
  OBVIOUS
<1>2. CASE About(c)
  <2>0. PICK g \in [T -> Nat] : g = mailed[v]
    OBVIOUS
  <2>1. PICK f \in [T -> Nat] : f = [g EXCEPT ![t] = g[t] + 1]
    <3>1. g[t] + 1 \in Nat
      OBVIOUS
    <3>2. [g EXCEPT ![t] = g[t] + 1] \in [T -> Nat]
      BY <3>1
    <3>. QED
      BY <3>2
  <2>2. mailed' = [mailed EXCEPT ![v] = f]
    BY <1>1, <1>2, <2>0, <2>1 DEF Delivered
  <2>3. mailed' \in [Users -> [T -> Nat]]
    BY <2>1, <2>2
  <2>4. \A s \in T : f[s] = IF s = t THEN mailed[v][s] + 1 ELSE mailed[v][s]
    BY <2>0, <2>1
  <2>5. \A u \in Users : mailed'[u] = IF u = v THEN f ELSE mailed[u]
    BY <2>1, <2>2
  <2>. QED
    BY <1>1, <1>2, <2>3, <2>4, <2>5
<1>3. CASE ~About(c)
  BY <1>3 DEF Delivered
<1>. QED
  BY <1>2, <1>3

LEMMA LeftLooseDoes ==
  ASSUME loose \in [Users -> SUBSET T], NEW c, c.u \in Users, NEW t \in T, LeftLoose(c, t)
  PROVE  /\ loose' \in [Users -> SUBSET T]
         /\ \A u \in Users :
              loose'[u] = IF About(c) /\ u = c.u THEN loose[u] \union {t} ELSE loose[u]
<1>1. CASE About(c)
  BY <1>1 DEF LeftLoose
<1>2. CASE ~About(c)
  BY <1>2 DEF LeftLoose
<1>. QED
  BY <1>1, <1>2

LEMMA FaultDoes ==
  ASSUME faults \in 0..MaxFaults, Fault \/ UNCHANGED faults
  PROVE  faults' \in 0..MaxFaults
  BY ReminderAssumption DEF Fault

-----------------------------------------------------------------------------
LEMMA InitIInv == Init => IInv
<1>. SUFFICES ASSUME Init PROVE IInv
  OBVIOUS
<1>1. TypeOK
  <2>1. NoRow \in Rows
    BY ReminderAssumption DEF NoRow, Rows, Ids, NoKey
  <2>. QED
    BY <2>1, StartingIs, ReminderAssumption DEF Init, TypeOK
<1>2. NoRow.id = 0 /\ NoRow.date = 0
  BY DEF NoRow, NoKey
<1>. QED
  BY <1>1, <1>2, StartingIs
  DEF Init, IInv, Numbered, OneCopy, Accounted, Untouched, AtRecord, AtMostOnce, NoticeIsHonest

-----------------------------------------------------------------------------
(* What happens to keys: a copy stands for a key until the key has a new    *)
(* date, which no copy has, or is gone.                                     *)

LEMMA FreshIInv ==
  ASSUME IInv, NEW u \in Users, NEW r \in Rows, Edit,
         r.id <= edits + 1, r.date <= edits + 1,
         r.id = NoKey \/ r.date = edits + 1,
         row' = [row EXCEPT ![u] = r],
         notices' = [notices EXCEPT ![u] = {}],
         NewDate(u), UNCHANGED <<run, late, ctx, smtp, faults>>
  PROVE  IInv'
<1>1. edits \in 0..MaxEdits /\ edits' = edits + 1 /\ edits' \in 0..MaxEdits
  BY ReminderAssumption DEF IInv, TypeOK, Edit
<1>2. PICK z \in [T -> Nat] : z = [t \in T |-> 0]
  OBVIOUS
<1>3. mailed' = [mailed EXCEPT ![u] = z] /\ \A t \in T : z[t] = 0
  BY <1>2 DEF NewDate
<1>4. TypeOK'
  <2>1. mailed' \in [Users -> [T -> Nat]]
    BY <1>3 DEF IInv, TypeOK
  <2>2. loose' \in [Users -> SUBSET T] /\ untold' \in [Users -> SUBSET T]
    BY DEF IInv, TypeOK, NewDate
  <2>. QED
    BY <1>1, <2>1, <2>2 DEF IInv, TypeOK
<1>5. /\ row'[u] = r /\ mailed'[u] = z
      /\ notices'[u] = {} /\ loose'[u] = {} /\ untold'[u] = {}
  BY <1>3 DEF IInv, TypeOK, NewDate
<1>6. \A v \in Users \ {u} :
        /\ row'[v] = row[v] /\ notices'[v] = notices[v] /\ mailed'[v] = mailed[v]
        /\ loose'[v] = loose[v] /\ untold'[v] = untold[v]
  BY <1>3 DEF IInv, TypeOK, NewDate
<1>7. \A v \in Users : row[v].id \in Nat /\ row[v].date \in Nat
  BY ReminderAssumption DEF IInv, TypeOK, Rows, Ids
<1>8. ASSUME NEW c, c.u \in Users, c.id # NoKey, c.date \in Nat, c.date <= edits
      PROVE  About(c)' => c.u # u /\ About(c)
  BY <1>1, <1>5, <1>6, <1>8 DEF About
<1>9. /\ \A c \in run.todo : c.u \in Users /\ c.id # NoKey /\ c.date \in Nat /\ c.date <= edits
      /\ run.at = "record" => /\ run.cur.u \in Users /\ run.cur.id # NoKey
                              /\ run.cur.date \in Nat /\ run.cur.date <= edits
      /\ \A m \in late : m.u \in Users /\ m.id # NoKey /\ m.date \in Nat /\ m.date <= edits
  BY ReminderAssumption DEF IInv, TypeOK, Numbered, Runs, Copies, Mails, Ids
<1>10. Numbered'
  <2>1. \A v \in Users : row'[v].id <= edits + 1 /\ row'[v].date <= edits + 1
    BY <1>1, <1>5, <1>6, <1>7 DEF IInv, Numbered
  <2>. QED
    BY <1>1, <1>9, <2>1 DEF Numbered, IInv
<1>11. OneCopy'
  BY DEF IInv, OneCopy
<1>12. Accounted'
  <2>. SUFFICES ASSUME NEW v \in Users, NEW t \in T, mailed'[v][t] > 0
                PROVE  \/ t \in notices'[v] \union loose'[v]
                       \/ /\ run'.at = "record" /\ run'.t = t
                          /\ run'.cur.u = v /\ About(run.cur)'
    BY DEF Accounted
  <2>1. v # u
    BY <1>3, <1>5
  <2>2. \/ t \in notices[v] \union loose[v]
        \/ run.at = "record" /\ run.t = t /\ run.cur.u = v /\ About(run.cur)
    BY <1>6, <2>1 DEF IInv, Accounted
  <2>. QED
    BY <1>6, <2>1, <2>2 DEF About
<1>13. Untouched'
  BY <1>6, <1>8, <1>9 DEF IInv, Untouched
<1>14. AtRecord'
  BY <1>6, <1>8, <1>9 DEF IInv, AtRecord
<1>15. AtMostOnce' /\ NoticeIsHonest'
  BY <1>3, <1>5, <1>6 DEF IInv, AtMostOnce, NoticeIsHonest
<1>. QED
  BY <1>4, <1>10, <1>11, <1>12, <1>13, <1>14, <1>15 DEF IInv

(* A step after which every key has the id and the date it had.             *)
LEMMA SameKeysIInv ==
  ASSUME IInv, row' \in [Users -> Rows],
         \A u \in Users : row'[u].id = row[u].id /\ row'[u].date = row[u].date,
         edits' = edits \/ Edit,
         ctx' \in BOOLEAN,
         Fault \/ UNCHANGED faults,
         UNCHANGED <<notices, run, late, smtp, mailed, loose, untold>>
  PROVE  IInv'
<1>1. edits \in 0..MaxEdits /\ edits' \in 0..MaxEdits /\ edits <= edits'
  BY ReminderAssumption DEF IInv, TypeOK, Edit
<1>2. TypeOK'
  BY <1>1, FaultDoes DEF IInv, TypeOK
<1>3. ASSUME NEW c, c.u \in Users
      PROVE  About(c)' <=> About(c)
  BY <1>3 DEF About
<1>4. /\ \A c \in run.todo : c.u \in Users /\ c.date \in Nat
      /\ run.cur.u \in Users /\ run.cur.date \in Nat
      /\ \A m \in late : m.u \in Users /\ m.date \in Nat
      /\ \A v \in Users : row[v].id \in Nat /\ row[v].date \in Nat
  <2>1. run.todo \subseteq Copies /\ run.cur \in Copies /\ late \subseteq Mails
    BY DEF IInv, TypeOK, Runs
  <2>2. \A v \in Users : row[v] \in Rows
    BY DEF IInv, TypeOK
  <2>3. Ids \subseteq Nat
    BY ReminderAssumption DEF Ids
  <2>4. \A c \in Copies : c.u \in Users /\ c.date \in Nat
    BY <2>3 DEF Copies
  <2>5. \A m \in Mails : m.u \in Users /\ m.date \in Nat
    BY <2>3 DEF Mails
  <2>6. \A r \in Rows : r.id \in Nat /\ r.date \in Nat
    BY <2>3 DEF Rows
  <2>. QED
    BY <2>1, <2>2, <2>4, <2>5, <2>6
<1>5. Numbered'
  BY <1>1, <1>4 DEF IInv, Numbered
<1>6. OneCopy' /\ AtMostOnce' /\ NoticeIsHonest'
  BY DEF IInv, OneCopy, AtMostOnce, NoticeIsHonest
<1>7. Accounted' /\ Untouched' /\ AtRecord'
  BY <1>3, <1>4 DEF IInv, Accounted, Untouched, AtRecord
<1>. QED
  BY <1>2, <1>5, <1>6, <1>7 DEF IInv

LEMMA KeysIInv ==
  ASSUME IInv,
         \/ \E u \in Users : \/ Delete(u) \/ ToggleMissing(u)
                             \/ \E d \in Durations : Generate(u, d) \/ Extend(u, d)
         \/ Day \/ Stop
  PROVE  IInv'
<1>. USE ReminderAssumption
<1>1. edits \in 0..MaxEdits /\ \A u \in Users : row[u] \in Rows
  BY DEF IInv, TypeOK
<1>2. ASSUME NEW u \in Users, Delete(u) PROVE IInv'
  <2>1. NoRow \in Rows /\ NoRow.id = NoKey /\ NoRow.id = 0 /\ NoRow.date = 0
    BY DEF NoRow, Rows, Ids, NoKey
  <2>2. 0 <= edits + 1
    BY <1>1
  <2>3. PICK r \in Rows : r = NoRow /\ r.id = NoKey /\ r.id <= edits + 1 /\ r.date <= edits + 1
    BY <2>1, <2>2
  <2>. QED
    BY <1>2, <2>3, FreshIInv DEF Delete
<1>3. ASSUME NEW u \in Users, NEW d \in Durations, Generate(u, d) PROVE IInv'
  <2>1. PICK r : r = [id |-> edits + 1, date |-> edits + 1, left |-> d, missing |-> FALSE]
    OBVIOUS
  <2>2. r \in Rows /\ r.id <= edits + 1 /\ r.date <= edits + 1 /\ r.date = edits + 1
    BY <1>1, <1>3, <2>1 DEF Generate, Edit, Rows, Ids
  <2>. QED
    BY <1>3, <2>1, <2>2, FreshIInv DEF Generate
<1>4. ASSUME NEW u \in Users, NEW d \in Durations, Extend(u, d) PROVE IInv'
  <2>1. PICK q \in Rows : q = row[u] /\ q.id <= edits
    BY <1>1 DEF IInv, Numbered
  <2>2. PICK r : r = [q EXCEPT !.date = edits + 1, !.left = d]
    OBVIOUS
  <2>3. r \in Rows /\ r.id <= edits + 1 /\ r.date <= edits + 1 /\ r.date = edits + 1
    <3>1. edits + 1 \in Ids /\ d \in Nat /\ edits + 1 <= edits + 1
      BY <1>1, <1>4 DEF Extend, Edit, Ids
    <3>2. r \in Rows /\ r.id = q.id /\ r.date = edits + 1
      BY <2>2, <3>1 DEF Rows
    <3>3. q.id \in Nat
      BY DEF Rows, Ids
    <3>. QED
      BY <1>1, <2>1, <3>1, <3>2, <3>3
  <2>4. row' = [row EXCEPT ![u] = r]
    BY <1>4, <2>1, <2>2 DEF Extend, IInv, TypeOK
  <2>. QED
    BY <1>4, <2>3, <2>4, FreshIInv DEF Extend
<1>5. ASSUME NEW u \in Users, ToggleMissing(u) PROVE IInv'
  <2>1. PICK q \in Rows : q = row[u]
    BY <1>1
  <2>2. PICK r : r = [q EXCEPT !.missing = ~q.missing]
    OBVIOUS
  <2>3. r \in Rows /\ r.id = q.id /\ r.date = q.date
    BY <2>2 DEF Rows
  <2>4. row' = [row EXCEPT ![u] = r]
    BY <1>5, <2>1, <2>2 DEF ToggleMissing
  <2>5. row' \in [Users -> Rows]
    BY <2>3, <2>4 DEF IInv, TypeOK
  <2>6. \A v \in Users : row'[v].id = row[v].id /\ row'[v].date = row[v].date
    BY <2>1, <2>3, <2>4 DEF IInv, TypeOK
  <2>7. ctx' \in BOOLEAN
    BY <1>5 DEF ToggleMissing, IInv, TypeOK
  <2>. QED
    BY <1>5, <2>5, <2>6, <2>7, SameKeysIInv DEF ToggleMissing
<1>6. ASSUME Day PROVE IInv'
  <2>1. \A v \in Users : /\ row'[v] \in Rows
                         /\ row'[v].id = row[v].id /\ row'[v].date = row[v].date
    <3>. SUFFICES ASSUME NEW v \in Users
                  PROVE  /\ row'[v] \in Rows
                         /\ row'[v].id = row[v].id /\ row'[v].date = row[v].date
      OBVIOUS
    <3>1. PICK q \in Rows : q = row[v]
      BY <1>1
    <3>2. PICK n \in Nat : n = IF q.left = 0 THEN 0 ELSE q.left - 1
      BY DEF Rows
    <3>3. row'[v] = [q EXCEPT !.left = n]
      BY <1>6, <3>1, <3>2 DEF Day
    <3>. QED
      BY <3>1, <3>3 DEF Rows
  <2>2. row' \in [Users -> Rows]
    BY <1>6, <2>1 DEF Day
  <2>3. ctx' \in BOOLEAN
    BY <1>6 DEF Day, IInv, TypeOK
  <2>. QED
    BY <1>6, <2>1, <2>2, <2>3, SameKeysIInv DEF Day
<1>7. ASSUME Stop PROVE IInv'
  BY <1>7, SameKeysIInv DEF Stop, IInv, TypeOK
<1>. QED
  BY <1>2, <1>3, <1>4, <1>5, <1>6, <1>7

-----------------------------------------------------------------------------
(* The reminder's steps. None gives a key a date, so what is about its key  *)
(* stays so.                                                                *)

LEMMA CopiesIn ==
  ASSUME IInv
  PROVE  /\ run \in Runs /\ run.t \in T /\ run.cur \in Copies /\ run.cur.u \in Users
         /\ \A c \in run.todo : c \in Copies /\ c.u \in Users
         /\ \A m \in late : m \in Mails /\ m.u \in Users /\ m.t \in T
<1>1. run \in Runs /\ late \subseteq Mails
  BY DEF IInv, TypeOK
<1>2. run.t \in T /\ run.cur \in Copies /\ run.todo \subseteq Copies
  BY <1>1 DEF Runs
<1>3. /\ \A c \in Copies : c.u \in Users
      /\ \A m \in Mails : m.u \in Users /\ m.t \in T
  BY DEF Copies, Mails
<1>. QED
  BY <1>1, <1>2, <1>3

(* The run ends or goes on to the next list; a notice in hand is lost.      *)
LEMMA RestsIInv ==
  ASSUME IInv, run' \in Runs, run'.todo = {}, run'.at \notin {"next", "record"},
         late' \subseteq late, ctx' \in BOOLEAN, smtp' \in BOOLEAN,
         Fault \/ UNCHANGED faults,
         IF run.at = "record" THEN LeftLoose(run.cur, run.t) ELSE UNCHANGED loose,
         UNCHANGED <<row, notices, edits, mailed, untold>>
  PROVE  IInv'
<1>1. /\ loose' \in [Users -> SUBSET T]
      /\ \A u \in Users : loose[u] \subseteq loose'[u]
      /\ run.at = "record" /\ About(run.cur) => run.t \in loose'[run.cur.u]
  <2>1. loose \in [Users -> SUBSET T] /\ run.cur.u \in Users /\ run.t \in T
    BY CopiesIn DEF IInv, TypeOK
  <2>2. CASE run.at = "record"
    <3>1. LeftLoose(run.cur, run.t)
      BY <2>2
    <3>2. /\ loose' \in [Users -> SUBSET T]
          /\ \A u \in Users : loose'[u] = IF About(run.cur) /\ u = run.cur.u
                                           THEN loose[u] \union {run.t} ELSE loose[u]
      BY <2>1, <3>1, LeftLooseDoes
    <3>. QED
      BY <2>1, <3>2
  <2>3. CASE run.at # "record"
    BY <2>1, <2>3
  <2>. QED
    BY <2>2, <2>3
<1>2. TypeOK'
  BY <1>1, FaultDoes DEF IInv, TypeOK
<1>3. Numbered' /\ OneCopy' /\ AtRecord'
  BY DEF IInv, Numbered, OneCopy, AtRecord
<1>4. Accounted'
  <2>. SUFFICES ASSUME NEW u \in Users, NEW t \in T, mailed[u][t] > 0
                PROVE  t \in notices[u] \union loose'[u]
    BY DEF Accounted
  <2>1. CASE t \in notices[u] \union loose[u]
    BY <1>1, <2>1
  <2>2. CASE run.at = "record" /\ run.t = t /\ run.cur.u = u /\ About(run.cur)
    BY <1>1, <2>2
  <2>. QED
    BY <2>1, <2>2 DEF IInv, Accounted
<1>5. Untouched'
  BY <1>1, CopiesIn DEF IInv, Untouched, About
<1>6. AtMostOnce' /\ NoticeIsHonest'
  BY <1>1 DEF IInv, AtMostOnce, NoticeIsHonest
<1>. QED
  BY <1>2, <1>3, <1>4, <1>5, <1>6 DEF IInv

LEMMA RunsIInv ==
  ASSUME IInv, Tick \/ FindFails \/ ListDone \/ Exit \/ Restart
  PROVE  IInv'
<1>1. run \in Runs /\ ctx \in BOOLEAN /\ smtp \in BOOLEAN
  BY DEF IInv, TypeOK
<1>2. CASE Tick
  BY <1>1, <1>2, StartingIs, RestsIInv DEF Tick
<1>3. CASE FindFails
  <2>1. run' \in Runs /\ run'.at = "wait" /\ run'.todo = {}
    <3>1. run.todo = {}
      BY <1>3 DEF FindFails, IInv, OneCopy
    <3>. QED
      BY <1>1, <1>3, <3>1, ThresholdsCount DEF FindFails, Runs
  <2>. QED
    BY <1>1, <1>3, <2>1, RestsIInv DEF FindFails
<1>4. CASE ListDone
  <2>0. PICK n \in Copies : n = Nothing
    BY StartingIs, Zenon DEF Starting, Runs
  <2>1. run' \in Runs /\ run'.at \in {"find", "wait"} /\ run'.todo = {}
    <3>1. CASE run.t < Len(Thresholds)
      <4>1. run.t + 1 \in T
        BY <1>1, <3>1, ThresholdsCount DEF Runs
      <4>. QED
        BY <1>1, <1>4, <2>0, <3>1, <4>1 DEF ListDone, Advance, Runs
    <3>2. CASE ~(run.t < Len(Thresholds))
      BY <1>1, <1>4, <2>0, <3>2, ThresholdsCount DEF ListDone, Advance, Runs
    <3>. QED
      BY <3>1, <3>2
  <2>. QED
    BY <1>1, <1>4, <2>1, RestsIInv DEF ListDone
<1>5. CASE Exit
  BY <1>1, <1>5, StartingIs, RestsIInv DEF Exit
<1>6. CASE Restart
  BY <1>1, <1>6, StartingIs, RestsIInv DEF Restart
<1>. QED
  BY <1>2, <1>3, <1>4, <1>5, <1>6

(* A list has one copy of each key due, with the key's present date.        *)
LEMMA FindIInv ==
  ASSUME IInv, Find PROVE IInv'
<1>1. PICK D \in SUBSET Users : D = {v \in Users : Due(v, run.t)}
  OBVIOUS
<1>2. \A v \in Users : Copy(v) \in Copies
  BY DEF IInv, TypeOK, Rows, Copy, Copies
<1>3. PICK S \in SUBSET Copies : S = {Copy(u) : u \in D}
  BY <1>1, <1>2
<1>4. run' \in Runs /\ run'.at = "next" /\ run'.t = run.t /\ run'.todo = S
  BY <1>1, <1>3 DEF Find, IInv, TypeOK, Runs
<1>5. TypeOK'
  BY <1>4 DEF IInv, TypeOK, Find
<1>6. \A c \in S : /\ c.u \in Users /\ c = Copy(c.u) /\ Due(c.u, run.t)
                   /\ c.id = row[c.u].id /\ c.date = row[c.u].date
  BY <1>1, <1>3 DEF Copy
<1>7. Numbered'
  BY <1>4, <1>6 DEF IInv, Numbered, Find, Due
<1>8. OneCopy'
  BY <1>4, <1>6 DEF OneCopy
<1>9. Accounted'
  BY <1>4 DEF IInv, Accounted, Find, About
<1>10. Untouched'
  BY <1>4, <1>6, CopiesIn DEF IInv, Untouched, Find, About, Due
<1>11. AtRecord' /\ AtMostOnce' /\ NoticeIsHonest'
  BY <1>4 DEF IInv, AtRecord, AtMostOnce, NoticeIsHonest, Find
<1>. QED
  BY <1>5, <1>7, <1>8, <1>9, <1>10, <1>11 DEF IInv

(* Notify reports an error. A mail that may still be delivered is loose.    *)
LEMMA PassedIInv ==
  ASSUME IInv, NEW c \in run.todo, SendFails(c) \/ GiveUp(c) PROVE IInv'
<1>. DEFINE m == [u |-> c.u, id |-> c.id, date |-> c.date, t |-> run.t]
<1>1. /\ run' \in Runs /\ run'.at = "next" /\ run.at = "next" /\ run'.t = run.t
      /\ run'.todo = run.todo \ {c} /\ run'.cur = run.cur
  BY CopiesIn, TakenIs DEF SendFails, GiveUp
<1>2. m \in Mails /\ m.u = c.u /\ m.id = c.id /\ m.date = c.date /\ m.t = run.t
  BY CopiesIn DEF Copies, Mails
<1>3. late' \subseteq late \union {m}
  BY DEF SendFails, GiveUp
<1>4. /\ loose' \in [Users -> SUBSET T]
      /\ \A u \in Users : loose[u] \subseteq loose'[u]
      /\ m \in late' /\ m \notin late /\ About(c) => run.t \in loose'[c.u]
  <2>1. CASE SendFails(c)
    BY <2>1 DEF SendFails, IInv, TypeOK
  <2>2. CASE GiveUp(c)
    BY <2>2, CopiesIn, LeftLooseDoes DEF GiveUp, IInv, TypeOK
  <2>. QED
    BY <2>1, <2>2
<1>5. Fault \/ UNCHANGED faults
  BY DEF SendFails, GiveUp
<1>6. UNCHANGED <<row, notices, ctx, smtp, edits, mailed, untold>>
  BY DEF SendFails, GiveUp
<1>7. TypeOK'
  BY <1>1, <1>2, <1>3, <1>4, <1>5, <1>6, FaultDoes DEF IInv, TypeOK
<1>8. Numbered'
  BY <1>1, <1>2, <1>3, <1>6 DEF IInv, Numbered
<1>9. OneCopy'
  BY <1>1 DEF IInv, OneCopy
<1>10. Accounted'
  BY <1>1, <1>4, <1>6 DEF IInv, Accounted
<1>11. Untouched'
  <2>1. \A d \in run'.todo : About(d)' => run'.t \notin notices'[d.u]
    BY <1>1, <1>6 DEF IInv, Untouched, About
  <2>2. \A n \in late' : About(n)' => n.t \in loose'[n.u]
    BY <1>2, <1>3, <1>4, <1>6, CopiesIn DEF IInv, Untouched, About
  <2>. QED
    BY <1>1, <2>1, <2>2 DEF Untouched
<1>12. AtRecord' /\ AtMostOnce' /\ NoticeIsHonest'
  BY <1>1, <1>4, <1>6 DEF IInv, AtRecord, AtMostOnce, NoticeIsHonest
<1>. QED
  BY <1>7, <1>8, <1>9, <1>10, <1>11, <1>12 DEF IInv

(* A mail is delivered, or dropped, and its notice taken in hand. A mail    *)
(* delivered before was left loose: the copy was listed without a notice.   *)
LEMMA InHandIInv ==
  ASSUME IInv, NEW c \in run.todo, Send(c) \/ Discard(c) PROVE IInv'
<1>1. /\ run' \in Runs /\ run'.at = "record" /\ run.at = "next" /\ run'.t = run.t
      /\ run'.todo = run.todo \ {c} /\ run'.cur = c
  BY CopiesIn, InHandIs DEF Send, Discard
<1>2. run.t \in T /\ c.u \in Users
  BY CopiesIn
<1>3. UNCHANGED <<row, notices, late, ctx, smtp, edits, faults, loose, untold>>
  BY DEF Send, Discard
<1>4. /\ mailed' \in [Users -> [T -> Nat]]
      /\ \A u \in Users, s \in T :
           \/ mailed'[u][s] = mailed[u][s]
           \/ About(c) /\ u = c.u /\ s = run.t /\ mailed'[u][s] = mailed[u][s] + 1
      /\ smtp /\ About(c) => mailed'[c.u][run.t] = mailed[c.u][run.t] + 1
  <2>1. CASE Send(c)
    <3>1. mailed \in [Users -> [T -> Nat]] /\ Delivered(c, run.t)
      BY <2>1 DEF IInv, TypeOK, Send
    <3>. QED
      BY <1>2, <3>1, DeliveredDoes
  <2>2. CASE Discard(c)
    BY <2>2 DEF IInv, TypeOK, Discard
  <2>. QED
    BY <2>1, <2>2
<1>5. \A u \in Users, s \in T : mailed[u][s] \in Nat
  BY DEF IInv, TypeOK
<1>6. TypeOK'
  BY <1>1, <1>3, <1>4 DEF IInv, TypeOK
<1>7. Numbered'
  BY <1>1, <1>3 DEF IInv, Numbered
<1>8. OneCopy'
  BY <1>1 DEF IInv, OneCopy
<1>9. Accounted'
  <2>. SUFFICES ASSUME NEW u \in Users, NEW t \in T, mailed'[u][t] > 0
                PROVE  \/ t \in notices[u] \union loose[u]
                       \/ run.t = t /\ c.u = u /\ About(c)
    BY <1>1, <1>3 DEF Accounted, About
  <2>1. CASE mailed'[u][t] = mailed[u][t]
    BY <1>1, <2>1 DEF IInv, Accounted
  <2>. QED
    BY <1>4, <2>1
<1>10. Untouched'
  BY <1>1, <1>2, <1>3, CopiesIn DEF IInv, Untouched, About
<1>11. AtRecord'
  BY <1>1, <1>2, <1>3, <1>4, <1>5 DEF AtRecord, About
<1>12. AtMostOnce'
  <2>. SUFFICES ASSUME NEW u \in Users, NEW t \in T, mailed'[u][t] > 1
                PROVE  t \in loose[u]
    BY <1>3 DEF AtMostOnce
  <2>1. CASE mailed'[u][t] = mailed[u][t]
    BY <2>1 DEF IInv, AtMostOnce
  <2>2. CASE About(c) /\ u = c.u /\ t = run.t /\ mailed'[u][t] = mailed[u][t] + 1
    <3>1. mailed[u][t] > 0
      BY <1>5, <2>2
    <3>2. t \notin notices[u]
      BY <2>2 DEF IInv, Untouched
    <3>. QED
      BY <1>1, <3>1, <3>2 DEF IInv, Accounted
  <2>. QED
    BY <1>4, <2>1, <2>2
<1>13. NoticeIsHonest'
  BY <1>3, <1>4, <1>5 DEF IInv, NoticeIsHonest, TypeOK
<1>. QED
  BY <1>6, <1>7, <1>8, <1>9, <1>10, <1>11, <1>12, <1>13 DEF IInv

(* A mail nobody waited for is delivered or lost: it was loose already.     *)
LEMMA LateIInv ==
  ASSUME IInv, NEW m \in late, DeliverLate(m) \/ LoseLate(m) PROVE IInv'
<1>1. m.t \in T /\ m.u \in Users /\ late' \subseteq late
  BY CopiesIn DEF DeliverLate, LoseLate
<1>2. UNCHANGED <<row, notices, run, ctx, smtp, edits, faults, loose, untold>>
  BY DEF DeliverLate, LoseLate
<1>3. /\ mailed' \in [Users -> [T -> Nat]]
      /\ \A u \in Users, s \in T :
           \/ mailed'[u][s] = mailed[u][s]
           \/ About(m) /\ u = m.u /\ s = m.t /\ mailed'[u][s] = mailed[u][s] + 1
  <2>1. CASE DeliverLate(m)
    <3>1. mailed \in [Users -> [T -> Nat]] /\ Delivered(m, m.t)
      BY <2>1 DEF IInv, TypeOK, DeliverLate
    <3>. QED
      BY <1>1, <3>1, DeliveredDoes
  <2>2. CASE LoseLate(m)
    BY <2>2 DEF IInv, TypeOK, LoseLate
  <2>. QED
    BY <2>1, <2>2
<1>4. \A u \in Users, s \in T : mailed[u][s] \in Nat
  BY DEF IInv, TypeOK
<1>5. About(m) => m.t \in loose[m.u]
  BY DEF IInv, Untouched
<1>6. TypeOK'
  BY <1>1, <1>2, <1>3 DEF IInv, TypeOK
<1>7. Numbered' /\ OneCopy'
  BY <1>1, <1>2 DEF IInv, Numbered, OneCopy
<1>8. Accounted' /\ AtMostOnce'
  <2>1. ASSUME NEW u \in Users, NEW t \in T, mailed'[u][t] # mailed[u][t]
        PROVE  t \in loose[u]
    BY <1>3, <1>5, <2>1
  <2>. QED
    BY <1>2, <2>1 DEF IInv, Accounted, AtMostOnce, About
<1>9. Untouched'
  BY <1>1, <1>2 DEF IInv, Untouched, About
<1>10. AtRecord' /\ NoticeIsHonest'
  <2>1. \A u \in Users, s \in T : mailed[u][s] > 0 => mailed'[u][s] > 0
    BY <1>3, <1>4
  <2>. QED
    BY <1>2, <2>1, CopiesIn DEF IInv, AtRecord, NoticeIsHonest, About, TypeOK
<1>. QED
  BY <1>6, <1>7, <1>8, <1>9, <1>10 DEF IInv

(* The notice in hand is recorded, with its explanation if nobody was       *)
(* mailed about the key's present date, or is left loose.                   *)
LEMMA RecordIInv ==
  ASSUME IInv, Record \/ RecordFails PROVE IInv'
<1>. DEFINE u == run.cur.u
            t == run.t
<1>1. u \in Users /\ t \in T
  BY CopiesIn
<1>2. /\ run' \in Runs /\ run'.at = "next" /\ run.at = "record" /\ run'.t = run.t
      /\ run'.todo = run.todo /\ run'.cur = run.cur
  BY CopiesIn, GotoIs DEF Record, RecordFails
<1>3. UNCHANGED <<row, late, ctx, smtp, edits, mailed>> /\ (Fault \/ UNCHANGED faults)
  BY DEF Record, RecordFails
<1>4. /\ notices' \in [Users -> SUBSET T] /\ loose' \in [Users -> SUBSET T]
      /\ untold' \in [Users -> SUBSET T]
      /\ \A v \in Users : loose[v] \subseteq loose'[v] /\ untold[v] \subseteq untold'[v]
      /\ \A v \in Users : notices'[v] = notices[v] \/ (v = u /\ notices'[v] = notices[v] \union {t})
      /\ \A v \in Users : notices[v] \subseteq notices'[v]
      /\ About(run.cur) => t \in notices'[u] \union loose'[u]
      /\ notices'[u] # notices[u] => t \in untold'[u] \/ (smtp /\ About(run.cur))
  <2>1. CASE Record
    <3>1. /\ notices' = [notices EXCEPT ![u] = notices[u] \union {t}]
          /\ UNCHANGED loose
          /\ IF ~smtp \/ ~About(run.cur)
               THEN untold' = [untold EXCEPT ![u] = untold[u] \union {t}]
               ELSE UNCHANGED untold
      BY <1>1, <2>1 DEF Record, IInv, TypeOK
    <3>2. notices \in [Users -> SUBSET T] /\ untold \in [Users -> SUBSET T]
      BY DEF IInv, TypeOK
    <3>3. /\ notices' \in [Users -> SUBSET T]
          /\ \A v \in Users : notices'[v] = IF v = u THEN notices[u] \union {t} ELSE notices[v]
      BY <1>1, <3>1, <3>2
    <3>4. /\ untold' \in [Users -> SUBSET T]
          /\ \A v \in Users : untold[v] \subseteq untold'[v]
          /\ t \in untold'[u] \/ (smtp /\ About(run.cur))
      <4>1. CASE ~smtp \/ ~About(run.cur)
        BY <1>1, <3>1, <3>2, <4>1
      <4>2. CASE smtp /\ About(run.cur)
        BY <3>1, <3>2, <4>2
      <4>. QED
        BY <4>1, <4>2
    <3>5. loose' \in [Users -> SUBSET T] /\ UNCHANGED loose
      BY <3>1 DEF IInv, TypeOK
    <3>. QED
      BY <1>1, <3>3, <3>4, <3>5
  <2>2. CASE RecordFails
    <3>1. /\ loose' \in [Users -> SUBSET T]
          /\ \A v \in Users : loose'[v] = IF About(run.cur) /\ v = u
                                           THEN loose[v] \union {t} ELSE loose[v]
      BY <1>1, <2>2, LeftLooseDoes DEF RecordFails, IInv, TypeOK
    <3>. QED
      BY <1>1, <2>2, <3>1 DEF RecordFails, IInv, TypeOK
  <2>. QED
    BY <2>1, <2>2
<1>5. TypeOK'
  BY <1>2, <1>3, <1>4, FaultDoes DEF IInv, TypeOK
<1>6. Numbered' /\ OneCopy' /\ AtRecord'
  BY <1>2, <1>3 DEF IInv, Numbered, OneCopy, AtRecord
<1>7. Accounted'
  <2>. SUFFICES ASSUME NEW v \in Users, NEW s \in T, mailed[v][s] > 0
                PROVE  s \in notices'[v] \union loose'[v]
    BY <1>3 DEF Accounted
  <2>1. CASE s \in notices[v] \union loose[v]
    BY <1>4, <2>1
  <2>2. CASE t = s /\ u = v /\ About(run.cur)
    BY <1>4, <2>2
  <2>. QED
    BY <2>1, <2>2 DEF IInv, Accounted
<1>8. Untouched'
  <2>1. \A c \in run.todo : c.u \in Users /\ c.u # u
    BY <1>2, CopiesIn DEF IInv, OneCopy
  <2>2. \A c \in run.todo : notices'[c.u] = notices[c.u]
    BY <1>4, <2>1
  <2>3. \A m \in late : About(m) => m.t \in loose'[m.u]
    BY <1>4, CopiesIn DEF IInv, Untouched
  <2>. QED
    BY <1>2, <1>3, <2>2, <2>3 DEF IInv, Untouched, About
<1>9. AtMostOnce'
  BY <1>3, <1>4 DEF IInv, AtMostOnce
<1>10. NoticeIsHonest'
  <2>. SUFFICES ASSUME NEW v \in Users, NEW s \in notices'[v]
                PROVE  mailed[v][s] > 0 \/ s \in untold'[v]
    BY <1>3 DEF NoticeIsHonest
  <2>1. CASE s \in notices[v]
    BY <1>4, <2>1 DEF IInv, NoticeIsHonest
  <2>2. CASE s \notin notices[v]
    <3>1. v = u /\ s = t /\ notices'[u] # notices[u]
      BY <1>4, <2>2
    <3>. QED
      BY <1>2, <1>4, <3>1 DEF IInv, AtRecord
  <2>. QED
    BY <2>1, <2>2
<1>. QED
  BY <1>5, <1>6, <1>7, <1>8, <1>9, <1>10 DEF IInv

LEMMA NextIInv == IInv /\ [Next]_vars => IInv'
<1>. SUFFICES ASSUME IInv, [Next]_vars PROVE IInv'
  OBVIOUS
<1>1. CASE UNCHANGED vars
  BY <1>1 DEF vars, IInv, TypeOK, Numbered, OneCopy, Accounted, Untouched, AtRecord,
              AtMostOnce, NoticeIsHonest, About
<1>2. CASE Next
  BY <1>2, KeysIInv, RunsIInv, FindIInv, PassedIInv, InHandIInv, LateIInv, RecordIInv, Zenon
  DEF Next, Work
<1>. QED
  BY <1>1, <1>2

-----------------------------------------------------------------------------
(* In every reachable state the invariant holds: what the reminder has in   *)
(* hand, what is on record and what has been delivered agree.               *)
THEOREM Invariance == Spec => []IInv
  BY InitIInv, NextIInv, PTL DEF Spec

(* Nobody is mailed twice about one date and threshold, except when an      *)
(* attempt was left unrecorded (reminder.go:43-53).                         *)
THEOREM MailedOnce == Spec => []AtMostOnce
  BY Invariance, PTL DEF IInv

(* A recorded notice, which silences the next runs, is of a mail about the  *)
(* date the key has, except for the two cases untold names.                 *)
THEOREM HonestNotices == Spec => []NoticeIsHonest
  BY Invariance, PTL DEF IInv
=============================================================================
