------------------------------- MODULE Reminder -------------------------------
(***************************************************************************)
(* The expiry reminder (internal/notify): mails about keys that end within *)
(* 14, 3 and 1 days, against keys that are extended, replaced, deleted or  *)
(* missing meanwhile, a relay that answers late and a server that stops.   *)
(*                                                                         *)
(* One action per query, mail and record of a notice. A run works through  *)
(* the list its query returned without looking at a key again. Mail is     *)
(* sent from a goroutine of its own, which may deliver after Notify has    *)
(* given up waiting. A user's position in a list matters to no property.   *)
(***************************************************************************)
EXTENDS Naturals, Sequences

CONSTANTS Users,
          Unlucky,     \* users whose address the relay refuses, for ever
          Thresholds,  \* the days of notice, widest first
          Durations,   \* the days of validity a profile may give a key
          MaxEdits,    \* bound on what happens to keys
          MaxFaults    \* bound on failures, stops and kills

ASSUME ReminderAssumption == /\ Users # {} /\ Unlucky \subseteq Users
                             /\ Thresholds \in Seq(Nat \ {0})
                             /\ Thresholds # <<>>
                             /\ Durations # {} /\ Durations \subseteq Nat \ {0}
                             /\ MaxEdits \in Nat /\ MaxFaults \in Nat

VARIABLES row,      \* row[u]: the user's row of api_keys
          notices,  \* notices[u]: rows of expiry_notices for that key
          run,      \* the reminder: where it is and its local variables
          late,     \* mails of goroutines nobody waits for any longer
          ctx,      \* the reminder's context: TRUE until the server is stopped
          smtp,     \* SMTP_HOST is set: otherwise mails are dropped
          edits, faults,   \* how much of MaxEdits and MaxFaults is used up
          mailed,   \* history: mailed[u][t]: deliveries about the present date
          loose,    \* history: loose[u]: attempts about it left unrecorded
          untold    \* history: untold[u]: notices recorded for no such mail

vars == <<row, notices, run, late, ctx, smtp, edits, faults, mailed, loose, untold>>

-----------------------------------------------------------------------------
T == DOMAIN Thresholds
NoKey == 0
Ids == 0..MaxEdits

(* A key's row: its id, which edit gave it its date, the days it has left   *)
(* (0 once it has expired) and whether it is marked as missing.             *)
Rows == [id : Ids, date : Ids, left : Nat, missing : BOOLEAN]
Copies == [u : Users, id : Ids, date : Ids]
Mails == [u : Users, id : Ids, date : Ids, t : T]

Runs == [at : {"wait", "find", "next", "record", "down"}, t : T,
         todo : SUBSET Copies, cur : Copies]

TypeOK == /\ row \in [Users -> Rows]
          /\ notices \in [Users -> SUBSET T]
          /\ run \in Runs
          /\ late \subseteq Mails
          /\ ctx \in BOOLEAN /\ smtp \in BOOLEAN
          /\ edits \in 0..MaxEdits /\ faults \in 0..MaxFaults
          /\ mailed \in [Users -> [T -> Nat]]
          /\ loose \in [Users -> SUBSET T]
          /\ untold \in [Users -> SUBSET T]

NoRow == [id |-> NoKey, date |-> 0, left |-> 0, missing |-> FALSE]
Copy(u) == [u |-> u, id |-> row[u].id, date |-> row[u].date]
Nothing == [u |-> CHOOSE u \in Users : TRUE, id |-> NoKey, date |-> 0]

(* The reminder runs once when the server starts.                           *)
Starting == [at |-> "find", t |-> 1, todo |-> {}, cur |-> Nothing]

Init == /\ row = [u \in Users |-> NoRow]
        /\ notices = [u \in Users |-> {}]
        /\ run = Starting
        /\ late = {} /\ ctx = TRUE /\ smtp \in BOOLEAN
        /\ edits = 0 /\ faults = 0
        /\ mailed = [u \in Users |-> [t \in T |-> 0]]
        /\ loose = [u \in Users |-> {}]
        /\ untold = [u \in Users |-> {}]

-----------------------------------------------------------------------------
(* What happens to keys. *)
Edit == edits < MaxEdits /\ edits' = edits + 1
Fault == faults < MaxFaults /\ faults' = faults + 1

(* The histories are about the present date and start over with a new one.  *)
NewDate(u) == /\ mailed' = [mailed EXCEPT ![u] = [t \in T |-> 0]]
              /\ loose' = [loose EXCEPT ![u] = {}]
              /\ untold' = [untold EXCEPT ![u] = {}]

(* ReplaceAPIKey: a row with a new id. The old row's notices go with it.    *)
Generate(u, d) ==
  /\ Edit
  /\ row' = [row EXCEPT ![u] = [id |-> edits + 1, date |-> edits + 1,
                                left |-> d, missing |-> FALSE]]
  /\ notices' = [notices EXCEPT ![u] = {}]
  /\ NewDate(u)
  /\ UNCHANGED <<run, late, ctx, smtp, faults>>

(* UpdateAPIKeyExpiry, which ExtendKey comes to only for a key the gateway  *)
(* still has: a new date in the same row, and the notices go.               *)
(* Mutant: the notices of the old date stay. *)
ExtendKeepingNotices(u, d) ==
  /\ Edit
  /\ row[u].id # NoKey
  /\ row' = [row EXCEPT ![u].date = edits + 1, ![u].left = d]
  /\ NewDate(u)
  /\ UNCHANGED <<notices, run, late, ctx, smtp, faults>>

Extend(u, d) ==
  /\ Edit
  /\ row[u].id # NoKey
  /\ row' = [row EXCEPT ![u].date = edits + 1, ![u].left = d]
  /\ notices' = [notices EXCEPT ![u] = {}]
  /\ NewDate(u)
  /\ UNCHANGED <<run, late, ctx, smtp, faults>>

(* DeleteKey, an administrator's revocation, or RemoveMissingKey.           *)
Delete(u) ==
  /\ Edit
  /\ row[u].id # NoKey
  /\ row' = [row EXCEPT ![u] = NoRow]
  /\ notices' = [notices EXCEPT ![u] = {}]
  /\ NewDate(u)
  /\ UNCHANGED <<run, late, ctx, smtp, faults>>

(* MarkKeyMissing and ClearKeyMissing.                                      *)
ToggleMissing(u) ==
  /\ Edit
  /\ row[u].id # NoKey
  /\ row' = [row EXCEPT ![u].missing = ~row[u].missing]
  /\ UNCHANGED <<notices, run, late, ctx, smtp, faults, mailed, loose, untold>>

(* A day passes.                                                            *)
Day ==
  /\ \E u \in Users : row[u].left > 0
  /\ row' = [u \in Users |-> [row[u] EXCEPT !.left = IF @ = 0 THEN 0 ELSE @ - 1]]
  /\ UNCHANGED <<notices, run, late, ctx, smtp, edits, faults, mailed, loose, untold>>

-----------------------------------------------------------------------------
(* The reminder. *)
Goto(at) == run' = [run EXCEPT !.at = at]

(* The ticker. A stopped context ends Start instead.                        *)
Tick ==
  /\ run.at = "wait" /\ ctx
  /\ run' = Starting
  /\ UNCHANGED <<row, notices, late, ctx, smtp, edits, faults, mailed, loose, untold>>

(* Where KeysExpiringWithin has a user for threshold t.                     *)
Due(u, t) == /\ row[u].id # NoKey /\ ~row[u].missing
             /\ row[u].left \in 1..Thresholds[t]
             /\ t \notin notices[u]

(* Run: the next threshold's list, or the end of the run after the last.    *)
Advance == IF run.t < Len(Thresholds)
             THEN [run EXCEPT !.at = "find", !.t = @ + 1, !.cur = Nothing]
             ELSE [run EXCEPT !.at = "wait", !.t = 1, !.cur = Nothing]

(* Mutant: keys already warned are listed again. *)
FindAll ==
  /\ run.at = "find" /\ ctx
  /\ run' = [run EXCEPT !.at = "next",
               !.todo = {Copy(u) : u \in {v \in Users : /\ row[v].id # NoKey
                                                        /\ ~row[v].missing
                                                        /\ row[v].left \in 1..Thresholds[run.t]}}]
  /\ UNCHANGED <<row, notices, late, ctx, smtp, edits, faults, mailed, loose, untold>>

Find ==
  /\ run.at = "find" /\ ctx
  /\ run' = [run EXCEPT !.at = "next",
               !.todo = {Copy(u) : u \in {v \in Users : Due(v, run.t)}}]
  /\ UNCHANGED <<row, notices, late, ctx, smtp, edits, faults, mailed, loose, untold>>

(* The query fails, as it does on a stopped context: the run is given up.   *)
FindFails ==
  /\ run.at = "find"
  /\ IF ctx THEN Fault ELSE UNCHANGED faults
  /\ run' = [run EXCEPT !.at = "wait", !.t = 1]
  /\ UNCHANGED <<row, notices, late, ctx, smtp, edits, mailed, loose, untold>>

ListDone ==
  /\ run.at = "next" /\ run.todo = {}
  /\ run' = Advance
  /\ UNCHANGED <<row, notices, late, ctx, smtp, edits, faults, mailed, loose, untold>>

-----------------------------------------------------------------------------
(* Notify, for a key of the list. *)
About(c) == row[c.u].id = c.id /\ row[c.u].date = c.date

Taken(c) == [run EXCEPT !.todo = @ \ {c}]

Delivered(c, t) ==
  mailed' = IF About(c) THEN [mailed EXCEPT ![c.u][t] = @ + 1] ELSE mailed

LeftLoose(c, t) ==
  loose' = IF About(c) THEN [loose EXCEPT ![c.u] = @ \union {t}] ELSE loose

(* The relay takes the mail, also when the server is being stopped.         *)
Send(c) ==
  /\ run.at = "next" /\ c \in run.todo
  /\ smtp /\ c.u \notin Unlucky
  /\ run' = [Taken(c) EXCEPT !.at = "record", !.cur = c]
  /\ Delivered(c, run.t)
  /\ UNCHANGED <<row, notices, late, ctx, smtp, edits, faults, loose, untold>>

(* Discard.Notify: without SMTP_HOST the mail is dropped and that is no     *)
(* error.                                                                   *)
Discard(c) ==
  /\ run.at = "next" /\ c \in run.todo
  /\ ~smtp
  /\ run' = [Taken(c) EXCEPT !.at = "record", !.cur = c]
  /\ UNCHANGED <<row, notices, late, ctx, smtp, edits, faults, mailed, loose, untold>>

(* Mutant: the run ends at the first mail that fails. *)
SendFailsTheRun(c) ==
  /\ run.at = "next" /\ c \in run.todo
  /\ smtp
  /\ IF c.u \in Unlucky THEN UNCHANGED faults ELSE Fault
  /\ run' = [run EXCEPT !.at = "wait", !.t = 1, !.todo = {}]
  /\ UNCHANGED <<row, notices, late, ctx, smtp, edits, mailed, loose, untold>>

(* The relay refuses: the next key's turn, and this one's in the next run.  *)
SendFails(c) ==
  /\ run.at = "next" /\ c \in run.todo
  /\ smtp
  /\ IF c.u \in Unlucky THEN UNCHANGED faults ELSE Fault
  /\ run' = Taken(c)
  /\ UNCHANGED <<row, notices, late, ctx, smtp, edits, mailed, loose, untold>>

(* Mutant: Notify gives up without an error. *)
GiveUpSilently(c) ==
  /\ run.at = "next" /\ c \in run.todo
  /\ smtp
  /\ IF ctx THEN Fault ELSE UNCHANGED faults
  /\ run' = [Taken(c) EXCEPT !.at = "record", !.cur = c]
  /\ late' = late \union {[u |-> c.u, id |-> c.id, date |-> c.date, t |-> run.t]}
  /\ UNCHANGED <<row, notices, ctx, smtp, edits, mailed, loose, untold>>

(* Notify stops waiting, after 30 seconds or because the server is being    *)
(* stopped, and reports an error. The goroutine has the mail all the same.  *)
GiveUp(c) ==
  /\ run.at = "next" /\ c \in run.todo
  /\ smtp
  /\ IF ctx THEN Fault ELSE UNCHANGED faults
  /\ run' = Taken(c)
  /\ late' = late \union {[u |-> c.u, id |-> c.id, date |-> c.date, t |-> run.t]}
  /\ LeftLoose(c, run.t)
  /\ UNCHANGED <<row, notices, ctx, smtp, edits, mailed, untold>>

(* What becomes of a mail nobody waits for.                                 *)
DeliverLate(m) ==
  /\ m \in late
  /\ late' = late \ {m}
  /\ m.u \notin Unlucky
  /\ Delivered(m, m.t)
  /\ UNCHANGED <<row, notices, run, ctx, smtp, edits, faults, loose, untold>>

LoseLate(m) ==
  /\ m \in late
  /\ late' = late \ {m}
  /\ UNCHANGED <<row, notices, run, ctx, smtp, edits, faults, mailed, loose, untold>>

-----------------------------------------------------------------------------
(* MarkExpiryNoticeSent, by the id of the key in the list. *)

(* A notice nobody was mailed about is remembered with its explanation: the *)
(* mail was dropped, or was about the date the key had when it was listed.  *)
Record ==
  LET u == run.cur.u IN
  /\ run.at = "record" /\ ctx
  /\ row[u].id = run.cur.id /\ run.t \notin notices[u]
  /\ notices' = [notices EXCEPT ![u] = @ \union {run.t}]
  /\ untold' = IF ~smtp \/ ~About(run.cur)
                 THEN [untold EXCEPT ![u] = @ \union {run.t}] ELSE untold
  /\ Goto("next")
  /\ UNCHANGED <<row, late, ctx, smtp, edits, faults, mailed, loose>>

(* It fails for a key that has gone (the foreign key), for a notice already *)
(* there (the unique index), on a stopped context, or like any statement.   *)
(* The error is logged, nothing more.                                       *)
RecordFails ==
  LET u == run.cur.u IN
  /\ run.at = "record"
  /\ IF ctx /\ row[u].id = run.cur.id /\ run.t \notin notices[u]
       THEN Fault ELSE UNCHANGED faults
  /\ LeftLoose(run.cur, run.t)
  /\ Goto("next")
  /\ UNCHANGED <<row, notices, late, ctx, smtp, edits, mailed, untold>>

-----------------------------------------------------------------------------
(* The server. *)

(* stopReminder. The run goes on with a context whose end every call sees,  *)
(* while the server drains its requests.                                    *)
Stop ==
  /\ Fault
  /\ run.at # "down" /\ ctx
  /\ ctx' = FALSE
  /\ UNCHANGED <<row, notices, run, late, smtp, edits, mailed, loose, untold>>

(* The process ends, at the end of a stop or by a kill, wherever the        *)
(* reminder is: main does not wait for it.                                  *)
Exit ==
  /\ run.at # "down"
  /\ IF ctx THEN Fault ELSE UNCHANGED faults
  /\ run' = [Starting EXCEPT !.at = "down"]
  /\ IF run.at = "record" THEN LeftLoose(run.cur, run.t) ELSE UNCHANGED loose
  /\ late' = {}
  /\ UNCHANGED <<row, notices, ctx, smtp, edits, mailed, untold>>

(* It starts again, perhaps with a relay configured or taken away.          *)
Restart ==
  /\ run.at = "down"
  /\ run' = Starting
  /\ ctx' = TRUE
  /\ smtp' \in BOOLEAN
  /\ UNCHANGED <<row, notices, late, edits, faults, mailed, loose, untold>>

-----------------------------------------------------------------------------
Work == \/ Tick \/ Find \/ FindFails \/ ListDone \/ Record \/ RecordFails
        \/ \E c \in run.todo : Send(c) \/ Discard(c) \/ SendFails(c) \/ GiveUp(c)

Next == \/ Work
        \/ \E u \in Users : \/ Delete(u) \/ ToggleMissing(u)
                            \/ \E d \in Durations : Generate(u, d) \/ Extend(u, d)
        \/ Day
        \/ \E m \in late : DeliverLate(m) \/ LoseLate(m)
        \/ Stop \/ Exit \/ Restart

Spec == Init /\ [][Next]_vars
FairSpec == Spec /\ WF_vars(Work)

-----------------------------------------------------------------------------
(* docs/content/concepts/expiration.md: "Each notice is sent at most once   *)
(* per key and threshold". A user is mailed twice about one date only if an *)
(* attempt was left unrecorded: Notify gave up on a mail that was delivered *)
(* all the same, or the record failed or was cut off by a stop.             *)
AtMostOnce == \A u \in Users, t \in T : mailed[u][t] > 1 => t \in loose[u]

(* A recorded notice keeps the next runs from mailing, so the user has to   *)
(* have been mailed about the date the key now has. The two ways it is not  *)
(* so: the portal had no relay and dropped the mail, or the key was         *)
(* extended between the list and the record.                                *)
NoticeIsHonest ==
  \A u \in Users : \A t \in notices[u] : mailed[u][t] > 0 \/ t \in untold[u]

(* Whatever failed, was stopped or is refused for other users: while the    *)
(* server stays up, a key that needs a notice gets it recorded, unless it   *)
(* is extended, removed, expires or goes missing first.                     *)
Warned ==
  \A u \in Users \ Unlucky, t \in T :
    (Due(u, t) /\ ctx /\ run.at # "down")
      ~> (~Due(u, t) \/ ~ctx \/ run.at = "down")

-----------------------------------------------------------------------------
(* Why the two invariants hold. A copy stands for its key as long as the    *)
(* key's date is the one it was listed with; dates and ids are never used   *)
(* again. What the runner has in hand was listed without a notice.          *)
Numbered ==
  /\ \A u \in Users : row[u].id <= edits /\ row[u].date <= edits
  /\ \A c \in run.todo : c.id # NoKey /\ c.date <= edits
  /\ run.at = "record" => run.cur.id # NoKey /\ run.cur.date <= edits
  /\ \A m \in late : m.id # NoKey /\ m.date <= edits

(* One copy of a user at a time, and only while a list is worked through.   *)
OneCopy ==
  /\ run.at \notin {"next", "record"} => run.todo = {}
  /\ \A c, d \in run.todo : c.u = d.u => c = d
  /\ run.at = "record" => \A c \in run.todo : c.u # run.cur.u

(* A mail already delivered is on record, about to be, or left loose.       *)
Accounted ==
  \A u \in Users, t \in T :
    mailed[u][t] > 0 =>
      \/ t \in notices[u] \union loose[u]
      \/ /\ run.at = "record" /\ run.t = t
         /\ run.cur.u = u /\ About(run.cur)

Untouched ==
  /\ \A c \in run.todo : About(c) => run.t \notin notices[c.u]
  /\ run.at = "record" /\ About(run.cur) => run.t \notin notices[run.cur.u]
  /\ \A m \in late : About(m) => m.t \in loose[m.u]

(* At the record, the mail has been delivered if there is a relay.          *)
AtRecord ==
  run.at = "record" /\ smtp /\ About(run.cur) => mailed[run.cur.u][run.t] > 0

IInv == /\ TypeOK /\ Numbered /\ OneCopy /\ Accounted /\ Untouched /\ AtRecord
        /\ AtMostOnce /\ NoticeIsHonest
=============================================================================
