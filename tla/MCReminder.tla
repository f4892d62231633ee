------------------------------ MODULE MCReminder ------------------------------
(* Two thresholds, one of them the last day.                                 *)
EXTENDS Reminder

MCThresholds == <<2, 1>>
=============================================================================
