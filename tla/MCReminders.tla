----------------------------- MODULE MCReminders -----------------------------
(***************************************************************************)
(* Reminders with two requests.                                            *)
(***************************************************************************)
EXTENDS Reminders, TLC

CONSTANTS v1, v2

Alike == Permutations({v1, v2})
=============================================================================
