------------------------------ MODULE MCMails ------------------------------
(***************************************************************************)
(* Mails about an event with one seat, requested by two workers.           *)
(***************************************************************************)
EXTENDS Mails, TLC

CONSTANTS v1, v2

Alike == Permutations({v1, v2})

\* Days of next week and of the week after it, in order or not.
Plans == {<<1, 8>>, <<9, 8>>}
=============================================================================
