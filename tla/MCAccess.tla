------------------------------ MODULE MCAccess ------------------------------
(***************************************************************************)
(* Sessions, keys and secrets with two requests.                           *)
(***************************************************************************)
EXTENDS Access, TLC

CONSTANTS v1, v2

Alike == Permutations({v1, v2})
=============================================================================
