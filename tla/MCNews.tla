------------------------------- MODULE MCNews -------------------------------
(***************************************************************************)
(* News with two requests at once for two addresses.                     *)
(***************************************************************************)
EXTENDS News, TLC

CONSTANTS n1, n2, events, fitness

Alike == Permutations({n1, n2})

\* Each subscription has a topic; unsubscribing may name none.
AllRequests == {r \in Request : r.op = "subscribe" => r.topics # {}}
=============================================================================
