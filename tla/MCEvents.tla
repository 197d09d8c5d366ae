------------------------------ MODULE MCEvents ------------------------------
(***************************************************************************)
(* Events on small instances: the changes that administrators ask for.     *)
(***************************************************************************)
EXTENDS Events, TLC

CONSTANTS v1, v2

Alike == Permutations({v1, v2})

Sets(s) == [NoChange EXCEPT !.status = s]

\* Closing, reopening and renaming.
ClosingChanges == {Sets("Closed"), Sets("Draft")} \cup {[NoChange EXCEPT !.name = n] : n \in Names}

\* Publishing, taking back, changing the method, alone or with the name.
EditChanges ==
  {Sets("Draft"), Sets("Published")}
    \cup {[NoChange EXCEPT !.method = m] : m \in Methods}
    \cup {[NoChange EXCEPT !.name = n] : n \in Names}

\* Only the two that deletions and bookings depend on.
FewChanges == {Sets("Draft"), [NoChange EXCEPT !.method = "SepaDirectDebit"]}

AllChanges == ClosingChanges \cup EditChanges

NewOf(status, methods) ==
  [name : Names, status : {status}, closed : {0}, method : methods, over : {FALSE}]

AllDrafts == NewOf("Draft", Methods)
Running == NewOf("Running", {"BankTransfer"})
=============================================================================
