----------------------------- MODULE SepaExport -----------------------------
(***************************************************************************)
(* Direct-debit files of one event: export_sepa_xml locks the eligible     *)
(* bookings, reads the eligible bookings, makes the file of them and marks *)
(* them, in one READ COMMITTED transaction, while people book, cancel and  *)
(* move up from the waiting list. (A booking or a cancelation is one step  *)
(* here, its commit; Bookings models their statements.)                    *)
(***************************************************************************)
EXTENDS Naturals, FiniteSets

CONSTANTS
  Exporters,  \* administrators who ask for the file, concurrently
  Ids,        \* bookings of the event, ordered as they are created
  None

ASSUME ExportersAssumption == IsFiniteSet(Exporters) /\ None \notin Exporters
ASSUME IdsAssumption == Ids \subseteq Nat /\ IsFiniteSet(Ids)

\* A row of event_bookings; iban: does it hold one?
Row == [enrolled : BOOLEAN, canceled : BOOLEAN, exported : BOOLEAN, iban : BOOLEAN]

ASSUME NoneAssumption == None \notin Row

VARIABLES
  row,     \* the committed rows, None before the booking
  lock,    \* the exporter that holds the row's lock, or None
  pc,      \* the next statement of each exporter
  todo,    \* the rows its statement has still to lock or to update
  file,    \* the bookings its file is made of
  debits,  \* history: how many committed files contain the booking
  late     \* history: bookings that became eligible while an export took its locks

vars == <<row, lock, pc, todo, file, debits, late>>

Eligible(b) == row[b] # None /\ row[b].enrolled /\ ~row[b].canceled /\ ~row[b].exported

Free(e, b) == lock[b] \in {None, e}

-----------------------------------------------------------------------------
(* Bookings and cancelations, at their commit                               *)

\* b becomes eligible: it is late for the exports that have begun to lock.
Late(b) == IF \E e \in Exporters : pc[e] = "lock" THEN late \cup {b} ELSE late

\* A booking of a direct-debit event has an IBAN, unless the payment method was
\* changed after book_event in logic/events.rs has looked at it.
Book(b) ==
  /\ row[b] = None /\ \A c \in Ids : c < b => row[c] # None
  /\ \E seat, iban \in BOOLEAN :
       /\ row' = [row EXCEPT ![b] = [enrolled |-> seat, canceled |-> FALSE, exported |-> FALSE, iban |-> iban]]
       /\ late' = IF seat THEN Late(b) ELSE late
  /\ UNCHANGED <<lock, pc, todo, file, debits>>

Waiting == {b \in Ids : row[b] # None /\ ~row[b].enrolled /\ ~row[b].canceled}

FirstWaiting == {b \in Waiting : \A c \in Waiting : b <= c}

\* Mutant: the cancelation does not wait for the lock of the row.
AnyRow(b) == TRUE

\* An UPDATE waits for the transaction that has locked the row.
NotLocked(b) == lock[b] = None

\* The booking is canceled, perhaps again; if it had a seat, the first in line
\* gets it.
Cancel(b) ==
  LET canceled == [row EXCEPT ![b].canceled = TRUE]
  IN  /\ row[b] # None /\ NotLocked(b)
      /\ \/ \E c \in FirstWaiting :
              /\ row[b].enrolled /\ NotLocked(c)
              /\ row' = [canceled EXCEPT ![c].enrolled = TRUE]
              /\ late' = Late(c)
         \/ /\ ~row[b].enrolled \/ Waiting = {}
            /\ row' = canceled
            /\ UNCHANGED late
      /\ UNCHANGED <<lock, pc, todo, file, debits>>

-----------------------------------------------------------------------------
(* export_sepa_xml                                                          *)

\* Mutant: the transaction's end leaves the row locks.
KeptLocks(e) == lock

ReleasedLocks(e) == [b \in Ids |-> IF lock[b] = e THEN None ELSE lock[b]]

\* The transaction is over; without a commit it leaves no trace.
Finish(e) ==
  /\ pc' = [pc EXCEPT ![e] = "idle"]
  /\ todo' = [todo EXCEPT ![e] = {}]
  /\ file' = [file EXCEPT ![e] = {}]
  /\ lock' = ReleasedLocks(e)

\* SELECT ... FOR UPDATE: the rows are chosen when the statement starts ...
LockEligible(e) ==
  /\ pc[e] = "idle"
  /\ pc' = [pc EXCEPT ![e] = "lock"]
  /\ todo' = [todo EXCEPT ![e] = {b \in Ids : Eligible(b)}]
  /\ UNCHANGED <<row, lock, file, debits, late>>

\* Mutant: a plain SELECT.
NoLock(e, b) == lock

\* ... and each is locked if it still qualifies once its lock is free.
RowLock(e, b) == IF Eligible(b) THEN [lock EXCEPT ![b] = e] ELSE lock

LockRow(e) ==
  /\ pc[e] = "lock"
  /\ \E b \in todo[e] :
       /\ Free(e, b)
       /\ lock' = RowLock(e, b)
       /\ todo' = [todo EXCEPT ![e] = @ \ {b}]
  /\ UNCHANGED <<row, pc, file, debits, late>>

\* get_sepa_eligible_bookings, a statement that sees what is committed by now,
\* and the file made of it: without bookings, and if one BIC cannot be found,
\* the transaction is dropped. A booking without IBAN has no BIC.
ReadEligible(e) ==
  LET eligible == {b \in Ids : Eligible(b)}
  IN  /\ pc[e] = "lock" /\ todo[e] = {}
      /\ \/ /\ eligible # {} /\ \A b \in eligible : row[b].iban
            /\ pc' = [pc EXCEPT ![e] = "mark"]
            /\ file' = [file EXCEPT ![e] = eligible]
            /\ todo' = [todo EXCEPT ![e] = eligible]
            /\ UNCHANGED lock
         \/ Finish(e)
      /\ UNCHANGED <<row, debits, late>>

\* mark_sepa_exported: UPDATE ... WHERE id = ANY, row by row.
MarkRow(e) ==
  /\ pc[e] = "mark"
  /\ \E b \in todo[e] :
       /\ Free(e, b)
       /\ lock' = [lock EXCEPT ![b] = e]
       /\ todo' = [todo EXCEPT ![e] = @ \ {b}]
  /\ UNCHANGED <<row, pc, file, debits, late>>

Marked(r) == [r EXCEPT !.exported = TRUE]

Commit(e) ==
  /\ pc[e] = "mark" /\ todo[e] = {}
  /\ row' = [b \in Ids |-> IF b \in file[e] THEN Marked(row[b]) ELSE row[b]]
  /\ debits' = [b \in Ids |-> IF b \in file[e] THEN debits[b] + 1 ELSE debits[b]]
  /\ Finish(e)
  /\ UNCHANGED late

\* The process or its connection is gone.
Abort(e) ==
  /\ pc[e] # "idle"
  /\ Finish(e)
  /\ UNCHANGED <<row, debits, late>>

\* e cannot go on before others give up row locks.
Blocked(e) == todo[e] # {} /\ \A b \in todo[e] : ~Free(e, b)

Holders(e) == {lock[b] : b \in todo[e]} \ {None, e}

\* PostgreSQL aborts a transaction of a circle of waiting ones.
DeadlockVictim(e) ==
  /\ \E S \in SUBSET Exporters :
       /\ e \in S
       /\ \A f \in S : Blocked(f) /\ Holders(f) \cap S # {}
  /\ Finish(e)
  /\ UNCHANGED <<row, debits, late>>

-----------------------------------------------------------------------------
Init ==
  /\ row = [b \in Ids |-> None]
  /\ lock = [b \in Ids |-> None]
  /\ pc = [e \in Exporters |-> "idle"]
  /\ todo = [e \in Exporters |-> {}]
  /\ file = [e \in Exporters |-> {}]
  /\ debits = [b \in Ids |-> 0]
  /\ late = {}

\* The statements of an export that has begun.
Export(e) == LockRow(e) \/ ReadEligible(e) \/ MarkRow(e) \/ Commit(e) \/ DeadlockVictim(e)

Next ==
  \/ \E b \in Ids : Book(b) \/ Cancel(b)
  \/ \E e \in Exporters : LockEligible(e) \/ Export(e) \/ Abort(e)

Spec == Init /\ [][Next]_vars

\* The request is served on, and PostgreSQL queues the waiters of a row.
FairSpec == Spec /\ \A e \in Exporters : SF_vars(Export(e))

-----------------------------------------------------------------------------
\* The type invariant.
TypeOK ==
  /\ row \in [Ids -> Row \cup {None}]
  /\ lock \in [Ids -> Exporters \cup {None}]
  /\ pc \in [Exporters -> {"idle", "lock", "mark"}]
  /\ todo \in [Exporters -> SUBSET Ids]
  /\ file \in [Exporters -> SUBSET Ids]
  /\ debits \in [Ids -> Nat]
  /\ late \subseteq Ids

\* What the locks of an export are good for: until it reads, every eligible booking
\* is locked, still to be locked, or late; of the bookings in its file only the
\* late ones can be canceled or exported by somebody else before it commits.
ExportsOK ==
  \A e \in Exporters :
    /\ pc[e] = "idle" => todo[e] = {} /\ \A b \in Ids : lock[b] # e
    /\ pc[e] # "mark" => file[e] = {}
    /\ pc[e] = "lock" => \A b \in Ids : Eligible(b) => lock[b] = e \/ b \in todo[e] \cup late
    /\ \A b \in file[e] :
         /\ row[b] # None /\ row[b].enrolled /\ row[b].iban
         /\ b \in late \/ (lock[b] = e /\ Eligible(b))
         /\ b \in todo[e] \/ lock[b] = e

\* The mark and the files agree at every moment, also after aborts: a booking is
\* marked as exported exactly if a committed file contains it.
MarkedIffDebited == \A b \in Ids : (row[b] # None /\ row[b].exported) <=> debits[b] > 0

\* The locks keep a booking out of two files, however many exports run at once,
\* if it was eligible before they began to take their locks: a booking that gets
\* in between the lock and the read is not locked.
OnlyLateDebitedTwice == \A b \in Ids : debits[b] > 1 => b \in late

\* Both: no account is debited twice for what was marked in time.
DebitsAgree == MarkedIffDebited /\ OnlyLateDebitedTwice

\* The inductive invariant.
IInv == TypeOK /\ ExportsOK /\ MarkedIffDebited /\ OnlyLateDebitedTwice

\* The same locks keep a file free of bookings that were canceled while it was
\* made, and no file has a booking without seat or IBAN.
FilesAreValid ==
  [][\A b \in Ids : debits'[b] > debits[b] =>
       row[b].enrolled /\ row[b].iban /\ (row[b].canceled => b \in late)]_vars

\* An export comes to an end, also when it waits for another one and that waits
\* for it.
EveryExportEnds == \A e \in Exporters : pc[e] # "idle" ~> pc[e] = "idle"
=============================================================================
