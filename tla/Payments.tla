------------------------------ MODULE Payments ------------------------------
(***************************************************************************)
(* Payments of bookings: administrators upload account statements, whose   *)
(* records are compared with the bookings, mark or unmark bookings by      *)
(* hand, and bookings are canceled. Every worker runs one READ COMMITTED   *)
(* transaction after the other; a statement's comparison comes before its  *)
(* transaction. (A cancelation is one step here, its commit; Bookings      *)
(* models its statements.) What has to be paid depends on the columns of   *)
(* the event's fields, which administrators change meanwhile.              *)
(***************************************************************************)
EXTENDS Documents

CONSTANTS
  Workers,
  Ids,      \* the bookings, each with its payment id, ordered as they are created
  Sepa,     \* the bookings of an event that is paid by direct debit
  Base,     \* the price of each booking, for members or others
  Answers,  \* what each of them was made with: the value of every field, or None
  Tables,   \* orders of the table of fields
  Columns,  \* what the columns of the events may hold
  Dates,    \* the dates of both events
  Ibans,    \* accounts payments come from
  Unknown,  \* a payment id that is no booking's
  Files,    \* account statements that are uploaded
  Ops,      \* kinds of request, of "verify", "update", "cancel" and "fields"
  MaxWork   \* bound: how many requests there are

\* A row of event_bookings; paid: payment_confirmed_at is set.
Row == [enrolled : BOOLEAN, canceled : BOOLEAN, paid : BOOLEAN, iban : Ibans \cup {None}]

\* A line of a statement; ids are the payment ids found in its purpose.
Lines == [day : Int, iban : Ibans, ids : SUBSET (Ids \cup {Unknown}), amount : Int, credit : BOOLEAN]
Statement == [format : {"rich", "classic"}, start : Int \cup {None}, lines : Seq(Lines)]

\* The order of the fields, and the columns of the event when the bookings were made, and now.
Form == [table : Tables, first : Columns, columns : Columns]

ASSUME WorkersAssumption == IsFiniteSet(Workers) /\ None \notin Workers
ASSUME IdsAssumption ==
  Ids \subseteq Nat /\ IsFiniteSet(Ids) /\ Sepa \subseteq Ids /\ Unknown \notin Ids /\ None \notin Ids
ASSUME PriceAssumption == Base \in [Ids -> Nat] /\ Answers \in [Ids -> [Fields -> Int \cup {None}]]
\* An event has up to four fields, and write_event refuses more than one that counts.
ASSUME FormAssumption ==
  /\ Tables \subseteq Seq(Fields) /\ Columns \subseteq Seq(Fields)
  /\ \A columns \in Columns :
       Len(columns) <= 4 /\ \A f, g \in ToSet(columns) \cap Relevant : f = g
ASSUME DatesAssumption == Dates \in Seq(ToSet(Dates))
ASSUME FilesAssumption == Files \subseteq Statement
ASSUME NoneAssumption == None \notin Ibans /\ None \notin Row

VARIABLES
  row,      \* the committed rows
  version,  \* ... and their newest versions
  lock,     \* the open transaction that wrote the newest version, or None
  pc,       \* the next statement of each worker
  tx,       \* the locals of its request
  form,     \* the fields that are asked for
  work,     \* how many requests there have been
  payments, \* history: how many payments have been accepted for the booking since
            \* it was last marked as unpaid
  crossed,  \* ... bookings that were changed between the comparison of a statement and
            \* the commit of its transaction
  promoted  \* ... bookings that got their seat when another one was canceled

vars == <<row, version, lock, pc, tx, form, work, payments, crossed, promoted>>
history == <<payments, crossed, promoted>>

\* iban: what mark_as_paid writes to the bookings it is called with (None: it was
\* update_payment); todo: those it has still to update, next: the one it is at.
NoTx == [iban |-> [b \in {} |-> None], paid |-> FALSE, todo |-> {}, next |-> None]

-----------------------------------------------------------------------------
(* Prices                                                                   *)

\* Who books fills in the fields as they are listed then; the values are saved by position.
Asked == Listed(form.table, form.first)
Values(b) == [i \in DOMAIN Asked |-> Answers[b][Asked[i]]]

ListedNow == Listed(form.table, form.columns)

\* What the booking costs, as a statement is compared with it.
Price(b) == CheckedPrice(Base[b], form.columns, Values(b))

-----------------------------------------------------------------------------
(* compare_payment_records_with_bookings                                    *)

\* A booking is matched with the first record that names it.
Matched(file, i) == (file[i].ids \cap Ids) \ UNION {file[j].ids : j \in {k \in DOMAIN file : k < i}}

\* Mutants: a booking that is paid, or canceled, is no problem.
ProblemUnlessPaid(r) == r.canceled \/ ~r.enrolled
ProblemUnlessCanceled(r) == r.paid \/ ~r.enrolled

\* Paid twice, paid though canceled, or paid though on the waiting list.
Problem(r) == r.paid \/ (r.enrolled /\ r.canceled) \/ ~r.enrolled

Total(bookings) == SumFunctionOnSet([b \in Ids |-> Price(b)], bookings)

\* Mutant: a payment of too much is accepted.
EnoughPaid(file, i) == Total(Matched(file, i)) <= file[i].volume

RightVolume(file, i) == Total(Matched(file, i)) = file[i].volume

Verified(file, rows, i) ==
  IF RightVolume(file, i) THEN {b \in Matched(file, i) : ~Problem(rows[b])} ELSE {}

\* verified_ibans: the account of each booking that is verified.
VerifiedIbans(file, rows) ==
  [b \in UNION {Verified(file, rows, i) : i \in DOMAIN file} |->
     file[CHOOSE i \in DOMAIN file : b \in Verified(file, rows, i)].iban]

\* The bookings and the records that are reported as problems.
WithErrors(file, rows) ==
  UNION {Matched(file, i) \ Verified(file, rows, i) : i \in DOMAIN file}

NotMatching(file) ==
  {i \in DOMAIN file : file[i].ids = {} \/ file[i].ids # Matched(file, i)}

-----------------------------------------------------------------------------
Free(p, b) == lock[b] \in {None, p}

\* Mutant: a rollback keeps the locks.
KeptLocks(p) == lock

ReleasedLocks(p) == [b \in Ids |-> IF lock[b] = p THEN None ELSE lock[b]]

Idle(p) ==
  /\ lock' = ReleasedLocks(p)
  /\ pc' = [pc EXCEPT ![p] = "idle"]
  /\ tx' = [tx EXCEPT ![p] = NoTx]

Restored(p) == [b \in Ids |-> IF lock[b] = p THEN row[b] ELSE version[b]]

\* The request ends with an error, its transaction is dropped.
Fail(p) ==
  /\ version' = Restored(p)
  /\ Idle(p)
  /\ UNCHANGED <<row, form, work, history>>

\* A request comes in.
Arrives(kind) == kind \in Ops /\ work < MaxWork /\ work' = work + 1

\* A transaction begins to update these bookings.
Begin(p, ibans, paid) ==
  /\ pc' = [pc EXCEPT ![p] = "check"]
  /\ tx' = [tx EXCEPT ![p] = [iban |-> ibans, paid |-> paid, todo |-> DOMAIN ibans, next |-> None]]

\* verify_payments, up to mark_as_paid: read the bookings, compare. Nothing is left
\* to do if no payment is verified.
VerifyPayments(p) ==
  /\ Arrives("verify") /\ pc[p] = "idle"
  /\ \E file \in Files :
       LET ibans == VerifiedIbans(ReadPaymentRecords(file), row)
       IN  DOMAIN ibans # {} /\ Begin(p, ibans, TRUE)
  /\ UNCHANGED <<row, version, lock, form, history>>

\* update_payment leaves the IBAN alone.
UpdatePayment(p) ==
  /\ Arrives("update") /\ pc[p] = "idle"
  /\ \E b \in Ids, paid \in BOOLEAN : Begin(p, [c \in {b} |-> None], paid)
  /\ UNCHANGED <<row, version, lock, form, history>>

\* Mutant: the payment method is not looked at.
AnyMethod(bookings) == TRUE

\* Both transactions refuse bookings that are paid by direct debit, as a whole.
OnlyBankTransfers(bookings) == bookings \cap Sepa = {}

CheckMethods(p) ==
  /\ pc[p] = "check"
  /\ IF OnlyBankTransfers(tx[p].todo)
       THEN pc' = [pc EXCEPT ![p] = "mark"] /\ UNCHANGED <<row, version, lock, tx, form, work, history>>
       ELSE Fail(p)

\* The next UPDATE, in the order of the HashMap.
NextBooking(p) ==
  /\ pc[p] = "mark" /\ tx[p].next = None
  /\ \E b \in tx[p].todo : tx' = [tx EXCEPT ![p].next = b, ![p].todo = @ \ {b}]
  /\ UNCHANGED <<row, version, lock, pc, form, work, history>>

Marked(r, t, b) ==
  [r EXCEPT !.paid = t.paid, !.iban = IF t.iban[b] = None THEN r.iban ELSE t.iban[b]]

\* ... which waits for the lock, and updates the newest version whatever it says.
MarkBooking(p) ==
  LET b == tx[p].next
  IN  /\ pc[p] = "mark" /\ b # None /\ Free(p, b)
      /\ lock' = [lock EXCEPT ![b] = p]
      /\ version' = [version EXCEPT ![b] = Marked(version[b], tx[p], b)]
      /\ tx' = [tx EXCEPT ![p].next = None]
      /\ UNCHANGED <<row, pc, form, work, history>>

\* The bookings of S that another statement, compared before, is about to mark.
Crossed(p, S) ==
  crossed \cup {b \in S : \E q \in Workers \ {p} : b \in DOMAIN tx[q].iban /\ tx[q].iban[b] # None}

Commit(p) ==
  /\ pc[p] = "mark" /\ tx[p].next = None /\ tx[p].todo = {}
  /\ row' = [b \in Ids |-> IF lock[b] = p THEN version[b] ELSE row[b]]
  /\ payments' = [b \in Ids |->
       IF b \notin DOMAIN tx[p].iban THEN payments[b]
       ELSE IF ~tx[p].paid THEN 0
       ELSE IF tx[p].iban[b] # None THEN payments[b] + 1 ELSE payments[b]]
  /\ crossed' = Crossed(p, DOMAIN tx[p].iban)
  /\ Idle(p)
  /\ UNCHANGED <<version, form, work, promoted>>

\* The transaction is dropped: a statement fails, or the process is gone.
Abort(p) == pc[p] # "idle" /\ Fail(p)

-----------------------------------------------------------------------------
(* Waiting for locks                                                        *)

Blocked(p) == pc[p] = "mark" /\ tx[p].next # None /\ ~Free(p, tx[p].next)

\* PostgreSQL aborts one of the transactions that wait for each other in a circle.
DeadlockVictim(p) ==
  /\ \E circle \in SUBSET Workers :
       /\ p \in circle
       /\ \A q \in circle : Blocked(q) /\ lock[tx[q].next] \in circle
  /\ Fail(p)

-----------------------------------------------------------------------------
(* Cancelations                                                             *)

\* The waiting bookings of the event of b.
Waiting(b) == {c \in Ids : (c \in Sepa <=> b \in Sepa) /\ ~row[c].enrolled /\ ~row[c].canceled}

Cancel(p) ==
  /\ Arrives("cancel") /\ pc[p] = "idle"
  /\ \E b \in Ids :
       LET line == Waiting(b) \ {b}
           first == {c \in line : row[b].enrolled /\ \A d \in line : c <= d}
       IN  /\ lock[b] = None /\ \A c \in first : lock[c] = None
           /\ row' = [c \in Ids |-> IF c = b THEN [row[b] EXCEPT !.canceled = TRUE]
                                    ELSE IF c \in first THEN [row[c] EXCEPT !.enrolled = TRUE]
                                    ELSE row[c]]
           /\ version' = [c \in Ids |-> IF c \in first \cup {b} THEN row'[c] ELSE version[c]]
           /\ crossed' = Crossed(p, first \cup {b})
           /\ promoted' = promoted \cup first
  /\ UNCHANGED <<lock, pc, tx, form, payments>>

\* update_event with other custom fields.
UpdateFields ==
  /\ Arrives("fields")
  /\ \E columns \in Columns : form' = [form EXCEPT !.columns = columns]
  /\ UNCHANGED <<row, version, lock, pc, tx, history>>

-----------------------------------------------------------------------------
(* Reports                                                                  *)

\* insert_event_subscribers: the bookings that are not canceled, those with a seat first.
Subscription(b) ==
  [id |-> b, enrolled |-> row[b].enrolled, base |-> Base[b], values |-> Values(b),
   paid |-> row[b].paid, exported |-> FALSE]

BookingsOf(debit, enrolled) ==
  {b \in Ids : ~row[b].canceled /\ (b \in Sepa <=> debit) /\ row[b].enrolled \in enrolled}

Subscribers(debit) ==
  LET ids == Sorted(BookingsOf(debit, {TRUE})) \o Sorted(BookingsOf(debit, {FALSE}))
  IN  [i \in DOMAIN ids |-> Subscription(ids[i])]

\* get_bookings: of attendees, of those who wait, or of all, in the order they were made.
GetBookings(debit, enrolled) ==
  LET ids == Sorted(BookingsOf(debit, enrolled))
  IN  [i \in DOMAIN ids |-> Subscription(ids[i])]

\* The mail to somebody whose seat was another's: the booking is read without its values.
MailedValues(b) == IF b \in promoted THEN <<>> ELSE Values(b)

-----------------------------------------------------------------------------
\* The bookings as they were made: seats and the waiting list; direct debits have
\* an IBAN to begin with.
Init ==
  /\ row \in {r \in [Ids -> Row] : \A b \in Ids : /\ ~r[b].canceled /\ ~r[b].paid
                                                  /\ r[b].iban = None <=> b \notin Sepa}
  /\ version = row
  /\ lock = [b \in Ids |-> None]
  /\ pc = [p \in Workers |-> "idle"]
  /\ tx = [p \in Workers |-> NoTx]
  /\ \E table \in Tables, columns \in Columns :
       form = [table |-> table, first |-> columns, columns |-> columns]
  /\ work = 0 /\ payments = [b \in Ids |-> 0] /\ crossed = {} /\ promoted = {}

Serve(p) == CheckMethods(p) \/ NextBooking(p) \/ MarkBooking(p) \/ Commit(p)

Next ==
  \/ UpdateFields
  \/ \E p \in Workers :
       \/ VerifyPayments(p) \/ UpdatePayment(p) \/ Cancel(p)
       \/ Serve(p) \/ DeadlockVictim(p) \/ Abort(p)

Spec == Init /\ [][Next]_vars

\* PostgreSQL grants row locks in turn and breaks deadlocks.
FairSpec == Spec /\ \A p \in Workers : SF_vars(Serve(p)) /\ SF_vars(DeadlockVictim(p))

-----------------------------------------------------------------------------
(* Properties                                                               *)

Tx == [iban : UNION {[S -> Ibans \cup {None}] : S \in SUBSET Ids}, paid : BOOLEAN,
       todo : SUBSET Ids, next : Ids \cup {None}]

TypeOK ==
  /\ row \in [Ids -> Row] /\ version \in [Ids -> Row]
  /\ lock \in [Ids -> Workers \cup {None}]
  /\ pc \in [Workers -> {"idle", "check", "mark"}]
  /\ tx \in [Workers -> Tx]
  /\ form \in Form /\ work \in Nat
  /\ payments \in [Ids -> Nat] /\ crossed \subseteq Ids /\ promoted \subseteq Ids

\* The inductive invariant: a transaction that updates bookings was checked to be
\* about bank transfers only and has locked bookings of its own list only; without
\* a lock there is no version but the committed one.
Bookings(p) == DOMAIN tx[p].iban

InOrder ==
  /\ \A p \in Workers : tx[p].todo \subseteq Bookings(p) /\ tx[p].next \in Bookings(p) \cup {None}
  /\ \A p \in Workers : pc[p] = "check" => tx[p].todo = Bookings(p)
  /\ \A p \in Workers : pc[p] = "mark" => OnlyBankTransfers(Bookings(p))

LocksInOrder ==
  /\ \A b \in Ids : lock[b] = None => version[b] = row[b]
  /\ \A b \in Ids : lock[b] # None => pc[lock[b]] = "mark" /\ b \in Bookings(lock[b])

\* No statement and no administrator marks a direct debit as paid or replaces the
\* account it is debited from: one such booking refuses the whole transaction.
DebitsUntouched == \A b \in Sepa : ~row[b].paid /\ row[b].iban # None

\* Every id a record names is accounted for exactly once: its payment is accepted
\* by that record, the booking is reported with errors, or the record is reported as
\* not matching. No two records of a statement pay the same booking.
IdsAreReported(file) ==
  LET v(i) == Verified(file, row, i)
  IN  /\ \A i \in DOMAIN file : \A id \in file[i].ids :
           id \in v(i) \/ id \in WithErrors(file, row) \/ i \in NotMatching(file)
      /\ DOMAIN VerifiedIbans(file, row) \cap WithErrors(file, row) = {}
      /\ \A i, j \in DOMAIN file : i # j => v(i) \cap v(j) = {}

\* What comes in, and what goes out, in these lines of a statement.
Paid(statement, lines, credit) ==
  SumFunctionOnSet([i \in DOMAIN statement.lines |-> statement.lines[i].amount],
                   {i \in lines : statement.lines[i].credit = credit})

\* What a statement is reported to pay was paid: the prices of the bookings it settles do
\* not exceed what came in, and are equal to it if nothing is reported.
SumsAgree(statement, file) ==
  LET settled == Total(DOMAIN VerifiedIbans(file, row))
      paid(credit) == Paid(statement, DOMAIN file, credit)
      clean == WithErrors(file, row) = {} /\ NotMatching(file) = {}
  IN  settled <= paid(TRUE) /\ (clean => settled = paid(TRUE) - paid(FALSE))

EveryIdIsReported ==
  \A statement \in Files :
    LET file == ReadPaymentRecords(statement)
    IN  IdsAreReported(file) /\ (statement.format = "rich" => SumsAgree(statement, file))

\* What the sums rest on, and the code does not check: nobody answers with a negative
\* number, and the amounts of a rich statement have no sign.
NothingNegative ==
  /\ \A b \in Ids, f \in Fields : Answers[b][f] # None => Answers[b][f] >= 0
  /\ \A statement \in Files :
       statement.format = "rich" => \A i \in DOMAIN statement.lines : statement.lines[i].amount >= 0

\* What a booking costs is the price times the number the person gave for the field that
\* counts, and everybody is told the same: in the mail about the booking, in the reminder,
\* in announcements, on the sheet, in the file of the bank, by the comparison with statements and in the
\* confirmation at the end. Only as long as the event asks for the same fields, and its
\* columns are in the order of the table; and not in the mail to those who moved up.
Cost(b) ==
  LET number == {Answers[b][f] : f \in ToSet(form.columns) \cap Relevant} \ {None}
  IN  IF number = {} THEN Base[b] ELSE Base[b] * (CHOOSE n \in number : TRUE)

PricesAgree ==
  form.columns = form.first /\ ListedNow = form.columns =>
    /\ \A b \in Ids \ promoted :
         BookingMail(b, row[b].enrolled, EventPrice(Base[b], Asked, MailedValues(b)), TRUE, b \in Sepa).price = Cost(b)
    /\ \A b \in Ids : /\ PaymentReminder(b, UnpaidPrice(Base[b], form.columns, Values(b)), TRUE, b \in Sepa).price = Cost(b)
                      /\ Price(b) = Cost(b)
    /\ \A debit \in BOOLEAN : LET sheets == Workbook(Subscribers(debit), ListedNow, debit) IN
         \A line \in ToSet(sheets.bookings) \cup ToSet(sheets.waiting) : line.price = Cost(line.id)
    /\ \A debit \in BOOLEAN : \A mail \in ToSet(Confirmations(Subscribers(debit), ListedNow, Dates)) :
         mail.price = Cost(mail.to)
    /\ \A debit \in BOOLEAN : \A mail \in ToSet(EventEmails(GetBookings(debit, BOOLEAN), ListedNow, TRUE, debit)) :
         mail.price = Cost(mail.to)
    /\ LET xml == SepaXml(Selected(Subscribers(TRUE), TRUE), ListedNow)
       IN  xml.sum = SumFunctionOnSet([b \in Ids |-> Cost(b)], {d.ref : d \in ToSet(xml.debits)})

\* Each of these bookings is on the list once; ... in the order in which they were made.
Lists(ids, bookings) == Len(ids) = Cardinality(bookings) /\ ToSet(ids) = bookings

Ascending(ids) == \A i, j \in DOMAIN ids : i < j => ids[i] < ids[j]

\* The documents of an event are complete: each booking that is not canceled has one row,
\* on the sheet where it belongs, which says whether it is paid; the pages of the list name
\* every attendee once, the first ones first, and all dates that there is room for; and at
\* the end there is a confirmation for each of them, if the event has dates.
SheetsAreComplete(debit) ==
  LET sheets == Workbook(Subscribers(debit), ListedNow, debit)
      rowIds(lines) == [i \in DOMAIN lines |-> lines[i].id]
  IN  /\ Lists(rowIds(sheets.bookings), BookingsOf(debit, {TRUE}))
      /\ Lists(rowIds(sheets.waiting), BookingsOf(debit, {FALSE}))
      /\ ~debit => \A line \in ToSet(sheets.bookings) \cup ToSet(sheets.waiting) : line.mark <=> row[line.id].paid

PagesAreComplete(debit) ==
  LET pages == ParticipantsList(Subscribers(debit), Dates)
      named(p) == ToSet(pages[p].names)
  IN  /\ UNION {named(p) : p \in DOMAIN pages} = BookingsOf(debit, {TRUE})
      /\ \A p \in DOMAIN pages : named(p) # {} /\ Ascending(pages[p].names) /\ IsPrefix(pages[p].dates, Dates)
      /\ \A p, q \in DOMAIN pages : p < q => \A b \in named(p), c \in named(q) : b < c

ConfirmationsAreComplete(debit) ==
  LET mails == Confirmations(Subscribers(debit), ListedNow, Dates)
      to == [i \in DOMAIN mails |-> mails[i].to]
  IN  Dates # <<>> => Lists(to, BookingsOf(debit, {TRUE})) /\ Ascending(to)

DocumentsAreComplete ==
  \A debit \in BOOLEAN : SheetsAreComplete(debit) /\ PagesAreComplete(debit) /\ ConfirmationsAreComplete(debit)

\* A booking is settled by one payment; a second one is reported ("Doppelt bezahlt"),
\* unless the booking was changed after the statement had been compared with it.
PaidOnce == \A b \in Ids \ crossed : payments[b] <= 1

\* What makes it inductive: a transaction has marked every booking it is done with, and
\* what it is about to mark, or has marked, is no problem yet for everybody else.
MarksInOrder ==
  \A p \in Workers : pc[p] = "mark" =>
    \A b \in Bookings(p) \ (tx[p].todo \cup {tx[p].next}) : lock[b] = p /\ version[b].paid = tx[p].paid

Settling(p, b) == pc[p] # "idle" /\ b \in Bookings(p) /\ tx[p].iban[b] # None

PaymentsInOrder ==
  \A b \in Ids \ crossed :
    /\ payments[b] = 0 \/ (payments[b] = 1 /\ row[b].paid)
    /\ \A p \in Workers : Settling(p, b) => tx[p].paid /\ ~Problem(row[b])

IInv == TypeOK /\ InOrder /\ LocksInOrder /\ DebitsUntouched
PInv == IInv /\ MarksInOrder /\ PaymentsInOrder

\* A payment is accepted for an attendee, never for a canceled or waiting booking, unless
\* it was canceled after the statement had been compared with it.
PaidHasSeat ==
  [][\A b \in Ids \ crossed : payments'[b] > payments[b] => row[b].enrolled /\ ~row[b].canceled]_vars

\* Every request ends, though statements update bookings in any order.
EveryRequestEnds == \A p \in Workers : pc[p] # "idle" ~> pc[p] = "idle"
=============================================================================
