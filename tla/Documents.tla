------------------------------ MODULE Documents ------------------------------
(***************************************************************************)
(* What is written about the bookings of an event: the total price, in the *)
(* two ways it is computed, and the mails, sheets, lists and files that    *)
(* show it. Values are saved by position; which field a position belongs   *)
(* to is read from the columns of the event, or from the list of its       *)
(* fields, which comes in the order of the table of fields.                *)
(***************************************************************************)
EXTENDS Integers, Sequences, FiniteSets, FiniteSetsExt, SequencesExt

CONSTANTS
  Fields,       \* event_custom_fields
  Relevant,     \* those that are price_relevant
  PageSize,     \* participants on a page of the list, 16 in the code
  NameRows,     \* rows of its table, 17 in the code
  DateColumns,  \* columns of its table, 10 in the code
  None

ASSUME FieldsAssumption == Relevant \subseteq Fields /\ None \notin Fields
ASSUME PagesAssumption == {PageSize, NameRows, DateColumns} \subseteq Nat /\ PageSize \in 1..NameRows

-----------------------------------------------------------------------------
\* ORDER BY: these numbers in ascending order.
Sorted(S) == [k \in 1..Cardinality(S) |-> CHOOSE n \in S : Cardinality({m \in S : m < n}) = k - 1]

\* The elements of the sequence at these places.
Those(seq, places) == [k \in 1..Cardinality(places) |-> seq[Sorted(places)[k]]]

-----------------------------------------------------------------------------
(* Prices                                                                   *)

Positions == 1..4

\* Mutant: the first value is the number.
FirstValue(flags, values) ==
  IF ToSet(flags) = {FALSE} \/ values = <<>> THEN None ELSE values[1]

\* price_relevant_multiplier: None if the value is missing or not a number.
Multiplier(flags, values) ==
  LET relevant == {i \in DOMAIN flags : flags[i]}
      i == Min(relevant)
  IN  IF relevant = {} \/ i \notin DOMAIN values THEN None ELSE values[i]

\* BookingCustomFieldValues::total_price
TotalPrice(base, flags, values) ==
  IF Multiplier(flags, values) = None THEN base ELSE base * Multiplier(flags, values)

\* insert_event_custom_fields: the fields of the event's columns in the order of the table.
Listed(table, columns) == Those(table, {i \in DOMAIN table : table[i] \in ToSet(columns)})

\* from_event_fields
ListFlags(list) == [i \in Positions |-> i <= Len(list) /\ list[i] \in Relevant]

\* Event::total_price
EventPrice(base, list, values) == TotalPrice(base, ListFlags(list), values)

\* custom_field_1 to custom_field_4 of the event, with fetch_price_relevant_flags.
ColumnFlags(columns) == [i \in Positions |-> i <= Len(columns) /\ columns[i] \in Relevant]

\* get_bookings_to_verify_payment
CheckedPrice(base, columns, values) == TotalPrice(base, ColumnFlags(columns), values)

\* fetch_unpaid_bookings
UnpaidPrice(base, columns, values) == TotalPrice(base, ColumnFlags(columns), values)

-----------------------------------------------------------------------------
(* Mails                                                                    *)

\* format_payment_details: a direct debit is not paid by the person.
PaymentDetails(account, id, debit) == IF debit \/ account = None \/ id = None THEN None ELSE id

\* send_booking_mail: who waits gets no payment id. BookingTemplateData::from_booking
BookingMail(id, enrolled, price, account, debit) ==
  [to |-> id, price |-> price, pay |-> PaymentDetails(account, IF enrolled THEN id ELSE None, debit)]

\* BookingTemplateData::from_unpaid_booking
PaymentReminder(id, price, account, debit) ==
  [to |-> id, price |-> price, pay |-> PaymentDetails(account, id, debit)]

\* send_event_email, without a link to another event: here who waits gets the payment id, too.
EventEmails(bookings, list, account, debit) ==
  [i \in DOMAIN bookings |->
     LET s == bookings[i]
     IN  BookingMail(s.id, TRUE, EventPrice(s.base, list, s.values), account, debit)]

-----------------------------------------------------------------------------
(* Sheets and lists. A subscription, as insert_event_subscribers reads it,  *)
(* is a record with id, enrolled, base, values, paid and exported.          *)

Selected(subscribers, enrolled) ==
  Those(subscribers, {i \in DOMAIN subscribers : subscribers[i].enrolled = enrolled})

\* A row of the sheet: the price, the mark of the payment or the debit, a cell for each field.
Line(s, list, debit) ==
  [id |-> s.id, price |-> EventPrice(s.base, list, s.values),
   mark |-> IF debit THEN s.exported ELSE s.paid,
   cells |-> [i \in DOMAIN list |-> IF i \in DOMAIN s.values THEN s.values[i] ELSE None]]

Sheet(subscribers, list, debit) == [i \in DOMAIN subscribers |-> Line(subscribers[i], list, debit)]

\* Mutant: the waiting list is made of all.
AllOnBoth(subscribers, list, debit) ==
  [bookings |-> Sheet(Selected(subscribers, TRUE), list, debit), waiting |-> Sheet(subscribers, list, debit)]

\* event_bookings: one sheet for those with a seat, one for the waiting list.
Workbook(subscribers, list, debit) ==
  [bookings |-> Sheet(Selected(subscribers, TRUE), list, debit),
   waiting |-> Sheet(Selected(subscribers, FALSE), list, debit)]

\* The names that the table of a page has rows for, below its title row.
NamesOf(participants) == SubSeq(participants, 1, Min({NameRows, Len(participants)}))

\* The dates that it has columns for: others are left out.
DatesOf(dates) == SubSeq(dates, 1, Min({DateColumns, Len(dates)}))

Page(participants, dates) == [names |-> NamesOf(participants), dates |-> DatesOf(dates)]

\* participants.chunks(16): another page as long as somebody is left.
PageNumbers(n) == {p \in 1..n : (p - 1) * PageSize < n}

\* create_participant_list
Pages(participants, dates) ==
  [p \in PageNumbers(Len(participants)) |->
     Page(SubSeq(participants, (p - 1) * PageSize + 1, Min({p * PageSize, Len(participants)})), dates)]

\* event_participants_list
ParticipantsList(subscribers, dates) ==
  LET attendees == Selected(subscribers, TRUE)
  IN  Pages([i \in DOMAIN attendees |-> attendees[i].id], dates)

\* send_participation_confirmation: to every attendee, when the course took place; an
\* event without dates is refused.
Confirmation(s, list, dates) ==
  [to |-> s.id, price |-> EventPrice(s.base, list, s.values),
   first |-> dates[1], last |-> dates[Len(dates)], times |-> Len(dates)]

Confirmations(subscribers, list, dates) ==
  LET attendees == Selected(subscribers, TRUE)
  IN  IF dates = <<>> THEN <<>> ELSE [i \in DOMAIN attendees |-> Confirmation(attendees[i], list, dates)]

-----------------------------------------------------------------------------
(* generate_sepa_xml: NbOfTxs, CtrlSum, and a DrctDbtTxInf for each booking. *)

Debit(s, list) == [ref |-> s.id, amount |-> EventPrice(s.base, list, s.values)]

SepaXml(subscribers, list) ==
  LET debits == [i \in DOMAIN subscribers |-> Debit(subscribers[i], list)]
  IN  [count |-> Len(subscribers), debits |-> debits,
       sum |-> SumFunction([i \in DOMAIN debits |-> debits[i].amount])]

-----------------------------------------------------------------------------
(* Account statements. A line has a day, an account, the payment ids in its *)
(* purpose, an amount and, in one of the two formats, its side.             *)

\* volumne: the "rich" format has amounts without sign, and H for what comes in.
Volume(statement, line) ==
  IF statement.format = "rich" /\ ~line.credit THEN -line.amount ELSE line.amount

\* PaymentRecord::new
PaymentRecord(statement, line) == [ids |-> line.ids, volume |-> Volume(statement, line), iban |-> line.iban]

\* read_payment_records: lines before the start date, if there is one, are left out.
ReadPaymentRecords(statement) ==
  [i \in {j \in DOMAIN statement.lines :
            statement.start = None \/ statement.lines[j].day >= statement.start} |->
     PaymentRecord(statement, statement.lines[i])]
=============================================================================
