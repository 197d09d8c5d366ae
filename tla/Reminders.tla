------------------------------ MODULE Reminders ------------------------------
(***************************************************************************)
(* Payment reminders of one event that is paid by bank transfer: when a    *)
(* booking is due, which mails name a payday, and what send_payment_       *)
(* reminders does, statement by statement and mail by mail. Reminders are  *)
(* sent before they are marked, in no transaction; a failing mail ends the *)
(* request, and two requests may run at once. Meanwhile administrators     *)
(* change the dates of the event and its template.                         *)
(***************************************************************************)
EXTENDS Integers, FiniteSets

CONSTANTS
  Workers,      \* requests to send reminders
  Ids,          \* bookings of the event, in the order they are made
  LastDay,      \* bound: the last day that is looked at
  BookingDays,  \* the days on which bookings are made
  Deadlines,    \* what the event's first date less the days of its template may be
  None

Days == 0..LastDay

ASSUME WorkersAssumption == IsFiniteSet(Workers)
ASSUME DaysAssumption ==
  /\ LastDay \in Nat /\ BookingDays \subseteq Days /\ Deadlines \subseteq Int
  /\ None \notin Int
ASSUME IdsAssumption == Ids \subseteq Nat

\* A row of event_bookings; reminded is payment_reminder_sent.
Row == [created : Days, enrolled : BOOLEAN, canceled : BOOLEAN, paid : BOOLEAN, reminded : Days \cup {None}]

ASSUME NoneAssumption == None \notin Row

VARIABLES
  day,        \* today, as Utc::now() has it
  deadline,   \* the first of event_dates, less the days of booking_template: {{payday n}}, or
              \* 14; None without dates
  row,        \* event_bookings, None before the booking is made
  unsent,     \* bookings that were given a seat and not yet the mail that names a payday
  named,      \* for each booking, the deadline that mail was (or will be) written with
  confirmed,  \* ... and the day it was written (or None)
  mails,      \* the day of its last reminder (or None)
  doubtful,   \* bookings with a reminder that has not been marked, or in two lists
  list,       \* the bookings each request has to remind
  seen,       \* ... the deadline it has read with them
  sent        \* ... those it has reminded so far

vars == <<day, deadline, row, unsent, named, confirmed, mails, doubtful, list, seen, sent>>
reading == <<named, seen>>

-----------------------------------------------------------------------------
(* Paydays                                                                  *)

\* calculate_payday: some days before the event, but the day after base at least.
Payday(until, base) == IF until < base + 1 THEN base + 1 ELSE until

\* Mutant: a reminder gives no more time.
BaseOfBooking(r) == r.created

\* A reminder gives three more days.
Base(r) == IF r.reminded = None THEN r.created ELSE r.reminded + 3

\* Mutant: due on the payday itself.
DueInDaysOfToday(r) == Payday(deadline, Base(r)) - 1 - day

DueInDays(r) == Payday(deadline, Base(r)) - day

Unpaid(r) == r # None /\ r.enrolled /\ ~r.canceled /\ ~r.paid

\* Nothing is due for an event without dates.
Overdue == {b \in Ids : deadline # None /\ Unpaid(row[b]) /\ DueInDays(row[b]) < 0}

-----------------------------------------------------------------------------
(* Bookings and payments, as far as they concern the reminders              *)

NextDay ==
  /\ day < LastDay
  /\ day' = day + 1
  /\ UNCHANGED <<deadline, row, unsent, confirmed, mails, doubtful, list, sent, reading>>

\* update_event: other dates, none any more, or another template.
UpdateEvent ==
  /\ deadline' \in (Deadlines \cup {None}) \ {deadline}
  /\ UNCHANGED <<day, row, unsent, confirmed, mails, doubtful, list, sent, reading>>

\* The mail about a seat is written with the event as it is read now; it names no payday
\* for an event without dates.
ReadForMail(b) ==
  /\ unsent' = IF deadline = None THEN unsent ELSE unsent \cup {b}
  /\ named' = [named EXCEPT ![b] = deadline]

\* A booking with a seat or on the waiting list; ids and dates agree.
Book(b) ==
  /\ day \in BookingDays
  /\ row[b] = None /\ \A c \in Ids : c < b => row[c] # None
  /\ \E seat \in BOOLEAN :
       /\ row' = [row EXCEPT ![b] = [created |-> day, enrolled |-> seat, canceled |-> FALSE,
                                     paid |-> FALSE, reminded |-> None]]
       /\ IF seat THEN ReadForMail(b) ELSE UNCHANGED <<unsent, named>>
  /\ UNCHANGED <<day, deadline, confirmed, mails, doubtful, list, seen, sent>>

Waiting == {b \in Ids : row[b] # None /\ ~row[b].enrolled /\ ~row[b].canceled}

Cancel(b) ==
  /\ row[b] # None /\ ~row[b].canceled
  /\ row' = [row EXCEPT ![b].canceled = TRUE]
  /\ UNCHANGED <<day, deadline, unsent, confirmed, mails, doubtful, list, sent, reading>>

\* When an attendee cancels, the first of the waiting list moves up; its `created`
\* stays. (The attendee may be one that is not looked at here.)
MoveUp(b) ==
  /\ b \in Waiting /\ \A c \in Waiting : b <= c
  /\ row' = [row EXCEPT ![b].enrolled = TRUE]
  /\ ReadForMail(b)
  /\ UNCHANGED <<day, deadline, confirmed, mails, doubtful, list, seen, sent>>

\* The mail with the payday is written, as of today. It may also be lost.
Confirm(b) ==
  /\ b \in unsent
  /\ unsent' = unsent \ {b}
  /\ confirmed' = [confirmed EXCEPT ![b] = day]
  /\ UNCHANGED <<day, deadline, row, mails, doubtful, list, sent, reading>>

\* A payment is confirmed, or the confirmation taken back.
SetPaid(b) ==
  /\ row[b] # None
  /\ row' = [row EXCEPT ![b].paid = ~row[b].paid]
  /\ UNCHANGED <<day, deadline, unsent, confirmed, mails, doubtful, list, sent, reading>>

-----------------------------------------------------------------------------
(* send_payment_reminders                                                   *)

Running(p) == list[p] # {}

ListedByOthers(p) == UNION {list[q] : q \in Workers \ {p}}

\* One SELECT reads the unpaid bookings with the event's first date and template; those
\* that are overdue today are kept.
Begin(p) ==
  /\ ~Running(p) /\ Overdue # {}
  /\ list' = [list EXCEPT ![p] = Overdue]
  /\ seen' = [seen EXCEPT ![p] = deadline]
  /\ doubtful' = doubtful \cup (Overdue \cap ListedByOthers(p))
  /\ UNCHANGED <<day, deadline, row, unsent, named, confirmed, mails, sent>>

\* The mails are sent one after the other, whatever happens to the bookings.
Send(p, b) ==
  /\ b \in list[p] \ sent[p]
  /\ sent' = [sent EXCEPT ![p] = @ \cup {b}]
  /\ mails' = [mails EXCEPT ![b] = day]
  /\ UNCHANGED <<day, deadline, row, unsent, confirmed, doubtful, list, reading>>

Done(p) ==
  /\ list' = [list EXCEPT ![p] = {}]
  /\ seen' = [seen EXCEPT ![p] = None]
  /\ sent' = [sent EXCEPT ![p] = {}]

Marked(p) == list[p]

\* One UPDATE marks all of them.
Mark(p) ==
  /\ Running(p) /\ sent[p] = list[p]
  /\ row' = [b \in Ids |-> IF b \in Marked(p) THEN [row[b] EXCEPT !.reminded = day] ELSE row[b]]
  /\ doubtful' = doubtful \ (list[p] \ ListedByOthers(p))
  /\ Done(p)
  /\ UNCHANGED <<day, deadline, unsent, named, confirmed, mails>>

\* A mail fails, the UPDATE fails or the process ends: nothing is marked.
Fail(p) ==
  /\ Running(p)
  /\ doubtful' = doubtful \cup sent[p]
  /\ Done(p)
  /\ UNCHANGED <<day, deadline, row, unsent, named, confirmed, mails>>

-----------------------------------------------------------------------------
Init ==
  /\ day = 0 /\ deadline \in Deadlines
  /\ row = [b \in Ids |-> None]
  /\ unsent = {}
  /\ named = [b \in Ids |-> None] /\ confirmed = [b \in Ids |-> None]
  /\ mails = [b \in Ids |-> None]
  /\ doubtful = {}
  /\ list = [p \in Workers |-> {}]
  /\ seen = [p \in Workers |-> None]
  /\ sent = [p \in Workers |-> {}]

Next ==
  \/ NextDay \/ UpdateEvent
  \/ \E b \in Ids : Book(b) \/ Cancel(b) \/ MoveUp(b) \/ Confirm(b) \/ SetPaid(b)
  \/ \E p \in Workers : Begin(p) \/ Mark(p) \/ Fail(p)
  \/ \E p \in Workers, b \in Ids : Send(p, b)

Spec == Init /\ [][Next]_vars

-----------------------------------------------------------------------------
(* Properties                                                               *)

TypeOK ==
  /\ day \in Days /\ deadline \in Deadlines \cup {None}
  /\ row \in [Ids -> Row \cup {None}]
  /\ unsent \subseteq Ids /\ doubtful \subseteq Ids
  /\ named \in [Ids -> Deadlines \cup {None}] /\ seen \in [Workers -> Deadlines \cup {None}]
  /\ confirmed \in [Ids -> Days \cup {None}] /\ mails \in [Ids -> Days \cup {None}]
  /\ list \in [Workers -> SUBSET Ids] /\ sent \in [Workers -> SUBSET Ids]

\* A reminder that is not doubtful is marked, on its day or later, or it belongs to
\* the one request that is still about to mark it.
RemindersMarked ==
  \A b \in Ids : mails[b] # None /\ b \notin doubtful =>
    \/ row[b].reminded # None /\ mails[b] <= row[b].reminded
    \/ \E p \in Workers : b \in sent[p]

\* The lists of two requests share no bookings but doubtful ones. A listed booking was due
\* by the deadline its request has read; one that is still to be reminded and not doubtful
\* has not been marked since.
ListsOK ==
  /\ \A p \in Workers : sent[p] \subseteq list[p]
  /\ \A p, q \in Workers : p # q => list[p] \cap list[q] \subseteq doubtful
  /\ \A p \in Workers : \A b \in list[p] :
       /\ row[b] # None /\ seen[p] # None
       /\ Payday(seen[p], row[b].created) < day
       /\ b \in doubtful \cup sent[p] \/ Base(row[b]) + 1 < day

\* Nothing is of a day to come, a booking comes before its mails, and the mail with the
\* payday is for those who have a seat.
DaysOK ==
  \A b \in Ids :
    /\ row[b] = None => mails[b] = None
    /\ b \in unsent \/ confirmed[b] # None => row[b] # None /\ row[b].enrolled /\ named[b] # None
    /\ mails[b] # None => mails[b] <= day
    /\ row[b] # None =>
         /\ row[b].created <= day
         /\ confirmed[b] # None => row[b].created <= confirmed[b]
         /\ row[b].reminded # None => row[b].created <= row[b].reminded /\ row[b].reminded <= day

IInv == TypeOK /\ RemindersMarked /\ ListsOK /\ DaysOK

\* Between two reminders of a booking lie four days at least, as long as no request
\* has failed after it reminded the booking and no two of them had it on their lists.
SpacingKept ==
  [][\A b \in Ids, p \in Workers :
       Send(p, b) /\ mails[b] # None /\ b \notin doubtful => mails'[b] >= mails[b] + 5]_vars

\* By how many days the deadline that p has read is before the one in the booking's mail.
BroughtForward(p, b) == IF seen[p] < named[b] THEN named[b] - seen[p] ELSE 0

\* A booking is reminded after the payday its confirmation has named, or too early by no
\* more than two things explain: the days between the booking and the confirmation (the
\* reminder counts from the booking, the mail from the day it is written; a booking that
\* moves up from the waiting list has spent these days there), and the days by which the
\* event, or the payday in its template, was brought forward since the mail read them:
\* the mail about a change of the dates names no payday.
EarlyByTheWait ==
  [][\A b \in Ids, p \in Workers :
       Send(p, b) /\ confirmed[b] # None
         => mails'[b] > Payday(named[b], confirmed[b]) - (confirmed[b] - row[b].created)
                          - BroughtForward(p, b)]_vars
=============================================================================
