-------------------------------- MODULE Mails --------------------------------
(***************************************************************************)
(* What the people who book an event are told, and when. A request commits *)
(* its transaction first and sends its mails afterwards, one by one; the   *)
(* first that fails ends the request. In between, other requests book,     *)
(* cancel, move the dates of the event and send reminders. Seats are given *)
(* in one step here: module Bookings has the races for them.               *)
(***************************************************************************)
EXTENDS Integers, Sequences, FiniteSets

CONSTANTS
  Workers,     \* requests in flight
  Ids,         \* bookings: numbers, in the order they are made
  Seats,       \* max_subscribers; there is a place on the waiting list for everyone else
  Schedules,   \* the dates an administrator saves: sequences of days
  Soon,        \* days for which reminders are sent now
  MaxWork,     \* bound: saves of the dates and reminder jobs with something to send, together
  Ops,         \* the operations that are looked at
  None

ASSUME WorkersAssumption == IsFiniteSet(Workers) /\ None \notin Workers
ASSUME IdsAssumption == Ids \subseteq Nat /\ IsFiniteSet(Ids)
ASSUME BoundsAssumption == {Seats, MaxWork} \subseteq Nat
ASSUME SchedulesAssumption == Schedules \subseteq Seq(Int)

\* A row of event_dates: the day, the save that inserted it and its place in that save.
Row == [day : Int, save : Nat, place : Nat]

Kinds == {"booked", "waiting", "canceled", "promoted", "schedule", "reminder"}
Email == [to : Ids, kind : Kinds, event : SUBSET Int]

Request == [op : {"book", "cancel", "update", "dates", "remind"},
            pc : {"columns", "read", "delete", "save", "commit", "list", "fetch", "send", "mark"},
            id : Nat, days : Seq(Int), seen : SUBSET Row, event : SUBSET Int, queue : Seq(Email)]

ASSUME NoneAssumption == None \notin Request

VARIABLES
  rows,    \* event_dates of the event, committed: a table without a key or an order
  saves,   \* how often dates have been saved, raced: two saves of them at once
  raced,
  lock,    \* the transaction that has updated the event's row, or None
  booking, \* "none", "waiting", "seat" or "canceled"
  marked,  \* events.reminder_sent
  jobs,    \* reminder jobs that had something to send; vain: those that did not mark it, or
  vain,    \* were begun while another was on its way
  req,     \* the request of each worker, or None
  told,    \* the kinds of mails each person has got about the booking
  knows,   \* the dates each attendee has got in a mail, as those of the event
  reminded,\* how many reminders each person has got
  lost,    \* those whom a mail about their booking should have reached that was not sent
  across,  \* those whose seat was committed after the dates were, by a request that had read them before
  late     \* those who got their seat after a job had listed the attendees

vars == <<rows, saves, raced, lock, booking, marked, jobs, vain, req, told, knows, reminded, lost, across, late>>
dates == <<rows, saves, raced, lock>>
missed == <<across, late>>
mailing == <<told, knows, reminded, lost>>

Rows(save, days) == {[day |-> days[i], save |-> save, place |-> i] : i \in DOMAIN days}
Days(event) == {r.day : r \in event}

HasSeat == {b \in Ids : booking[b] = "seat"}
Waiting == {b \in Ids : booking[b] = "waiting"}

-----------------------------------------------------------------------------
(* Requests                                                                 *)

Open(w, pc) == req[w] # None /\ req[w].pc = pc

NoRequest == [op |-> "", pc |-> "", id |-> 0, days |-> <<>>, seen |-> {}, event |-> {}, queue |-> <<>>]

Begin(w, r) == req[w] = None /\ req' = [req EXCEPT ![w] = r]

End(w) == req' = [req EXCEPT ![w] = None]

\* The mails are rendered, the request goes on to send them.
Queue(w, mails) ==
  req' = [req EXCEPT ![w] = IF mails = <<>> THEN None ELSE [req[w] EXCEPT !.pc = "send", !.queue = mails]]

Mail(b, kind, event) == [to |-> b, kind |-> kind, event |-> event]

\* The same mail to everyone in S, in the order of the bookings.
Rank(b, S) == Cardinality({c \in S : c <= b})
MailsTo(S, kind, event) ==
  [i \in 1..Cardinality(S) |-> Mail(CHOOSE b \in S : Rank(b, S) = i, kind, event)]

-----------------------------------------------------------------------------
(* Bookings and cancelations                                                *)

\* The transaction of a booking or cancelation up to fetch_event: the mails will name
\* the dates as they are now. One booking request at a time, to keep the instances small:
\* the code lets the next one begin while the first is still sending its mail.
BeginBooking(w) ==
  /\ "book" \in Ops
  /\ \E b \in Ids :
       /\ booking[b] = "none" /\ \A c \in Ids : c < b => booking[c] # "none"
       /\ \A v \in Workers : req[v] # None => req[v].op # "book"
       /\ Begin(w, [NoRequest EXCEPT !.op = "book", !.pc = "commit", !.id = b, !.event = Days(rows)])
  /\ UNCHANGED <<dates, booking, marked, jobs, vain, mailing, missed>>

\* A change of the dates that is committed between the read of them and the commit.
Across(w, S) == IF req[w].event = Days(rows) THEN across ELSE across \cup S

Reminding == {w \in Workers : req[w] # None /\ req[w].op = "remind"}
Late(S) == IF marked \/ \E w \in Reminding : ~Open(w, "fetch") THEN late \cup S ELSE late

\* book_event, then process_booking: a mail about the seat or about the waiting list.
CommitBooking(w) ==
  /\ Open(w, "commit") /\ req[w].op = "book"
  /\ LET b == req[w].id
         seat == Cardinality(HasSeat) < Seats
     IN  /\ booking' = [booking EXCEPT ![b] = IF seat THEN "seat" ELSE "waiting"]
         /\ Queue(w, <<Mail(b, IF seat THEN "booked" ELSE "waiting", req[w].event)>>)
         /\ across' = IF seat THEN Across(w, {b}) ELSE across
         /\ late' = IF seat THEN Late({b}) ELSE late
  /\ UNCHANGED <<dates, marked, jobs, vain, mailing>>

BeginCancel(w) ==
  /\ "cancel" \in Ops
  /\ \E b \in Ids :
       /\ booking[b] \in {"seat", "waiting"}
       /\ \A v \in Workers : req[v] # None => ~(req[v].op = "cancel" /\ req[v].pc = "commit")
       /\ Begin(w, [NoRequest EXCEPT !.op = "cancel", !.pc = "commit", !.id = b, !.event = Days(rows)])
  /\ UNCHANGED <<dates, booking, marked, jobs, vain, mailing, missed>>

\* The first of the waiting list follows an attendee who cancels.
Promoted(b) == IF booking[b] = "seat" THEN {c \in Waiting : \A d \in Waiting : c <= d} ELSE {}

\* Mutant: the mail to the promoted person comes with the one to the canceled person.
OnlyCancelMail(b, promoted, event) == <<Mail(b, "canceled", event)>>

CancelMails(b, promoted, event) ==
  <<Mail(b, "canceled", event)>> \o MailsTo(promoted, "promoted", event)

CommitCancel(w) ==
  /\ Open(w, "commit") /\ req[w].op = "cancel"
  /\ LET b == req[w].id
         promoted == Promoted(b)
     IN  /\ booking' = [c \in Ids |-> IF c = b THEN "canceled" ELSE IF c \in promoted THEN "seat" ELSE booking[c]]
         /\ Queue(w, CancelMails(b, promoted, req[w].event))
         /\ across' = Across(w, promoted)
         /\ late' = Late(promoted)
  /\ UNCHANGED <<dates, marked, jobs, vain, mailing>>

-----------------------------------------------------------------------------
(* Dates                                                                    *)

\* Requests whose transaction changes the dates, or may.
Saving == {w \in Workers : req[w] # None /\ req[w].op \in {"update", "dates"}
                             /\ req[w].pc \in {"columns", "read", "delete", "save", "commit"}}

Work == jobs + saves + Cardinality({v \in Saving : ~Open(v, "commit")})

\* update_event with dates and other columns ("update"), or with dates only ("dates").
BeginUpdate(w) ==
  /\ Work < MaxWork
  /\ \E op \in Ops \cap {"update", "dates"}, days \in Schedules :
       /\ Begin(w, [NoRequest EXCEPT !.op = op, !.pc = IF op = "update" THEN "columns" ELSE "read", !.days = days])
       /\ raced' = (raced \/ \E v \in Saving : "dates" \in {op, req[v].op})
  /\ UNCHANGED <<rows, saves, lock, booking, marked, jobs, vain, mailing, missed>>

\* UPDATE events: other columns are written, the row is locked until the commit.
UpdateColumns(w) ==
  /\ Open(w, "columns") /\ lock = None
  /\ lock' = w
  /\ req' = [req EXCEPT ![w].pc = "read"]
  /\ UNCHANGED <<rows, saves, raced, booking, marked, jobs, vain, mailing, missed>>

\* get_event_dates, without an ORDER BY: these rows may be read as these days, and as
\* something else too unless they are all on the same day.
ReadAs(days) ==
  /\ Cardinality(rows) = Len(days)
  /\ \E order \in [DOMAIN days -> rows] :
       /\ {order[i] : i \in DOMAIN days} = rows
       /\ \A i \in DOMAIN days : order[i].day = days[i]

\* Dates that are read as they are to be stay, and nobody is told.
ReadDates(w) ==
  /\ Open(w, "read")
  /\ \/ ReadAs(req[w].days) /\ End(w) /\ lock' = (IF lock = w THEN None ELSE lock)
     \/ /\ ReadAs(req[w].days) => Cardinality(Days(rows)) > 1
        /\ req' = [req EXCEPT ![w].pc = "delete"] /\ UNCHANGED lock
  /\ UNCHANGED <<rows, saves, raced, booking, marked, jobs, vain, mailing, missed>>

\* DELETE FROM event_dates: of the rows that are committed when it starts ...
DeleteDates(w) ==
  /\ Open(w, "delete")
  /\ req' = [req EXCEPT ![w].pc = "save", ![w].seen = rows]
  /\ UNCHANGED <<dates, booking, marked, jobs, vain, mailing, missed>>

\* Mutant: the dates that were there before stay.
SavedToo(r) == rows \cup Rows(r.id, r.days)

\* The table as this transaction leaves it.
Saved(r) == (rows \ r.seen) \cup Rows(r.id, r.days)

\* ... it waits until transactions that have deleted one of them are over. Then the
\* new dates are inserted and the event is fetched.
SaveDates(w) ==
  /\ Open(w, "save")
  /\ \A v \in Workers \ {w} : (v \in Saving /\ Open(v, "commit")) => req[v].seen \cap req[w].seen = {}
  /\ saves' = saves + 1
  /\ LET r == [req[w] EXCEPT !.pc = "commit", !.id = saves + 1]
     IN  req' = [req EXCEPT ![w] = [r EXCEPT !.event = Days(Saved(r))]]
  /\ UNCHANGED <<rows, raced, lock, booking, marked, jobs, vain, mailing, missed>>

\* What the transaction did makes no difference to the mails that follow.
CommitDates(w) ==
  /\ w \in Saving /\ Open(w, "commit")
  /\ rows' = Saved(req[w])
  /\ lock' = IF lock = w THEN None ELSE lock
  /\ req' = [req EXCEPT ![w] = [NoRequest EXCEPT !.op = "update", !.pc = "list", !.event = req[w].event]]
  /\ UNCHANGED <<saves, raced, booking, marked, jobs, vain, mailing, missed>>

\* get_bookings(enrolled): the dates that are gone and those to come, to every attendee.
ListAttendees(w) ==
  /\ Open(w, "list")
  /\ Queue(w, MailsTo(HasSeat, "schedule", req[w].event))
  /\ UNCHANGED <<dates, booking, marked, jobs, vain, mailing, missed>>

-----------------------------------------------------------------------------
(* Reminders of the event                                                   *)

StartsSoon == \E d \in Days(rows) : d \in Soon /\ \A e \in Days(rows) : d <= e

\* Mutant: an event that was reminded of is found again.
DueAgain == HasSeat # {} /\ StartsSoon

\* get_reminder_events: not yet marked, starts within the week, and somebody has a seat.
Due == ~marked /\ HasSeat # {} /\ StartsSoon

BeginReminders(w) ==
  /\ "remind" \in Ops /\ Work < MaxWork
  /\ Due
  /\ Begin(w, [NoRequest EXCEPT !.op = "remind", !.pc = "fetch"])
  /\ jobs' = jobs + 1
  /\ vain' = IF Reminding # {} THEN vain + 1 ELSE vain
  /\ UNCHANGED <<dates, booking, marked, mailing, missed>>

\* fetch_events: the subscribers of the events that were found.
FetchSubscribers(w) ==
  /\ Open(w, "fetch")
  /\ req' = [req EXCEPT ![w].pc = IF HasSeat = {} THEN "mark" ELSE "send",
                        ![w].queue = MailsTo(HasSeat, "reminder", {})]
  /\ UNCHANGED <<dates, booking, marked, jobs, vain, mailing, missed>>

\* mark_as_reminder_sent, after the last mail.
MarkReminderSent(w) ==
  /\ Open(w, "mark")
  /\ marked' = TRUE
  /\ End(w)
  /\ UNCHANGED <<dates, booking, jobs, vain, mailing, missed>>

-----------------------------------------------------------------------------
(* Sending                                                                  *)

SendMail(w) ==
  /\ Open(w, "send")
  /\ LET mail == Head(req[w].queue)
         rest == Tail(req[w].queue)
     IN  /\ told' = IF mail.kind \in {"reminder", "schedule"} THEN told
                    ELSE [told EXCEPT ![mail.to] = @ \cup {mail.kind}]
         /\ knows' = IF mail.kind \notin {"booked", "promoted", "schedule"} THEN knows
                     ELSE [knows EXCEPT ![mail.to] = @ \cup {mail.event}]
         /\ reminded' = [reminded EXCEPT ![mail.to] = IF mail.kind = "reminder" THEN @ + 1 ELSE @]
         /\ req' = [req EXCEPT ![w] =
                      IF rest # <<>> THEN [req[w] EXCEPT !.queue = rest]
                      ELSE IF req[w].op = "remind" THEN [req[w] EXCEPT !.pc = "mark", !.queue = <<>>]
                      ELSE None]
  /\ UNCHANGED <<dates, booking, marked, jobs, vain, lost, missed>>

Queued(w) == {req[w].queue[i] : i \in DOMAIN req[w].queue}

\* Those who are to get a mail of the request, now or when the attendees are listed.
Recipients(w) == IF Open(w, "list") THEN HasSeat ELSE {mail.to : mail \in Queued(w)}

\* Mutant: a job goes on after a mail that failed.
MarkAnyway(r) == IF r.op = "remind" /\ r.pc = "send" THEN [r EXCEPT !.pc = "mark", !.queue = <<>>] ELSE None

\* Every error ends the request.
Failed(r) == None

\* A mail or a statement fails, or the process is gone: a transaction is rolled back,
\* the mails that are left are not sent.
Fail(w) ==
  /\ req[w] # None
  /\ req' = [req EXCEPT ![w] = Failed(@)]
  /\ lock' = IF lock = w THEN None ELSE lock
  /\ lost' = IF req[w].op = "remind" THEN lost ELSE lost \cup Recipients(w)
  /\ vain' = IF req[w].op = "remind" THEN vain + 1 ELSE vain
  /\ UNCHANGED <<rows, saves, raced, booking, marked, jobs, told, knows, reminded, missed>>

-----------------------------------------------------------------------------
\* An event that can be booked, with its first dates.
Init ==
  /\ \E days \in Schedules : rows = Rows(0, days)
  /\ saves = 0 /\ raced = FALSE /\ lock = None
  /\ booking = [b \in Ids |-> "none"]
  /\ marked = FALSE /\ jobs = 0 /\ vain = 0
  /\ req = [w \in Workers |-> None]
  /\ told = [b \in Ids |-> {}] /\ knows = [b \in Ids |-> {}]
  /\ reminded = [b \in Ids |-> 0]
  /\ lost = {} /\ across = {} /\ late = {}

Next ==
  \E w \in Workers :
    \/ BeginBooking(w) \/ CommitBooking(w) \/ BeginCancel(w) \/ CommitCancel(w)
    \/ BeginUpdate(w) \/ UpdateColumns(w) \/ ReadDates(w) \/ DeleteDates(w) \/ SaveDates(w)
    \/ CommitDates(w) \/ ListAttendees(w)
    \/ BeginReminders(w) \/ FetchSubscribers(w) \/ MarkReminderSent(w)
    \/ SendMail(w) \/ Fail(w)

Spec == Init /\ [][Next]_vars

-----------------------------------------------------------------------------
(* Properties                                                               *)

Quiet == \A w \in Workers : req[w] = None

\* When nothing is on its way, everybody was told where they stand, and every attendee was
\* told the dates of the event as they are, unless the mail that says so was not sent: it
\* failed, or one that the same request had to send before it. Whoever got the seat while
\* the dates were being changed may only know the old ones, and after two saves at once
\* each mail names the dates of one of them. (That the mail with the present dates was the
\* last one is not said: overlapping requests may send theirs in either order.)
PeopleAreTold ==
  Quiet => \A b \in Ids \ lost :
    /\ booking[b] \in {"canceled", "waiting"} => booking[b] \in told[b]
    /\ booking[b] = "seat" => told[b] \cap {"booked", "promoted"} # {}
    /\ (booking[b] = "seat" /\ b \notin across /\ ~raced) => Days(rows) \in knows[b]

\* The dates are those one administrator has saved, unless two saved dates at the same
\* time, one of them nothing else: the event's row is not locked then.
DatesAreOfOneSave == raced \/ \A r, s \in rows : r.save = s.save

\* A person gets as many reminders of the event as there were jobs that did not end well or
\* were begun while another one was on its way, and one more.
RemindersAreBounded == \A b \in Ids : reminded[b] <= vain + 1

\* When the event is marked as reminded, every attendee has got the mail: a failing mail
\* leaves the event to the next job. Whoever got the seat after a job had listed the
\* attendees may never be reminded.
AttendeesAreReminded == marked => \A b \in HasSeat \ late : reminded[b] > 0
=============================================================================
