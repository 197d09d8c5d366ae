------------------------------ MODULE Bookings ------------------------------
(***************************************************************************)
(* The bookings of one event: booking, pre-booking by link, cancelation    *)
(* with promotion from the waiting list, and changes of the event's limits.*)
(*                                                                         *)
(* Every request is served by a worker (one task of one Lambda process)    *)
(* that runs one database transaction, statement by statement, under the   *)
(* isolation level PostgreSQL gives by default, READ COMMITTED: a          *)
(* statement sees what was committed before it started plus the writes of  *)
(* its own transaction; a row written by an open transaction is locked     *)
(* until that transaction ends; an insert waits for an open insert of the  *)
(* same unique key and fails if that key is committed.                     *)
(***************************************************************************)
EXTENDS Integers, FiniteSets

CONSTANTS
  Workers,      \* tasks that serve requests concurrently
  People,       \* the persons who book
  Known,        \* persons who already have an event_subscribers row (an older event)
  MaxBookings,  \* bound: booking transactions that get past is_event_bookable
  PidRange,     \* size of the payment_id sequence (9000 in the code, cycling)
  Limits,       \* the [max, wait] limits the event may be given
  MaxSeats,     \* no limit in Limits exceeds MaxSeats seats ...
  MaxQueue,     \* ... and MaxQueue waiting-list places
  MemberFlags,  \* does the booking form carry the optional member flag?
  Requests,     \* the kinds of request the environment sends
  None

Unlimited == -1

Ids  == 1..MaxBookings
Pids == 1..PidRange
Subs == Ids \cup Known

RequestKinds == {"book", "prebook", "cancel", "recancel", "update"}

ASSUME WorkersAssumption == IsFiniteSet(Workers) /\ Workers # {} /\ None \notin Workers
ASSUME PeopleAssumption == Known \subseteq People /\ None \notin People
ASSUME BoundsAssumption == MaxBookings \in Nat /\ PidRange \in Nat \ {0}
ASSUME IdsAssumption == Known \cap Ids = {} /\ None \notin Subs
ASSUME LimitsAssumption ==
  /\ MaxSeats \in Nat /\ MaxQueue \in Nat
  /\ Limits # {}
  /\ Limits \subseteq [max : Int, wait : Nat]
  /\ \A l \in Limits : l.max >= Unlimited /\ l.max <= MaxSeats /\ l.wait <= MaxQueue
ASSUME RequestsAssumption == MemberFlags \subseteq BOOLEAN /\ Requests \subseteq RequestKinds

\* A row of event_bookings. Its id stands for its creation time too: ids are
\* handed out when a booking transaction begins, and `created` is the begin time.
Row == [sub : Subs, enrolled : BOOLEAN, canceled : BOOLEAN, pid : Pids]

ASSUME NoneAssumption == None \notin Row

VARIABLES
  event,      \* the events row: is it bookable, and its two limits
  person,     \* event_subscribers: the person each subscriber row stands for
  committed,  \* event_bookings: the committed version of each row, or None
  version,    \* ... and its newest version, perhaps of an open transaction
  lock,       \* the open transaction that wrote the newest version, or None
  clock,      \* booking transactions begun so far
  seq,        \* last value of the payment_id sequence
  pc,         \* the next statement of each worker
  tx          \* the locals of each worker's request

vars == <<event, person, committed, version, lock, clock, seq, pc, tx>>

Bookings == {"book", "prebook"}

NoTx == [op |-> "none", id |-> 0, person |-> None, sub |-> None, member |-> TRUE,
         new |-> FALSE, enrolled |-> FALSE, pid |-> 1, first |-> 0, out |-> "none"]

-----------------------------------------------------------------------------
(* Rows, views and locks                                                    *)

View(p) == [b \in Ids |-> IF lock[b] = p THEN version[b] ELSE committed[b]]

Active(rows)   == {b \in Ids : rows[b] # None /\ ~rows[b].canceled}
Enrolled(rows) == {b \in Active(rows) : rows[b].enrolled}

\* Mutant: the query forgets `enrolled IS FALSE`.
WaitingOrEnrolled(rows) == Active(rows)

Waiting(rows)  == {b \in Active(rows) : ~rows[b].enrolled}

\* An UPDATE of row b by p has to wait while another open transaction holds it.
LockedByOther(p, b) == lock[b] \notin {None, p}

Write(p, b, row) ==
  /\ lock' = [lock EXCEPT ![b] = p]
  /\ version' = [version EXCEPT ![b] = row]

\* Mutants: one of the two UNIQUE constraints is missing.
SameKeyNoSubscriber(row, s, n) == row # None /\ row.pid = n
SameKeyNoPaymentId(row, s, n) == row # None /\ row.sub = s

\* A row clashes with a new row (s, n) on one of the UNIQUE keys: (event_id,
\* subscriber_id), which canceled rows keep, or payment_id.
SameKey(row, s, n) == row # None /\ (row.sub = s \/ row.pid = n)

Clashes(s, n) == {b \in Ids : SameKey(committed[b], s, n)}

\* Open inserts of the same key: their outcome has to be waited for.
OpenClashes(p, s, n) ==
  {b \in Ids : lock[b] \notin {None, p} /\ committed[b] = None /\ SameKey(version[b], s, n)}

\* Mutant: `<=` for `<` in the second comparison of calc_enroll_status.
PlaceFreeOffByOne(waiting) == waiting <= event.wait

SeatFree(subscribers) == event.max = Unlimited \/ subscribers < event.max
PlaceFree(waiting) == waiting < event.wait

\* calc_enroll_status: a seat, a place on the waiting list, or neither.
CalcEnrollStatus(subscribers, waiting) ==
  IF SeatFree(subscribers) THEN "enrolled"
  ELSE IF PlaceFree(waiting) THEN "waiting" ELSE "bookedOut"

Step(p, from, to) == pc[p] = from /\ pc' = [pc EXCEPT ![p] = to]

\* Mutant: the connection goes back to the pool with its locks.
KeptLocks(p) == lock

\* The row locks that are left when p's transaction is over.
ReleasedLocks(p) == [b \in Ids |-> IF lock[b] = p THEN None ELSE lock[b]]

\* The transaction ends without an effect: everything it wrote is gone.
Rollback(p) ==
  /\ version' = [b \in Ids |-> IF lock[b] = p THEN committed[b] ELSE version[b]]
  /\ lock' = ReleasedLocks(p)

Answer(p, out) == tx' = [tx EXCEPT ![p].out = out]

-----------------------------------------------------------------------------
(* book_event and pre_book_event                                            *)

\* The transaction begins and reads the lifecycle status (is_event_bookable).
BeginBooking(p, request) ==
  /\ pc[p] = "idle"
  /\ IF event.bookable
       THEN /\ clock < MaxBookings
            /\ clock' = clock + 1
            /\ pc' = [pc EXCEPT ![p] = "enroll"]
            /\ tx' = [tx EXCEPT ![p] = [request EXCEPT !.id = clock + 1]]
       ELSE /\ pc' = [pc EXCEPT ![p] = "reply"]
            /\ tx' = [tx EXCEPT ![p] = [request EXCEPT !.out = "notBookable"]]
            /\ UNCHANGED clock
  /\ UNCHANGED <<event, person, committed, version, lock, seq>>

BookEvent(p) ==
  /\ "book" \in Requests
  /\ \E who \in People, flag \in MemberFlags :
       BeginBooking(p, [NoTx EXCEPT !.op = "book", !.person = who, !.member = flag])

\* The prebooking link holds the id of a subscriber row that exists.
PreBookEvent(p) ==
  /\ "prebook" \in Requests
  /\ \E s \in Subs :
       /\ person[s] # None
       /\ BeginBooking(p, [NoTx EXCEPT !.op = "prebook", !.sub = s])

ReadCounters(p) ==
  LET status == CalcEnrollStatus(Cardinality(Enrolled(View(p))), Cardinality(Waiting(View(p))))
  IN  /\ pc[p] = "enroll"
      /\ IF status = "bookedOut"
           THEN /\ pc' = [pc EXCEPT ![p] = "reply"]
                /\ Answer(p, "bookedOut")
           ELSE /\ pc' = [pc EXCEPT ![p] = IF tx[p].op = "book" THEN "subscriber" ELSE "duplicate"]
                /\ tx' = [tx EXCEPT ![p].enrolled = (status = "enrolled")]
      /\ UNCHANGED <<event, person, committed, version, lock, clock, seq>>

\* Mutant: the query asks for `member IS NULL` whatever the flag is.
MatchingNone(p) == {}

\* The subscriber rows that match a booking: without a member flag the query
\* asks for `member IS NULL`, which no stored row is.
Matching(p) == {s \in Subs : tx[p].member /\ person[s] # None /\ person[s] = tx[p].person}

\* insert_event_subscriber: any matching row, else a new one (seen by nobody
\* else before the commit, so its insert is part of this step).
InsertEventSubscriber(p) ==
  /\ Step(p, "subscriber", "duplicate")
  /\ \/ \E s \in Matching(p) : tx' = [tx EXCEPT ![p].sub = s]
     \/ /\ Matching(p) = {}
        /\ tx' = [tx EXCEPT ![p].sub = tx[p].id, ![p].new = TRUE]
  /\ UNCHANGED <<event, person, committed, version, lock, clock, seq>>

NextPid == IF seq = PidRange THEN 1 ELSE seq + 1

\* The subscriber holds a booking that is not canceled.
HasBooking(p) == \E b \in Active(View(p)) : View(p)[b].sub = tx[p].sub

\* insert_booking up to its INSERT: only a subscriber that existed before can
\* be a duplicate; then the payment id is drawn (never given back).
CheckDuplicate(p) ==
  /\ pc[p] = "duplicate"
  /\ IF ~tx[p].new /\ HasBooking(p)
       THEN /\ pc' = [pc EXCEPT ![p] = "reply"]
            /\ Answer(p, "duplicate")
            /\ UNCHANGED seq
       ELSE /\ pc' = [pc EXCEPT ![p] = "insert"]
            /\ seq' = NextPid
            /\ tx' = [tx EXCEPT ![p].pid = NextPid]
  /\ UNCHANGED <<event, person, committed, version, lock, clock>>

NewRow(p) == [sub |-> tx[p].sub, enrolled |-> tx[p].enrolled, canceled |-> FALSE, pid |-> tx[p].pid]

\* The INSERT itself: a clash with a committed row is an error, which `?`
\* returns and which drops the transaction.
InsertBooking(p) ==
  /\ pc[p] = "insert"
  /\ OpenClashes(p, tx[p].sub, tx[p].pid) = {}
  /\ IF Clashes(tx[p].sub, tx[p].pid) # {}
       THEN /\ pc' = [pc EXCEPT ![p] = "reply"]
            /\ Answer(p, "error")
            /\ Rollback(p)
       ELSE /\ pc' = [pc EXCEPT ![p] = "commit"]
            /\ Write(p, tx[p].id, NewRow(p))
            /\ UNCHANGED tx
  /\ UNCHANGED <<event, person, committed, clock, seq>>

-----------------------------------------------------------------------------
(* cancel_event_booking                                                     *)

\* Nobody asked before for the cancelation of b.
FirstCancelOf(b) ==
  /\ ~committed[b].canceled
  /\ \A q \in Workers : tx[q].op = "cancel" => tx[q].id # b

\* "cancel" is the first request to cancel a booking, "recancel" any request.
BeginCancel(p) ==
  /\ Step(p, "idle", "cancel")
  /\ \E b \in Ids :
       /\ committed[b] # None
       /\ \/ "recancel" \in Requests
          \/ "cancel" \in Requests /\ FirstCancelOf(b)
       /\ tx' = [tx EXCEPT ![p] = [NoTx EXCEPT !.op = "cancel", !.id = b]]
  /\ UNCHANGED <<event, person, committed, version, lock, clock, seq>>

\* Mutants: a canceled waiting-list entry promotes somebody too (the code before
\* 2.6.3), or nobody is ever promoted.
AfterCancelAlwaysPromotes(row) == "waiter"
AfterCancelNeverPromotes(row) == "commit"

AfterCancel(row) == IF row.enrolled THEN "waiter" ELSE "commit"

\* The UPDATE, whatever `canceled` was, and the read of the row just written,
\* whose enrolled flag decides whether somebody is promoted.
SetCanceled(p) ==
  LET b == tx[p].id
  IN  /\ pc[p] = "cancel"
      /\ ~LockedByOther(p, b)
      /\ Write(p, b, [committed[b] EXCEPT !.canceled = TRUE])
      /\ pc' = [pc EXCEPT ![p] = AfterCancel(committed[b])]
      /\ UNCHANGED <<event, person, committed, clock, seq, tx>>

\* Mutant: ORDER BY created DESC.
LastWaiting(rows) == {b \in Waiting(rows) : \A c \in Waiting(rows) : b >= c}

\* The row that ORDER BY created puts first, if there is one.
FirstWaiting(rows) == {b \in Waiting(rows) : \A c \in Waiting(rows) : b <= c}

SelectWaiter(p) ==
  /\ \/ \E b \in FirstWaiting(View(p)) :
          /\ Step(p, "waiter", "promote")
          /\ tx' = [tx EXCEPT ![p].first = b]
     \/ /\ Waiting(View(p)) = {}
        /\ Step(p, "waiter", "commit")
        /\ UNCHANGED tx
  /\ UNCHANGED <<event, person, committed, version, lock, clock, seq>>

\* Mutant: the row is written back as a waiting booking was read.
PromotedWholeRow(row) == [row EXCEPT !.enrolled = TRUE, !.canceled = FALSE]

\* UPDATE ... SET enrolled = true of one column of the newest version, by id.
Promoted(row) == [row EXCEPT !.enrolled = TRUE]

Promote(p) ==
  LET b == tx[p].first
  IN  /\ Step(p, "promote", "commit")
      /\ ~LockedByOther(p, b)
      /\ Write(p, b, Promoted(View(p)[b]))
      /\ UNCHANGED <<event, person, committed, clock, seq, tx>>

-----------------------------------------------------------------------------
(* The end of a request, and the administration of the event                *)

\* Mutant: insert_booking reports every booking as booked.
OutcomeBooked(p) == IF tx[p].op = "cancel" THEN "canceled" ELSE "booked"

Outcome(p) ==
  IF tx[p].op = "cancel" THEN "canceled"
  ELSE IF tx[p].enrolled THEN "booked" ELSE "waiting"

Commit(p) ==
  /\ Step(p, "commit", "reply")
  /\ committed' = View(p)
  /\ lock' = ReleasedLocks(p)
  /\ person' = IF tx[p].new THEN [person EXCEPT ![tx[p].id] = tx[p].person] ELSE person
  /\ Answer(p, Outcome(p))
  /\ UNCHANGED <<event, version, clock, seq>>

\* The mails are sent and the caller is answered, or either of it fails: the
\* bookings are committed, nothing is taken back.
Reply(p) ==
  /\ Step(p, "reply", "idle")
  /\ tx' = [tx EXCEPT ![p] = NoTx]
  /\ UNCHANGED <<event, person, committed, version, lock, clock, seq>>

\* A statement fails or the process is gone: the transaction is rolled back.
Abort(p) ==
  /\ pc[p] \notin {"idle", "reply"}
  /\ pc' = [pc EXCEPT ![p] = "idle"]
  /\ tx' = [tx EXCEPT ![p] = NoTx]
  /\ Rollback(p)
  /\ UNCHANGED <<event, person, committed, clock, seq>>

\* update_event on lifecycle_status, max_subscribers and max_waiting_list: one
\* UPDATE, whose lock on the events row no statement above waits for.
UpdateEvent(p) ==
  /\ "update" \in Requests
  /\ pc[p] = "idle"
  /\ \E l \in Limits, bookable \in BOOLEAN :
       event' = [bookable |-> bookable, max |-> l.max, wait |-> l.wait]
  /\ UNCHANGED <<person, committed, version, lock, clock, seq, pc, tx>>

-----------------------------------------------------------------------------
Init ==
  /\ \E l \in Limits : event = [bookable |-> TRUE, max |-> l.max, wait |-> l.wait]
  /\ person = [s \in Subs |-> IF s \in Known THEN s ELSE None]
  /\ committed = [b \in Ids |-> None]
  /\ version = committed
  /\ lock = [b \in Ids |-> None]
  /\ clock = 0
  /\ seq = 0
  /\ pc = [p \in Workers |-> "idle"]
  /\ tx = [p \in Workers |-> NoTx]

\* The steps of a request once it was received, a failure aside.
Serve(p) ==
  \/ ReadCounters(p) \/ InsertEventSubscriber(p) \/ CheckDuplicate(p) \/ InsertBooking(p)
  \/ SetCanceled(p) \/ SelectWaiter(p) \/ Promote(p)
  \/ Commit(p) \/ Reply(p)

Next ==
  \E p \in Workers :
    \/ BookEvent(p) \/ PreBookEvent(p) \/ BeginCancel(p) \/ UpdateEvent(p)
    \/ Serve(p)
    \/ Abort(p)

Spec == Init /\ [][Next]_vars

\* A worker goes on with its request, and PostgreSQL queues the waiters of a
\* lock, so a wait that is over again and again ends.
FairSpec == Spec /\ \A p \in Workers : SF_vars(Serve(p))

-----------------------------------------------------------------------------
(* Properties                                                               *)

PCs == {"idle", "enroll", "subscriber", "duplicate", "insert", "cancel",
        "waiter", "promote", "commit", "reply"}

Outs == {"none", "notBookable", "bookedOut", "duplicate", "error", "booked", "waiting", "canceled"}

TxType == [op : Bookings \cup {"none", "cancel"}, id : Ids \cup {0}, person : People \cup {None},
           sub : Subs \cup {None}, member : BOOLEAN, new : BOOLEAN, enrolled : BOOLEAN,
           pid : Pids, first : Ids \cup {0}, out : Outs]

\* The type invariant: tables, locks and locals hold values of their columns.
TypeOK ==
  /\ event \in [bookable : BOOLEAN, max : Int, wait : Nat]
  /\ [max |-> event.max, wait |-> event.wait] \in Limits
  /\ person \in [Subs -> People \cup {None}]
  /\ committed \in [Ids -> Row \cup {None}]
  /\ version \in [Ids -> Row \cup {None}]
  /\ lock \in [Ids -> Workers \cup {None}]
  /\ clock \in 0..MaxBookings
  /\ seq \in Pids \cup {0}
  /\ pc \in [Workers -> PCs]
  /\ tx \in [Workers -> TxType]

\* Two bookings of the same subscriber are never active together, though
\* insert_booking looks for a duplicate long before it inserts (or not at all).
OneBookingPerSubscriber ==
  \A b, c \in Active(committed) : committed[b].sub = committed[c].sub => b = c

\* A payment id names one booking, whether canceled or not, also after the
\* sequence has wrapped: bank records are matched by it.
PaymentIdsDistinct ==
  \A b, c \in Ids :
    committed[b] # None /\ committed[c] # None /\ committed[b].pid = committed[c].pid => b = c

\* The same person has one active booking, however often the form is sent: what
\* get_event_subscriber_id is for. (One worker, forms with a member flag.)
OneBookingPerPerson ==
  \A b, c \in Active(committed) : person[committed[b].sub] = person[committed[c].sub] => b = c

\* The answer given to a request is what the database holds: a booked or waiting
\* booking is stored, a canceled one is canceled, and a refused or failed request
\* has left neither a booking nor a subscriber behind.
AnswersAreTrue ==
  \A p \in Workers :
    LET t == tx[p] IN pc[p] = "reply" =>
      CASE t.out = "booked"   -> committed[t.id] # None /\ committed[t.id].enrolled
        [] t.out = "waiting"  -> committed[t.id] # None /\ ~t.enrolled
        [] t.out = "canceled" -> committed[t.id].canceled
        [] OTHER -> t.id # 0 => committed[t.id] = None /\ person[t.id] = None

\* Counting and inserting are not one step, so workers that booked at the same
\* time may take the same last seat: the event has at most one attendee too many
\* per further worker, and none with a single one.
OverbookingBounded ==
  (\A l \in Limits : l.max # Unlimited)
    => Cardinality(Enrolled(committed)) <= MaxSeats + Cardinality(Workers) - 1

\* The same of the waiting list.
QueueBounded == Cardinality(Waiting(committed)) <= MaxQueue + Cardinality(Workers) - 1

\* Both limits.
LimitsBounded == OverbookingBounded /\ QueueBounded

\* A row once committed stays, keeps its subscriber and payment id, is never
\* un-canceled and never goes back to the waiting list, however promotions and
\* cancelations of the same row interleave.
HistoryKept(before, after) ==
  /\ after # None
  /\ after.sub = before.sub /\ after.pid = before.pid
  /\ before.canceled => after.canceled
  /\ before.enrolled => after.enrolled

HistoryIsKept == [][\A b \in Ids : committed[b] # None => HistoryKept(committed[b], committed'[b])]_vars

\* Nobody moves up from the waiting list unless the same commit cancels the
\* booking of an attendee (when every cancelation is asked for once).
PromotedIn(b) == committed[b] # None /\ ~committed[b].enrolled /\ committed'[b].enrolled

FreedIn(b) == b \in Enrolled(committed) /\ committed'[b].canceled

PromotionFillsFreedSeat ==
  [][\A b \in Ids : PromotedIn(b) => \E c \in Ids : c # b /\ FreedIn(c)]_vars

\* The row lock or unique key p waits for is held by these workers.
WaitsFor(p) ==
  CASE pc[p] = "cancel"  -> {lock[tx[p].id]} \ {p, None}
    [] pc[p] = "promote" -> {lock[tx[p].first]} \ {p, None}
    [] pc[p] = "insert"  -> {lock[b] : b \in OpenClashes(p, tx[p].sub, tx[p].pid)}
    [] OTHER -> {}

\* Transactions never wait for each other in a circle: PostgreSQL has no reason
\* to abort one of them as a deadlock victim.
NoLockCycle ==
  \A S \in (SUBSET Workers) \ {{}} : \E p \in S : WaitsFor(p) \cap S = {}

\* With one worker no booking or cancelation leaves a seat idle while somebody
\* waits: only a change of the limits can.
SeatIdle == Waiting(committed) # {} /\ SeatFree(Cardinality(Enrolled(committed)))

OnlyLimitsIdleSeats == [][event' = event /\ ~SeatIdle => ~SeatIdle']_vars

\* Every request comes to an end, whatever locks it has to wait for.
EveryRequestEnds == \A p \in Workers : pc[p] # "idle" ~> pc[p] = "idle"

\* Documented (cancel_event_booking: "we must not create a new attendee"): only a
\* booking adds an attendee, a cancelation never does.
CancelAddsNoAttendee ==
  [][Cardinality(Enrolled(committed')) > Cardinality(Enrolled(committed))
       => \E b \in Ids : committed[b] = None /\ committed'[b] # None]_vars
=============================================================================
