# sve-backend: models, checks and proofs

sve-backend is the backend of a sports club's website: people book fitness courses and
events, administrators manage events, payments and direct debits, scheduled jobs send
reminders and close what is over. It is one Rust program (axum, sqlx, PostgreSQL)
that runs as AWS Lambda functions: **any number of processes serve requests at the same
time, and PostgreSQL is all that coordinates them.** All transactions run under READ
COMMITTED, PostgreSQL's default; no code path asks for more. This directory models the
parts where that matters, checks them with TLC and proves the main results with TLAPS.

Run anything here with `tlc -config X.cfg MCx.tla` or `tlapm X_proofs.tla`;
`PROJECT.json` lists runs, mutants, hazards, theorems, and the source lines of every
definition.

## 1. Inventory

| Part (source) | State | Operations | What makes it correct |
|---|---|---|---|
| Bookings (`db/bookings.rs`, `logic/events.rs`) | `event_bookings`, `event_subscribers`, the payment-id sequence | `book_event`, `pre_book_event`, `cancel_event_booking` with promotion | limits, one booking per person, unique payment ids, fair waiting list, answers that agree with the database |
| SEPA export (`logic/events.rs` 263-326, `db/bookings.rs`, `logic/banking.rs`) | `sepa_exported_at` | `export_sepa_xml` | nobody is debited twice; only attendees with an IBAN are |
| Event lifecycle (`db/events.rs`, `logic/events.rs`) | `events`, their dates and status | create, update, close and archive, delete; daily `close_finished_running_events` | one Closed event per name, booked events stay, no lost update, what is over gets closed |
| Payments (`logic/events.rs` 153-180 and 924-1102, `logic/csv.rs`, `db/bookings.rs` 289-380) | `payment_confirmed_at`, `iban` | `verify_payments`, `update_payment` | every payment is reported once, no double payment, direct debits stay untouched |
| Documents (`models.rs`, `logic/export.rs`, `logic/template.rs`, `logic/banking.rs`) | none: functions of the rows | prices, mails, sheets, participants lists, confirmations, the bank's file | one price for a booking, nobody missing, nobody twice |
| Mails (`logic/events.rs`, `email.rs`, `db/events.rs`) | dates of an event, `reminder_sent`, what people have been told | mails after bookings, cancelations and moved dates; `send_event_reminders` | everybody knows where they stand and when, and is reminded, once |
| Payment reminders (`logic/events.rs` 182-241, 513-584, 1104-1131) | `payment_reminder_sent` | `send_payment_reminders` | not too early, not twice |
| News (`db/news.rs`, `logic/news.rs`) | `news_subscribers` | subscribe, unsubscribe | no topic is lost |
| Sign-in (`api.rs`) and secrets (`logic/secrets.rs`) | in-memory caches of each process, sessions | `exchange_session`, JWKS fetch, middleware, `load_secrets`, captchas | what was withdrawn opens nothing for long, what is valid is not refused |
| Membership, contact, calendar, routing, start-up | none of their own | text and I/O | callers cope with a failure half-way |

How they interact. Routes call `logic/`, which calls `db/`; `logic/` sends the mails
*after* the transaction of `db/`. All shared state is in PostgreSQL, but for the two caches of a process. Bookings,
payments, exports and reminders work on the same `event_bookings` rows, the lifecycle decides
which events may be booked, and the jobs (`logic/tasks.rs`, called by API key) and the administrators
overlap with everything.

What is hard about it:

- *Read, then write*: `calc_enroll_status` counts, `insert_booking` inserts; the promotion
  reads the first of the waiting list, then updates it; `delete_event` reads the status, then deletes;
  `update_event` looks for bookings, then changes the payment method; the export locks with one statement
  and reads with the next; `verify_payments` compares before its transaction begins.
- *Several rows, any order*: cancelation, export and `mark_as_paid` lock several rows; may they deadlock? Two saves of an
  event's dates delete and insert whole sets of rows.
- *Mails outside of transactions*: sent one by one after the commit, the first failure ends the request; what they say was read before.
- *Jobs that work off a list* read once at the start.
- *Caches* that are looked up, filled from outside and written in separate steps by overlapping requests.
- *Sequences of legal calls*: cancel twice, book again, reopen and close again, rename, change the fields after people have filled them in.
- *Edges*: the payment-id sequence cycles after 9000 values; no limit is -1; paydays are shifted by days; pages have a limited number of rows.

## 2. Modules

| Module | What it is |
|---|---|
| `Bookings` | bookings of one event, statement by statement |
| `BookingsInv` | its inductive invariant, what it takes on top of it for races and for one worker, and `ImplementsSeats`, the refinement of `Seats` |
| `Seats` | abstract specification: the bookings that have seats and those that wait, first come, first served |
| `MCBookings` | instances |
| `Bookings_proofs` | theorems about `Bookings`, the refinement among them |
| `SepaExport`, `MCSepaExport`, `SepaExport_proofs` | `export_sepa_xml` against bookings and cancelations |
| `Events`, `MCEvents`, `Events_proofs` | the life of events and the daily job |
| `Documents` | prices and what is written about bookings, as operators |
| `Payments`, `MCPayments`, `Payments_proofs` | statements, manual marks, changing fields; extends `Documents`, which it evaluates in every state |
| `Mails`, `MCMails`, `Mails_proofs` | mails after the commit, moved dates, event reminders |
| `Reminders`, `MCReminders`, `Reminders_proofs` | paydays and payment reminders |
| `Access`, `MCAccess`, `Access_proofs` | sessions, Google's keys and the consolidated secret in the caches of the processes |
| `News`, `MCNews`, `News_proofs` | subscriptions of news |

### How PostgreSQL is modelled

`committed` (or `row`) is the committed version of each row, `version` the newest one,
`lock` the open transaction that wrote it. A worker's `pc` names its next *statement*; one action is
one statement with the code around it, and the statements of other workers come between. A SELECT
sees the committed rows and the transaction's own (`View`). An UPDATE waits as long as another transaction
has the row locked, then works on the *newest* version. An INSERT waits for an open
insert of the same unique key and fails if the key is committed. Commit publishes and releases; a transaction that
is dropped (an error, an early `return Err`, or the end of the process) restores and releases
(`Rollback`, `Fail`, `Abort`). Deadlock detection ends one transaction of a circle where circles can occur (SEPA export, payments);
for `Bookings` it is proved that no circle does.

### Bookings

`BookEvent`/`PreBookEvent` pass `is_event_bookable`; then `ReadCounters` (`calc_enroll_status`), `InsertEventSubscriber`
(`get_event_subscriber_id`, found or inserted), `CheckDuplicate` (with `nextval`), `InsertBooking`, `Commit`, `Reply`. A pre-booking skips the
subscriber. `BeginCancel`, `SetCanceled`, `SelectWaiter`, `Promote` are `cancel_event_booking`. `UpdateEvent` changes the limits at any time.
A row's id stands for `created` too: both are taken when the transaction begins, so "first on the waiting list" is the smallest id. A
person is told from others by the fields the code compares. The values of custom fields are in `Documents`, the mails in `Mails`.

### SepaExport

`Begin` and the lock step take row locks one at a time in no defined order; then the file is read, the rows are marked, and the transaction commits.
Bookings and cancelations are one step here, at their commit. `debits` counts in how many committed files a booking is,
and `late` remembers the bookings that became eligible while an export took its locks.

### Events

Every action is one statement of `create_event`, `update_event` (with the payment-method check, the UPDATE, and
`archive_events`: SELECT, then one UPDATE per row), `delete_event`, a booking's read of the payment method and its insert, and the job:
`BeginJob` lists the Running events that are over, `FinishNext` sets one to Finished, `MailSent` goes on to Closed, `MailFails` ends the job. `closed` dates are ticks of `clock`, 0 is NULL.
A `Change` has the columns that are `Some` in a `PartialEvent`; `Keep` is `None`. `Jobs` are the workers that run it.
A pre-booking (`BeginPrebooking`) comes with no IBAN: it gets that of the last booking of the subscriber that has one (`PriorIban`), and is refused for a direct debit if there is none.

### Documents and Payments

`Documents` is pure. `TotalPrice` is `base * Multiplier`: the number a person gave for the price-relevant field. The code finds that field in two ways, from the *columns*
`custom_field_1..4` of the event (`ColumnFlags`: statements and reminders) and from its *list* of fields, which comes in the order of the table of fields (`ListFlags`: mails, sheets, confirmations, the bank's file).
Values are saved by position. `Sorted` is an ORDER BY and `Those` a selection from a list that keeps its order. `Workbook`, `ParticipantsList`, `Confirmations`, `EventEmails` and `SepaXml` return rows, pages and mails with what the properties are about; layout and wording
are left out. A pre-booking, which saves no values, is a booking whose answers are all `None`.

`Payments` has the rows. A statement is a sequence of lines with the payment ids found in the purpose; `ReadPaymentRecords` drops what is before the start date and gives the volume its sign. `Matched`, `RightVolume`,
`Problem`, `Verified`, `WithErrors` and `NotMatching` are the comparison:
a booking belongs to the first record that names it, a record of the wrong volume settles nothing. `VerifyPayments` compares and
starts the transaction of `mark_as_paid`: `CheckMethods`, then `NextBooking`/`MarkBooking` per booking in any order (a HashMap), then `Commit`.
`update_payment` is the same with one booking and no IBAN. `UpdateFields` changes the columns of the events. `crossed` and `promoted` are history: the bookings that were
changed between a comparison and its commit, and those that moved up. Bytes and the two CSV dialects are left out, but for what they mean for the sign of a line.

### Mails

A request reads the dates, commits, and then sends its `queue`, mail after mail (`SendMail`); `Fail` ends it anywhere and the rest is lost. `BeginBooking`/`CommitBooking` and `BeginCancel`/`CommitCancel`
are the transactions of `Bookings` in two steps: the event is fetched before the commit. An update of the dates is `UpdateColumns` (the UPDATE that locks the event's row; a request with dates only has none), `ReadDates` (equal dates are
left alone; `event_dates` has no key and is read without an order, so `rows` is a set whose members know the save they come from, and rows may be read in any order), `DeleteDates`, `SaveDates`, `CommitDates`, `ListAttendees` and the mails. A reminder job is `BeginReminders` (what is due), `FetchSubscribers`, the mails, `MarkReminderSent`. `told`, `knows` and `reminded` are what
people have got; `lost`, `across`, `late`, `raced` and `vain` remember the cases the properties leave out.

### Access

Time passes (`Tick`), Google publishes and withdraws keys, AWS rotates the secret, and a process starts anew (`Start`), which loses its requests and caches. `BeginExchange` looks the token's key up under the read lock,
`FetchJwks` asks Google under no lock, `WriteJwks` replaces all keys under the write lock, and the second lookup finds the key (`ExchangeSession`, `Denied`) or not (`UnknownKey`). `BeginCaptcha`, `GetSecretValue` and `InsertSecret` are `load_secrets`
with its cache; `Drop` is a failure of any call. `boot` is what a process reads once, at its start: the version of `session_secret` under which it signs and verifies. Secrets have no name but the number of rotations
before them. A request takes at most `MaxRequest`: the platform ends it.

### Reminders

A clock counts days. `deadline` is the event's first date less the days of its template, both of which `UpdateEvent` changes at any time (None: no dates); the booking mail keeps the one it was written with (`named`), a request the one it has read with its list (`seen`). `Payday`, `Base` and `DueInDays` are `calculate_payday`, the three days of grace, and `calc_due_in_days`. A request lists what is overdue (`Begin`), sends
mail after mail (`Send`), then marks all of them with one UPDATE (`Mark`); `Fail` is a failing mail or UPDATE, or the end of the process. Bookings and payments of
the event go on meanwhile; `Confirm` is the booking mail, which computes its payday from *its own* day. A promotion is one step here; that two of them may pick the same
booking makes no difference to its dates.

### News

`Begin` reads the row of the address; the next statement is the UPDATE or DELETE *by the id that was read* (`Update`, `Remove`, which write nothing if that row is gone), the `Insert`,
or `Nothing`. `Reply` is the confirmation mail, which is sent, or fails, after the commit. `stale` is a history variable: the workers whose address another request has changed since they read it.


## 3. What is checked

Every configuration says `CHECK_DEADLOCK FALSE`: the environment may stop sending requests
once the bounded number of bookings, events or days is used up. That requests do not get stuck is what `EveryRequestEnds`, `EveryExportEnds` and `NoLockCycle` say.

| Run | Properties | Shows |
|---|---|---|
| `bookings_races` (two workers, 3 bookings, 3 payment ids, one seat or none, 1 waiting place; 430 k states) | `OneBookingPerSubscriber`, `AnswersAreTrue`, `NoLockCycle`, `LimitsBounded`, `HistoryIsKept`, `PromotionFillsFreedSeat`, `EveryRequestEnds` | in every interleaving keys, answers and history stay right; races exceed a limit by one booking per further worker, no more; nobody waits for ever |
| `bookings_serial` (one worker, 4 bookings, three pairs of limits; 160 k) | `PaymentIdsDistinct`, `OneBookingPerPerson`, `ImplementsSeats`, `OnlyLimitsIdleSeats` | without races the code implements `Seats`: limits hold exactly, a freed seat goes to the first in line in the same step |
| `bookings_recancel` | `CancelAddsNoAttendee` | **violated**, finding 1 |
| `sepa_files` (two exports, 3 bookings; 310 k) | `DebitsAgree`, `FilesAreValid`, `EveryExportEnds` | which bookings the locks keep out of two files, and which not; marks and files agree |
| `events_serial` (one request at a time, 2 events, 2 names, 3 dates; 3.6 M) | `DebitsHaveIbans`, `ClosingLeavesOne` | the lifecycle rules, through renaming, closing and reopening, with bookings and pre-bookings |
| `events_races` (two workers, 2 events, one worker also runs the job; 750 k) | `BookedIsKept`, `NoLostUpdate`, `DueIsFinished` | what the row locks and the foreign key guarantee; the job gets every event that is over out of Running, whatever is done to the events of its list and whichever mail fails |
| `events_stuck` | `FinishedIsClosed` | **violated**, finding 2 |
| `payments` (two workers, up to three requests, bookings 1 and 2 by bank transfer, 4 by direct debit, five statements; 110 k) | `DebitsUntouched`, `EveryIdIsReported`, `PricesAgree`, `DocumentsAreComplete`, `PaidOnce`, `PaidHasSeat`, `EveryRequestEnds` | what comparisons report, what they settle under races, that all documents name the same price and everybody; deadlocks of two statements are resolved |
| `mails_event` (two requests, two people, one seat, two schedules, three saves or jobs; 5.6 M) | `PeopleAreTold`, `DatesAreOfOneSave`, `RemindersAreBounded`, `AttendeesAreReminded` | what everybody has been told when all is quiet, and who is left out |
| `access_caches` (two requests of one process that may start anew, two keys, times up to 5; 2.3 M) | `WithdrawnKeysExpire`, `SessionsHold`, `SecretsAreRecent`, `PublishedKeyIsKnown` | how long caches keep what is gone and refuse what is there, when lookups, fetches and writes cross |
| `reminders` (two requests, one booking, 15 days, an event whose payday moves between two days and none; 3.4 M) | `SpacingKept`, `EarlyByTheWait` | reminders are five days apart, also when the event moves; they follow the payday of the mail unless the booking waited or the event was brought forward, and then by how much |
| `news` (two requests, two addresses, two topics, three inserts; 1.1 M) | `ConfirmedStands`, `RowsHaveTopics`, `CommitsAreSerial` | only an overlap on the same address loses a topic or brings it back; a new row is never touched by a request that read the old one |

The type invariants and the inductive invariants are proved (section 4) for every instance, so that no run spends its time on them.

**Why the bounds are enough.** Two workers are what every race here needs: a reader that is overtaken by a writer, and a
circle of two. (Circles of more are excluded by proof.)

- *Bookings.* Three bookings fill the one seat, the one place and a refusal, or two seats that are taken
  at once and one that waits; three payment ids for up to four bookings make the sequence cycle into ids in use.
- *Events.* Two events of the same or of different names, and three dates, are an older and a newer Closed event and one
  more closing after a reopening. With two events in `events_races` the job has another one to get to after one that fails.
- *Payments.* Statements of two lines contain a joint payment, a payment of an id another line names, a wrong
  sum, an unknown id, a repayment, a line before the start date and a direct debit. Three requests (`MaxWork`) are two statements that meet, with a change by hand, a cancelation or a change of the fields
  between comparison and commit. Two fields in either order are the smallest list whose positions can differ from the columns. A page has one name, so that two attendees need
  two; an ASSUME of `MCPayments` checks the pages of the code (16 names) for up to 33 participants, and the proof has any page size.
- *Mails.* One attendee and one who waits and moves up; two schedules, of which one is not in the order of its days; three saves or jobs (`MaxWork`) are two saves that meet and a job, or two jobs that meet and a save.
- *Access.* All durations are 1, and at time 5 every session has ended that could be issued with a key withdrawn at 0; sessions do not influence each other, one is enough (`MaxSessions`). The two
  caches share nothing, so captchas are looked at without exchanges (`Mixed` is FALSE). Two changes of keys, secrets and starts: one key that replaces another, or a rotation and a start. Three were tried, too (17 M states,
  no error). One process that starts anew meets the sessions of its predecessor like those of another process; the proof has any number. The leeway is 0 here: it is a term that is added in the proof.
- *Reminders.* One booking is enough because a reminder reads only the booking's own row, the list and the marks are sets,
  and the proof holds for all lists; with 15 days an early booking can have three reminders. Two deadlines, one before and one after the later bookings, are an event that is brought forward, moved back or left without dates.
- *News.* Three inserts are a row, its successor and one of the other address; two topics are enough to lose one and keep one.

Symmetry is used only for interchangeable workers and only in runs without liveness properties.

**Fairness.** `FairSpec` assumes strong fairness of the statements of each worker: PostgreSQL grants
a row lock in turn, so that a statement that can proceed again and again does proceed, and aborts one transaction of a deadlock. A request may still fail at any point (strong fairness of a statement
only says that requests that come again and again do not fail at the same statement for ever). No fairness is
assumed of new requests. In `Events` the job is started again and again (it is scheduled daily) and works on, and its UPDATE of a due event does not fail at the database for ever; nothing is
assumed of the mails it sends, they may fail every time. `Mails` and `Access` state safety only: a mail may fail for ever, and so may a call of Google or AWS.

**Mutants.** Each property has a mutant: a plausible bug in one mapped definition (`PROJECT.json`, "mutants"; the operators say
"Mutant" where they are defined), under which the run finds the property violated.

### Findings

1. **Canceling a canceled booking promotes somebody.** The UPDATE of `cancel_event_booking` (`src/src/db/bookings.rs:908`) does not ask whether the booking is canceled
   already; a second cancelation of an attendee promotes the next of the waiting list, although no seat became free. Lines 959-961 say "we must not create a new attendee".
2. **A failing confirmation mail leaves an event Finished.** The job sets Finished, sends mails, sets Closed. If a mail fails, no later job
   picks the event up, as it looks for Running events only (`src/src/logic/events.rs:609`).

### What the properties leave out

Where races or orders break what one would like to say, the property names the exception. The models show how; whether it matters is for the team to decide. Only for *Booking again*
does a document of the repository promise more.

- *Limits.* They hold exactly with one worker (`ImplementsSeats`); with n of them up to n - 1 seats and n - 1 places too many are given away (`LimitsBounded`
  states that bound). Two cancelations that pick the same waiting booking leave a seat idle.
- *Closing.* `ClosingLeavesOne` is checked with one request at a time: two events of a name closed at the same time do not see each other. (And a name may be left without a Closed event if another event of that name has a later
  `closed` date without being Closed.)
- *Deleting.* `delete_event` reads the status and deletes by id: an event published in between is deleted, unless it is booked (`BookedIsKept` holds in every interleaving).
- *Direct debits.* `DebitsHaveIbans` is checked with one request at a time, too: a booking without IBAN may slip in while the method changes to direct debit. This is why `SepaExport` has rows without
  IBAN. A pre-booking keeps an IBAN it is given even if the event is paid by bank transfer.
- *Payments.* `PaidOnce` and `PaidHasSeat` hold in every interleaving except for `crossed` bookings: `mark_as_paid` does not look at a booking again, so of two statements uploaded at once that pay
  the same booking both are accepted and the second payment is not reported.
- *Prices.* `PricesAgree` needs the event to ask for the fields it asked for when people booked, and its columns to be in the order of the table of fields: otherwise
  mails and sheets name one price and the comparison of statements expects another. The mail to somebody who moves up is rendered without the values of the booking and names the base price. An announcement with a
  link to another event names the price of *that* event (`send_event_email`); it is left out of `PricesAgree`.
- *Lists.* The table of participants has 10 columns for dates: later dates are left out.
- *Exports.* A booking committed after the locking statement of an export and before its read is in the file without being locked, and can be in the file
  of a second export at the same time. `DebitsAgree` says that nothing else is.
- *Booking again.* Somebody who canceled cannot book the same event again: the duplicate check lets them pass, the UNIQUE key of canceled rows then refuses the insert. `CHANGELOG.md` (2.0.6, "Allow canceled bookings to
  re-asign") says otherwise; in the models such a booking fails and leaves nothing behind (`AnswersAreTrue`), and no run is spent on it.
- *Mails.* Whoever gets a seat while the dates are changed may only have been told the old ones (`across`), whoever gets it after a reminder job has listed the attendees is not reminded (`late`), and two saves of
  dates at once, one of which changes nothing else, both survive (`raced`). `PeopleAreTold` says that an attendee has got
  a mail with the present dates, not that it was the last one: when dates move there and back again, the mails of overlapping requests may arrive in either order. `Mails` lets one booking request begin at a time (the next one
  may begin when its mail is out); the code has no such rule, and the properties do not depend on it.
- *Reminders.* A booking that moves up keeps `created`, so it may be overdue before the payday its mail has named. The job reads the first date and the template anew each time, so after an event was brought forward
  a reminder may come before the payday that was named, without any wait: nobody is told the new payday (the mail about moved dates has none). `EarlyByTheWait` bounds both.
- *Keys.* An answer of Google that was overtaken by a later one may overwrite it; a key that is published is then unknown until the cache has expired or a refresh has been asked for (`PublishedKeyIsKnown` names that case only).
- *News.* Two requests of one address that overlap may lose a topic or bring one back, even one whose confirmation mail is sent afterwards; an UPDATE of a row that another request has
  deleted changes nothing, and the mail still confirms (`CommitsAreSerial`, `ConfirmedStands` exclude exactly the overlaps). `RowsHaveTopics` needs subscriptions to name a topic: the code would insert a row without any.

## 4. What is proved

All theorems hold for every value of the constants that satisfies the named assumptions: any finite set of workers, any
number of bookings, any limits and times. The assumptions only say what kind of value a constant is and that `None` and `Keep` are not among the ordinary values, as for the
columns they stand for.

| Theorem | Statement |
|---|---|
| `Bookings_proofs!IInvariant`, `TypeCorrect` | `IInv`, `TypeOK` |
| `Bookings_proofs!OneBooking`, `PaymentIds`, `History` | `OneBookingPerSubscriber`, `PaymentIdsDistinct`, `HistoryIsKept` |
| `Bookings_proofs!NoDeadlock`, `TrueAnswers` | `NoLockCycle`, `AnswersAreTrue` |
| `Bookings_proofs!QueueLimit`, `SeatLimit`, `LimitsHold` | `QueueBounded`; `OverbookingBounded` and `LimitsBounded`, if `"recancel" \notin Requests` |
| `Bookings_proofs!PromotionsFillSeats` | `PromotionFillsFreedSeat`, if `"recancel" \notin Requests` |
| `Bookings_proofs!SeatsImplemented`, `NoSeatLeftIdle` | the refinement `ImplementsSeats`; `OnlyLimitsIdleSeats`; both for one worker, if `"recancel" \notin Requests` |
| `Bookings_proofs!OnePerPerson` | `OneBookingPerPerson`, for one worker and forms that carry the member flag |
| `SepaExport_proofs!DebitedOnce`, `ValidFiles` | `DebitsAgree`; `FilesAreValid` |
| `Events_proofs!TypeCorrect`, `BookedKept`, `UpdatesKept` | `TypeOK`, `BookedIsKept`, `NoLostUpdate` |
| `Events_proofs!DebitsBooked` | `DebitsHaveIbans`, for one worker |
| `Events_proofs!OneClosedLeft` | `ClosingLeavesOne`, for one worker and if `closed` is only set by closing |
| `Payments_proofs!IInvariant`, `DebitsStayUntouched` | `IInv`, `DebitsUntouched` |
| `Payments_proofs!PaymentsInvariant`, `PaidOnlyOnce`, `PaymentNeedsSeat` | `PInv`, `PaidOnce`, `PaidHasSeat` |
| `Payments_proofs!NoPaymentIsLost`, `StatementsAreSettled` | the first part of `EveryIdIsReported`; all of it, if `NothingNegative` |
| `Payments_proofs!PricesAlwaysAgree`, `DocumentsStayComplete` | `PricesAgree`, `DocumentsAreComplete` |
| `Access_proofs!AccessInvariant` | `IInv` |
| `Access_proofs!KeysExpire`, `SessionsLast`, `RecentSecrets`, `KnownKeys` | `WithdrawnKeysExpire`, `SessionsHold`, `SecretsAreRecent`, `PublishedKeyIsKnown` |
| `Reminders_proofs!IInvariant`, `RemindersApart`, `EarlyOnlyByTheWait` | `IInv`, `SpacingKept`, `EarlyByTheWait` |
| `Mails_proofs!MailsInvariant`, `EverybodyTold` | `IInv`, `PeopleAreTold` |
| `Mails_proofs!DatesOfOneSave`, `RemindersBounded`, `EverybodyReminded` | `DatesAreOfOneSave`, `RemindersAreBounded`, `AttendeesAreReminded` |
| `News_proofs!IInvariant`, `Confirmed`, `Serial`, `NewRows`, `SerialCommits` | `IInv`, `ConfirmedStands`, `SerialUnlessStale`, `NewRowUntouched`, `CommitsAreSerial` |
| `News_proofs!TopicsLeft` | `RowsHaveTopics`, if whoever subscribes names a topic |

The arguments:

- **Bookings.** None of the properties is inductive: they speak of committed rows, while transactions hold uncommitted ones. `IInv` adds what
  the locals of a request, the versions and the locks say about each other: the unique keys hold among the *newest* versions (`KeysOK`), an open transaction
  changes a committed row only as history allows (`VersionsOK`), a lock belongs to a transaction that has written the row (`LocksOK`), and the row of a booking belongs to its transaction until it
  commits (`BookingsOK`).
- **No deadlock.** A booking waits only for a transaction that is about to commit. A cancelation waits to promote only while it
  holds its own row; a waiting row it has chosen is locked by another promotion (which waits for nobody) or by its own cancelation, which does not promote. `LInv` says
  that choices cannot close a circle.
- **Limits.** `SeatTakers` are the workers that have read "a seat is free" and not yet committed. Seats given plus takers never exceed
  `MaxSeats + workers - 1`: whoever reads a free seat has not yet been counted, and a commit turns a taker into an attendee. Promotions do not change the sum, provided the same booking is not canceled twice: this is the assumption on `Requests`, and finding 1 shows
  that it is needed.
- **One worker.** What a booking has read is still so when it commits, and its id is the last one (`DecisionsOK`); a cancelation has chosen the first who waits, and nobody has moved up in between (`CancelationsOK`). So only a commit
  changes what `Seats` sees, and it does what one of its steps does; with the head of the queue a set of at most one booking, a cancelation of a queue of any length is one formula. A person has one subscriber row because a lookup that
  found nothing is still right when its row is inserted (`PersonsOK`).
- **Answers.** `AInv` follows what a worker will be told back through its commit: a refused or failed booking leaves neither row nor subscriber.
- **SepaExport.** What an export has locked stays eligible and in nobody else's file until it ends; what it reads is locked by itself or `late`.
- **Events.** An event with bookings has a row; a DELETE in progress has seen none, and an insert of a booking waits for the row it refers to. `NoLostUpdate` holds because the transaction that is about to commit holds the lock since its UPDATE,
  which worked on the newest version, and that was the committed one (`Written`); rows of events that are not created yet are untouched (`Made`). With one worker what a booking or a change of the method has read is still so
  (`SInv`), and every way to an IBAN-less booking is closed: in the form, in a pre-booking, and in the check of a change of the method. Events are closed at different times (`Dates`): of two Closed events of a name one was closed later, so `archive_events`, which
  compares the newest version of each row with what it has read (`Archiving`), archives the other; the event being closed has the last date of all (`ClosingOK`).
- **Payments.** A transaction that marks was checked to be about bank transfers only, and locks only bookings of its own list. `PInv` adds that it has marked all it is done with (`MarksInOrder`), and that a booking
  that is not `crossed` and is still to be settled by a statement is no problem for that statement (`PaymentsInOrder`): any commit in between makes it `crossed`.
- **Statements.** Matched sets of two records are disjoint, because a booking belongs to the first record that names it; so the total of all that is settled is the sum of what each record settles, which is
  its amount at most, and nothing for a repayment. Sums are the community modules' folds over sets. What they yield is proved by taking a smallest subset for which it is wrong (`SmallestSubset`):
  the order in which the fold picks does not matter (`SumAddsEach`), sums of disjoint parts add up (`SumOfParts`), a sum by places is a sum by names (`SumOfNamed`).
  *Condition:* `NothingNegative`. The code takes any number as an answer to a field (`models.rs:460`), and a negative one makes a price negative: a record can then settle a booking with less money than the booking costs. That ids are
  reported needs no condition.
- **Prices.** `ColumnFlags` and `ListFlags` are the same places as long as the list of fields is that of the columns. At most one of up to four fields counts (`FormAssumption`: `write_event` refuses more, `db/events.rs:398`), so the first
  place that is flagged holds the answer that `Cost` is made of (`MultiplierIsAnswer`). The rest is who is on which list; the sum in the bank's file is that of the list's amounts, each of another booking (`DebitedSum`).
- **Documents.** `Sorted(S)` takes the k-th number of a set by its rank; ranks are a bijection that keeps the order (`SortedOnce`). A selection from the subscribers is the first or the second part of their list
  (`SelectedListed`), so it has each booking once and in order (`ListOfSorted`). Page p holds what follows its first (p - 1) * `PageSize` participants: the first page that ends at a place or later has it (`PageOf`), pages do not
  overlap (`PagesFollow`), and a page has rows enough since `PageSize` is not greater than `NameRows` (`PageNames`).
- **Mails.** What people have been told is settled when all is quiet; until then `PeopleOK` names the mail that is coming, or the request that has yet to list the attendees. The dates such a mail names are the committed ones
  because a request that saves dates has seen all the rows it replaces while it is alone behind the lock of the event's row (`DatesOK`); two saves that are not kept apart by that lock set `raced`. Reminders are counted against the jobs:
  each job owes a person at most one (`Owing`), a job that is neither `vain` nor on its way has marked the event (`RemindersOK`), and who has a seat and is not `late` is reminded or among the addressees of every job that has listed them (`AttendeesOK`).
  The order of the mails is that of the bookings: `MailsTo` takes the i-th of a set by its rank, and `Ranks` shows that ranks are a bijection.
- **Access.** How old keys are cannot be seen in a cache; `asOf`, the moment Google sent them, shows it. A request ends within `MaxRequest`, so an answer is written at most that long after Google sent it (`TimesOK`), and no key
  in it was withdrawn before (`KeysOK`). What a request looks up was written at most `Ttl` before the request began (`LookupsOK`). Added up, these are the time to live and the two requests of `WithdrawnKeysExpire` (`SessionsOK`).
  The version of the secret that a process or a session holds was the stored one when the process started (`StartsOK`), so two that differ have a rotation between them; a secret in the cache was stored at most one request before it was put there (`SecretsOK`).
- **Reminders.** A reminder that is not doubtful is marked no earlier than it was sent, or in the hands of one request (`RemindersMarked`); lists of two requests share only doubtful bookings, and what is
  listed was overdue by the deadline its request has read (`ListsOK`); dates are in order (`DaysOK`). A payday is the day after its base at least, whatever the event's dates are: the three days of grace, that day and the one after it add up to five.
  The booking mail and the reminder apply the same rule to two deadlines and two base days; the rule is monotone in both, which is what `EarlyByTheWait` adds up.
- **News.** While a request is not stale, the row it has read is the committed one (`ReadsOK`), and what it has written is what its request makes of that row (`WritesOK`).
  A lock is only held by a transaction that has read this very row (`LocksOK`), so a row with a new id cannot be written by a request with an old one. The statement that takes the last topic away deletes the row (`Filled`).

**Only model-checked:** liveness (`EveryRequestEnds`, `EveryExportEnds`, `DueIsFinished`), as the prover has no rules for fairness here; and what the two runs that expect a violation show.
Nothing is proved by induction over a sequence or a recursive definition, which is beyond the prover: the models order, select and add up with sets, ranks and sums,
and the inductions over finite sets that this needs are made with the library's theorem on minimal elements (`WFMin`).

## 5. Not modelled, and why

- *Layout and wording* of mails, templates, spreadsheets, PDFs and XML; the bytes of CSV files; descriptive columns of events.
- *Routing, (de)serialisation, start-up*: each handler calls one function of `logic/`, whose module models it. The pool has three connections and no request
  acquires a second one while it holds one, so it cannot block for ever; how long a request waits for one is not looked at.
- *Membership and contact* forms become one or two mails and keep no state: nothing to interleave.
- *Google Calendar* is called in a fixed order (`renew_watch`: stop, then watch), the state is Google's.
- *Secrets from the environment* come before the stored ones and never change while a process lives. The key of the tasks is compared with a string read at the start, like `session_secret`.
- *The sending* of announcements (`send_event_email`) changes nothing; only what they say is in `Documents`.
- *Signatures and passwords* are taken as perfect: a token is signed with the key it names or refused.

## 6. Plan

What is left, in this order:

1. `Events` and `Mails` composed: a save of dates that is raced by a deletion of the event.
2. Announcements with a link to another event, together with the pre-bookings they lead to.
