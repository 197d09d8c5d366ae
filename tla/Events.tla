------------------------------- MODULE Events -------------------------------
(***************************************************************************)
(* The life of events: created, changed, closed, archived and deleted by   *)
(* administrators, finished and closed by the daily job, while people book.*)
(* Every worker runs one READ COMMITTED transaction after the other,       *)
(* statement by statement; an UPDATE or DELETE waits for the transaction   *)
(* that has written the row, and then goes on with its newest version.     *)
(***************************************************************************)
EXTENDS Integers, FiniteSets

CONSTANTS
  Workers,      \* administrators and the job
  MaxEvents,    \* bound: events that are created
  Names,        \* names of events
  MaxClock,     \* bound: dates taken with Utc::now() for `closed`
  NewEvents,    \* the events administrators create
  Changes,      \* the changes administrators ask for
  Ops,          \* the kinds of request, "create", "update", "delete", "book" and "prebook"
  Jobs,         \* the workers that run the daily job
  None,
  Keep          \* the attribute is not part of the change

Ids == 1..MaxEvents

Statuses == {"Draft", "Review", "Published", "Running", "Finished", "Closed", "Archived"}
Methods  == {"BankTransfer", "SepaDirectDebit"}

\* The columns of events; closed = 0 is NULL; over: all its dates have passed.
Row == [name : Names, status : Statuses, closed : 0..MaxClock, method : Methods, over : BOOLEAN]

\* A PartialEvent: `closed` is an explicit date; dates: new ones, to come.
Change == [name : Names \cup {Keep}, status : Statuses \cup {Keep}, closed : {Keep} \cup (1..MaxClock),
           method : Methods \cup {Keep}, dates : BOOLEAN]

ASSUME WorkersAssumption == IsFiniteSet(Workers) /\ None \notin Workers
ASSUME BoundsAssumption == MaxEvents \in Nat /\ MaxClock \in Nat
ASSUME JobsAssumption == Jobs \subseteq Workers
ASSUME ChangesAssumption == Changes \subseteq Change /\ NewEvents \subseteq Row
ASSUME ConstantsAssumption ==
  /\ None \notin Row
  /\ Keep \notin Names /\ Keep \notin Statuses /\ Keep \notin Methods /\ Keep \notin Int

VARIABLES
  created,  \* events created so far
  row,      \* events: the committed version of each row, or None
  version,  \* ... and its newest version, perhaps of an open transaction
  lock,     \* the open transaction that wrote the newest version, or None
  ibans,    \* for each event, {whether the booking has an IBAN : its bookings}
  clock,    \* dates taken so far
  pc,       \* the next statement of each worker
  tx,       \* the locals of its request
  jobs      \* the events its job has still to close

vars == <<created, row, version, lock, ibans, clock, pc, tx, jobs>>

NoChange == [name |-> Keep, status |-> Keep, closed |-> Keep, method |-> Keep, dates |-> FALSE]

NoTx == [id |-> 0, change |-> NoChange, now |-> 0, seen |-> None, left |-> {}, iban |-> FALSE, job |-> FALSE]

-----------------------------------------------------------------------------
View(p) == [e \in Ids |-> IF lock[e] = p THEN version[e] ELSE row[e]]

Free(p, e) == lock[e] \in {None, p}

Write(p, e, v) ==
  /\ lock' = [lock EXCEPT ![e] = p]
  /\ version' = [version EXCEPT ![e] = v]

ReleasedLocks(p) == [e \in Ids |-> IF lock[e] = p THEN None ELSE lock[e]]

\* The request fails: its transaction is dropped, a job does not go on.
Fail(p) ==
  /\ version' = [e \in Ids |-> IF lock[e] = p THEN row[e] ELSE version[e]]
  /\ lock' = ReleasedLocks(p)
  /\ pc' = [pc EXCEPT ![p] = "idle"]
  /\ tx' = [tx EXCEPT ![p] = NoTx]
  /\ jobs' = [jobs EXCEPT ![p] = {}]

-----------------------------------------------------------------------------
(* save_new_event                                                           *)

\* Nobody sees the row before the commit: one step.
Create(p) ==
  /\ "create" \in Ops /\ pc[p] = "idle" /\ created < MaxEvents
  /\ created' = created + 1
  /\ \E new \in NewEvents :
       /\ row' = [row EXCEPT ![created'] = new]
       /\ version' = [version EXCEPT ![created'] = new]
  /\ UNCHANGED <<lock, ibans, clock, pc, tx, jobs>>

-----------------------------------------------------------------------------
(* update_event                                                             *)

\* Closed without a date: the date is now, and duplicates are to be archived.
ClosesNow(c) == c.status = "Closed" /\ c.closed = Keep

\* The UPDATE is built, with the current date if one is needed.
BuildUpdate(p, t) ==
  /\ pc' = [pc EXCEPT ![p] = "update"]
  /\ IF ClosesNow(t.change)
       THEN /\ clock < MaxClock
            /\ clock' = clock + 1
            /\ tx' = [tx EXCEPT ![p] = [t EXCEPT !.now = clock + 1]]
       ELSE /\ tx' = [tx EXCEPT ![p] = t]
            /\ UNCHANGED clock

BeginUpdate(p) ==
  /\ "update" \in Ops /\ pc[p] = "idle"
  /\ \E e \in Ids, c \in Changes :
       LET t == [NoTx EXCEPT !.id = e, !.change = c]
       IN  /\ row[e] # None
           /\ IF c.method = Keep
                THEN BuildUpdate(p, t)
                ELSE /\ pc' = [pc EXCEPT ![p] = "method"]
                     /\ tx' = [tx EXCEPT ![p] = t]
                     /\ UNCHANGED clock
  /\ UNCHANGED <<created, row, version, lock, ibans, jobs>>

\* Mutant: the payment method may always be changed.
AnyMethod(p) == TRUE

\* Cannot change payment_method after bookings exist.
MayChangeMethod(p) == ibans[tx[p].id] = {} \/ tx[p].change.method = row[tx[p].id].method

CheckMethod(p) ==
  /\ pc[p] = "method"
  /\ IF row[tx[p].id] # None /\ MayChangeMethod(p)
       THEN BuildUpdate(p, tx[p]) /\ UNCHANGED <<version, lock, jobs>>
       ELSE Fail(p) /\ UNCHANGED clock
  /\ UNCHANGED <<created, row, ibans>>

Or(new, old) == IF new = Keep THEN old ELSE new

\* Mutant: the payment method is set to its default if it is missing.
ChangedOrDefault(r, t) ==
  [name   |-> Or(t.change.name, r.name),
   status |-> Or(t.change.status, r.status),
   closed |-> IF ClosesNow(t.change) THEN t.now ELSE Or(t.change.closed, r.closed),
   method |-> Or(t.change.method, "BankTransfer"),
   over   |-> IF t.change.dates THEN FALSE ELSE r.over]

\* The columns that are part of the change, written over the newest version.
Changed(r, t) ==
  [name   |-> Or(t.change.name, r.name),
   status |-> Or(t.change.status, r.status),
   closed |-> IF ClosesNow(t.change) THEN t.now ELSE Or(t.change.closed, r.closed),
   method |-> Or(t.change.method, r.method),
   over   |-> IF t.change.dates THEN FALSE ELSE r.over]

\* An event that is gone is missed by the UPDATE and by the read of it that follows.
UpdateRow(p) ==
  LET e == tx[p].id
  IN  /\ pc[p] = "update" /\ Free(p, e)
      /\ IF row[e] = None
           THEN Fail(p)
           ELSE /\ Write(p, e, Changed(row[e], tx[p]))
                /\ pc' = [pc EXCEPT ![p] = IF ClosesNow(tx[p].change) THEN "archive" ELSE "commit"]
                /\ UNCHANGED <<tx, jobs>>
      /\ UNCHANGED <<created, row, ibans, clock>>

\* The events of a name, and those of them that are Closed.
Named(rows, n)  == {e \in Ids : rows[e] # None /\ rows[e].name = n}
ClosedOf(rows, n) == {e \in Named(rows, n) : rows[e].status = "Closed"}

\* Mutant: `<=` for `<`.
OutdatedOrLatest(rows, r) ==
  /\ r # None /\ r.status = "Closed"
  /\ Cardinality(ClosedOf(rows, r.name)) > 1

\* A Closed event is out of date if its name has two of them and an event, of any
\* status, that has been closed later. NULL is not before any date.
Outdated(rows, r) ==
  /\ r # None /\ r.status = "Closed" /\ r.closed # 0
  /\ Cardinality(ClosedOf(rows, r.name)) > 1
  /\ \E e \in Named(rows, r.name) : r.closed < rows[e].closed

\* archive_events: the rows are chosen when the statement starts ...
Archive(p) ==
  LET seen == View(p)
  IN  /\ pc[p] = "archive"
      /\ pc' = [pc EXCEPT ![p] = "archiving"]
      /\ tx' = [tx EXCEPT ![p].seen = seen, ![p].left = {e \in Ids : Outdated(seen, seen[e])}]
      /\ UNCHANGED <<created, row, version, lock, ibans, clock, jobs>>

\* ... and updated one by one, if the newest version qualifies, too.
ArchiveRow(p) ==
  /\ pc[p] = "archiving"
  /\ \E e \in tx[p].left :
       /\ Free(p, e)
       /\ tx' = [tx EXCEPT ![p].left = @ \ {e}]
       /\ IF Outdated(tx[p].seen, View(p)[e])
            THEN Write(p, e, [View(p)[e] EXCEPT !.status = "Archived"])
            ELSE UNCHANGED <<version, lock>>
  /\ UNCHANGED <<created, row, ibans, clock, pc, jobs>>

Archived(p) ==
  /\ pc[p] = "archiving" /\ tx[p].left = {}
  /\ pc' = [pc EXCEPT ![p] = "commit"]
  /\ tx' = [tx EXCEPT ![p].seen = None]
  /\ UNCHANGED <<created, row, version, lock, ibans, clock, jobs>>

-----------------------------------------------------------------------------
(* delete_event                                                             *)

Deletable(r) == r # None /\ r.status = "Draft"

BeginDelete(p) ==
  /\ "delete" \in Ops /\ pc[p] = "idle"
  /\ \E e \in Ids :
       /\ Deletable(row[e])
       /\ tx' = [tx EXCEPT ![p] = [NoTx EXCEPT !.id = e]]
  /\ pc' = [pc EXCEPT ![p] = "delete"]
  /\ UNCHANGED <<created, row, version, lock, ibans, clock, jobs>>

\* Mutant: without the foreign key of event_bookings.
NoReference(e) == FALSE

Referenced(e) == ibans[e] # {}

DeleteRow(p) ==
  LET e == tx[p].id
  IN  /\ pc[p] = "delete" /\ Free(p, e)
      /\ IF Referenced(e)
           THEN Fail(p)
           ELSE /\ Write(p, e, None)
                /\ pc' = [pc EXCEPT ![p] = "commit"]
                /\ UNCHANGED <<tx, jobs>>
      /\ UNCHANGED <<created, row, ibans, clock>>

-----------------------------------------------------------------------------
(* Bookings, as far as they concern the event                               *)

Bookable(s) == s \in {"Review", "Published", "Running"}

\* book_event of logic/events.rs reads the payment method, in no transaction: a
\* direct debit needs an IBAN, a bank transfer drops it.
BeginBooking(p) ==
  /\ "book" \in Ops /\ pc[p] = "idle"
  /\ \E e \in Ids :
       /\ row[e] # None
       /\ tx' = [tx EXCEPT ![p] = [NoTx EXCEPT !.id = e, !.iban = (row[e].method = "SepaDirectDebit")]]
  /\ pc' = [pc EXCEPT ![p] = "book"]
  /\ UNCHANGED <<created, row, version, lock, ibans, clock, jobs>>

\* A person who follows a prebooking link gives an IBAN if asked for one, and is asked if
\* there is none of an earlier booking for a direct debit. An IBAN that is given is kept,
\* whatever the payment method.
PriorIban == \E e \in Ids : row[e] # None /\ row[e].method = "SepaDirectDebit" /\ TRUE \in ibans[e]

BeginPrebooking(p) ==
  /\ "prebook" \in Ops /\ pc[p] = "idle"
  /\ \E e \in Ids, given \in BOOLEAN :
       /\ row[e] # None /\ Bookable(row[e].status)
       /\ row[e].method = "SepaDirectDebit" => given \/ PriorIban
       /\ tx' = [tx EXCEPT ![p] = [NoTx EXCEPT !.id = e, !.iban = given \/ row[e].method = "SepaDirectDebit"]]
  /\ pc' = [pc EXCEPT ![p] = "book"]
  /\ UNCHANGED <<created, row, version, lock, ibans, clock, jobs>>

\* The booking's transaction, up to its commit: the foreign key waits for an open
\* DELETE of the event, not for an UPDATE.
Insert(p) ==
  LET e == tx[p].id
  IN  /\ pc[p] = "book"
      /\ lock[e] # None => version[e] # None
      /\ IF row[e] # None /\ Bookable(row[e].status)
           THEN ibans' = [ibans EXCEPT ![e] = @ \cup {tx[p].iban}]
           ELSE UNCHANGED ibans
      /\ pc' = [pc EXCEPT ![p] = "idle"]
      /\ tx' = [tx EXCEPT ![p] = NoTx]
      /\ UNCHANGED <<created, row, version, lock, clock, jobs>>

-----------------------------------------------------------------------------
(* close_finished_running_events                                            *)

\* Time passes.
DatesPass(e) ==
  /\ row[e] # None /\ ~row[e].over /\ lock[e] = None
  /\ row' = [row EXCEPT ![e].over = TRUE]
  /\ version' = [version EXCEPT ![e].over = TRUE]
  /\ UNCHANGED <<created, lock, ibans, clock, pc, tx, jobs>>

BeginJob(p) ==
  /\ p \in Jobs /\ pc[p] = "idle"
  /\ jobs' = [jobs EXCEPT ![p] = {e \in Ids : row[e] # None /\ row[e].status = "Running" /\ row[e].over}]
  /\ pc' = [pc EXCEPT ![p] = "job"]
  /\ UNCHANGED <<created, row, version, lock, ibans, clock, tx>>

\* Mutant: without the status.
JobTxNoStatus(e, s) == [NoTx EXCEPT !.id = e, !.job = TRUE]

JobTx(e, s) == [NoTx EXCEPT !.id = e, !.job = TRUE, !.change.status = s]

\* The next event of the list is updated to Finished.
FinishNext(p) ==
  /\ pc[p] = "job"
  /\ \/ \E e \in jobs[p] : BuildUpdate(p, JobTx(e, "Finished"))
     \/ /\ jobs[p] = {}
        /\ pc' = [pc EXCEPT ![p] = "idle"]
        /\ tx' = [tx EXCEPT ![p] = NoTx]
        /\ UNCHANGED clock
  /\ UNCHANGED <<created, row, version, lock, ibans, jobs>>

\* The confirmations are sent, then the event is updated to Closed.
MailSent(p) ==
  /\ pc[p] = "mail"
  /\ BuildUpdate(p, JobTx(tx[p].id, "Closed"))
  /\ UNCHANGED <<created, row, version, lock, ibans, jobs>>

MailFails(p) ==
  /\ pc[p] = "mail"
  /\ Fail(p)
  /\ UNCHANGED <<created, row, ibans, clock>>

-----------------------------------------------------------------------------
(* The end of a transaction                                                 *)

\* What the worker does next: the job sends mails after the first update of an
\* event, and takes the next event after the second one.
After(p) ==
  IF ~tx[p].job THEN "idle" ELSE IF tx[p].change.status = "Finished" THEN "mail" ELSE "job"

Commit(p) ==
  /\ pc[p] = "commit"
  /\ row' = View(p)
  /\ lock' = ReleasedLocks(p)
  /\ pc' = [pc EXCEPT ![p] = After(p)]
  /\ tx' = [tx EXCEPT ![p] = IF After(p) = "mail" THEN tx[p] ELSE NoTx]
  /\ jobs' = [jobs EXCEPT ![p] = IF After(p) = "job" THEN @ \ {tx[p].id} ELSE @]
  /\ UNCHANGED <<created, version, ibans, clock>>

\* A statement fails, a deadlock is broken, or the process is gone.
Abort(p) ==
  /\ pc[p] # "idle"
  /\ Fail(p)
  /\ UNCHANGED <<created, row, ibans, clock>>

Init ==
  /\ created = 0
  /\ row = [e \in Ids |-> None]
  /\ version = [e \in Ids |-> None]
  /\ lock = [e \in Ids |-> None]
  /\ ibans = [e \in Ids |-> {}]
  /\ clock = 0
  /\ pc = [p \in Workers |-> "idle"]
  /\ tx = [p \in Workers |-> NoTx]
  /\ jobs = [p \in Workers |-> {}]

\* The statements of a request that goes well.
Serve(p) ==
  \/ CheckMethod(p) \/ UpdateRow(p) \/ Archive(p) \/ ArchiveRow(p) \/ Archived(p)
  \/ DeleteRow(p) \/ Insert(p) \/ FinishNext(p) \/ MailSent(p) \/ Commit(p)

Next ==
  \/ \E p \in Workers :
       \/ Create(p) \/ BeginUpdate(p) \/ BeginDelete(p)
       \/ BeginBooking(p) \/ BeginPrebooking(p) \/ BeginJob(p)
       \/ Serve(p) \/ MailFails(p) \/ Abort(p)
  \/ \E e \in Ids : DatesPass(e)

Spec == Init /\ [][Next]_vars

\* The statements of an update fail.
Failing(p) ==
  /\ Abort(p)
  /\ IF pc[p] = "job" THEN jobs[p] # {} ELSE pc[p] \in {"update", "commit"} /\ row[tx[p].id] # None

\* The job is started every day, whatever else is requested; requests are served, row
\* locks are granted in turn; the statements of the job do not fail for ever. Its mails
\* may.
FairSpec ==
  /\ Spec
  /\ \A p \in Workers : SF_vars(Serve(p))
  /\ \A p \in Jobs : SF_vars(BeginJob(p)) /\ <>[][~Failing(p)]_vars

-----------------------------------------------------------------------------
(* Properties                                                               *)

States == {"idle", "method", "update", "archive", "archiving", "delete", "book", "job", "mail", "commit"}

Tx == [id : 0..MaxEvents, change : Change, now : 0..MaxClock, seen : [Ids -> Row \cup {None}] \cup {None},
       left : SUBSET Ids, iban : BOOLEAN, job : BOOLEAN]

TypeOK ==
  /\ created \in 0..MaxEvents /\ clock \in 0..MaxClock
  /\ row \in [Ids -> Row \cup {None}] /\ version \in [Ids -> Row \cup {None}]
  /\ lock \in [Ids -> Workers \cup {None}]
  /\ ibans \in [Ids -> SUBSET BOOLEAN]
  /\ pc \in [Workers -> States] /\ tx \in [Workers -> Tx]
  /\ jobs \in [Workers -> SUBSET Ids]

\* However deletions, bookings and changes of the status overlap, an event that
\* somebody has booked is not deleted: a Draft event may have bookings (it was set
\* back, or published and booked after delete_event has read its status), then the
\* foreign key refuses the DELETE.
BookedIsKept == \A e \in Ids : ibans[e] # {} => row[e] # None

\* Of two updates of an event the second one waits, and goes on with what the first
\* one has written: when an update commits, the event gets the columns that are part
\* of the change and keeps what is committed then in the others.
NoLostUpdate ==
  [][\A p \in Workers, e \in Ids :
       (Commit(p) /\ e = tx[p].id /\ tx[p].change # NoChange /\ ~ClosesNow(tx[p].change))
         => \A column \in {"name", "status", "method"} :
              row'[e][column] = IF tx[p].change[column] = Keep THEN row[e][column] ELSE tx[p].change[column]]_vars

\* With one request at a time, every booking of an event that is paid by direct
\* debit has an IBAN to debit.
DebitsHaveIbans ==
  \A e \in Ids : (row[e] # None /\ row[e].method = "SepaDirectDebit") => FALSE \notin ibans[e]

\* With one request at a time: when an event has been closed it is Closed itself, and no name is left with two
\* Closed events, however they got their names.
ClosingLeavesOne ==
  [][\A p \in Workers :
       (Commit(p) /\ ClosesNow(tx[p].change))
         => /\ row'[tx[p].id].status = "Closed"
            /\ \A n \in Names : Cardinality(ClosedOf(row', n)) <= 1]_vars

\* A Running event that is over does not stay so, also if the mails of the events
\* before it fail again and again.
DueIsFinished ==
  \A e \in Ids :
    (row[e] # None /\ row[e].status = "Running" /\ row[e].over)
      ~> (row[e] = None \/ row[e].status # "Running" \/ ~row[e].over)

\* What the job has set to Finished it sets to Closed.
FinishedIsClosed ==
  \A e \in Ids :
    (row[e] # None /\ row[e].status = "Finished")
      ~> (row[e] = None \/ row[e].status # "Finished")
=============================================================================
