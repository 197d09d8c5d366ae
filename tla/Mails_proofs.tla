---------------------------- MODULE Mails_proofs ----------------------------
(***************************************************************************)
(* Who has been told what, for any number of requests at once, of people   *)
(* and of saves of the dates.                                              *)
(***************************************************************************)
EXTENDS Mails, FiniteSetTheorems, SequenceTheorems, TLAPS

-----------------------------------------------------------------------------
(* The inductive invariant                                                  *)

TypeOK ==
  /\ rows \in SUBSET Row /\ saves \in Nat /\ raced \in BOOLEAN
  /\ lock \in Workers \cup {None}
  /\ booking \in [Ids -> {"none", "waiting", "seat", "canceled"}]
  /\ marked \in BOOLEAN /\ jobs \in Nat /\ vain \in Nat
  /\ req \in [Workers -> Request \cup {None}]
  /\ told \in [Ids -> SUBSET Kinds] /\ knows \in [Ids -> SUBSET SUBSET Int]
  /\ reminded \in [Ids -> Nat]

\* A request has mails when it sends them, and only then; reminders are sent by the jobs.
RequestOK(r) ==
  /\ r.pc = "send" <=> r.queue # <<>>
  /\ r.op = "remind" <=> (r.pc \in {"fetch", "mark"} \/ \E i \in DOMAIN r.queue : r.queue[i].kind = "reminder")
  /\ r.op = "remind" => r.pc \in {"fetch", "send", "mark"}
  /\ r.op = "remind" => \A i \in DOMAIN r.queue : r.queue[i].kind = "reminder"
  /\ r.pc \in {"columns", "read", "delete", "save", "list"} => r.op \in {"update", "dates"}
  /\ r.pc = "columns" => r.op = "update"
  /\ (r.pc = "commit" /\ r.op \in {"book", "cancel"}) => r.id \in Ids

RequestsOK == \A w \in Workers : req[w] # None => RequestOK(req[w])

\* Unless two saves have met, one transaction at most is past the lock of the event's row:
\* it has seen all the rows there are.
DatesOK ==
  /\ ~raced => \A v, w \in Saving : v = w \/ req[w].op = "update"
  /\ \A w \in Saving : (req[w].op = "update" /\ req[w].pc # "columns") => lock = w
  /\ ~raced => \A w \in Saving :
       /\ req[w].pc \in {"save", "commit"} => req[w].seen = rows
       /\ req[w].pc = "commit" => req[w].event = Days(Rows(req[w].id, req[w].days))
  /\ DatesAreOfOneSave

Addressees(r) == {r.queue[i].to : i \in DOMAIN r.queue}

\* The jobs that are yet to remind b.
Owing(b) == {w \in Reminding : req[w].pc = "fetch" \/ b \in Addressees(req[w])}

SentOnce(r) == \A i, j \in DOMAIN r.queue : r.queue[i].to = r.queue[j].to => i = j

\* A job that is neither in vain nor on its way has marked the event, and each sends one
\* reminder to a person at most.
RemindersOK ==
  /\ jobs <= vain + 1
  /\ (~marked /\ Reminding = {}) => jobs <= vain
  /\ \A b \in Ids : reminded[b] + Cardinality(Owing(b)) <= jobs
  /\ \A w \in Reminding : SentOnce(req[w])

\* A job that has listed the attendees has reminded each of them, or will.
AttendeesOK ==
  /\ \A w \in Reminding : req[w].pc # "fetch" =>
       \A b \in HasSeat \ late : reminded[b] > 0 \/ b \in Addressees(req[w])
  /\ AttendeesAreReminded

\* A mail of one of these kinds is on its way to b ...
Expects(b, kinds) ==
  \E w \in Workers : req[w] # None /\ \E mail \in Queued(w) : mail.to = b /\ mail.kind \in kinds

\* ... or one with the dates as they are.
ExpectsDates(b) ==
  \E w \in Workers : req[w] # None /\
    \/ req[w].pc = "list" /\ req[w].event = Days(rows)
    \/ \E mail \in Queued(w) :
         mail.to = b /\ mail.kind \in {"booked", "promoted", "schedule"} /\ mail.event = Days(rows)

\* Whoever has not been told yet is about to be.
PersonOK(b) ==
  /\ booking[b] \in {"canceled", "waiting"} => booking[b] \in told[b] \/ Expects(b, {booking[b]})
  /\ booking[b] = "seat" => told[b] \cap {"booked", "promoted"} # {} \/ Expects(b, {"booked", "promoted"})
  /\ (booking[b] = "seat" /\ b \notin across /\ ~raced) => Days(rows) \in knows[b] \/ ExpectsDates(b)

PeopleOK ==
  \A b \in Ids \ lost : PersonOK(b)

IInv == TypeOK /\ RequestsOK /\ DatesOK /\ RemindersOK /\ AttendeesOK /\ PeopleOK

-----------------------------------------------------------------------------
(* The order of the bookings                                                *)

LEMMA RankStep ==
  ASSUME NEW S, S \subseteq Ids, NEW b \in S, NEW c \in S, b < c
  PROVE  /\ Rank(b, S) \in Nat /\ Rank(c, S) \in Nat
         /\ Rank(b, S) < Rank(c, S)
  <1> DEFINE B == {x \in S : x <= b}
             C == {x \in S : x <= c}
  <1>1. IsFiniteSet(S) /\ S \subseteq Nat
    BY IdsAssumption, FS_Subset
  <1>2. IsFiniteSet(C) /\ Cardinality(C) \in Nat
    BY <1>1, FS_Subset, FS_CardinalityType
  <1>3. B \subseteq C
    <2> SUFFICES ASSUME NEW x \in S, x <= b PROVE x <= c
      OBVIOUS
    <2>1. x \in Nat /\ b \in Nat /\ c \in Nat
      BY <1>1
    <2> QED BY <2>1
  <1>4. c \in C /\ c \notin B
    BY <1>1
  <1>5. IsFiniteSet(B) /\ Cardinality(B) \in Nat /\ Cardinality(B) <= Cardinality(C)
    BY <1>2, <1>3, FS_Subset, FS_CardinalityType
  <1>6. Cardinality(B) # Cardinality(C)
    BY <1>2, <1>3, <1>4, FS_Subset
  <1> QED BY <1>2, <1>5, <1>6 DEF Rank

\* Each of S has a place of its own, and there are as many places as there are in S.
LEMMA Ranks ==
  ASSUME NEW S, S \subseteq Ids
  PROVE  /\ IsFiniteSet(S) /\ Cardinality(S) \in Nat
         /\ \A b \in S : Rank(b, S) \in 1..Cardinality(S)
         /\ \A b, c \in S : Rank(b, S) = Rank(c, S) => b = c
         /\ \A i \in 1..Cardinality(S) : \E b \in S : Rank(b, S) = i
  <1>1. IsFiniteSet(S) /\ Cardinality(S) \in Nat /\ S \subseteq Nat
    BY IdsAssumption, FS_Subset, FS_CardinalityType
  <1>2. ASSUME NEW b \in S PROVE Rank(b, S) \in 1..Cardinality(S)
    <2> DEFINE B == {x \in S : x <= b}
    <2>1. IsFiniteSet(B) /\ Cardinality(B) \in Nat /\ Cardinality(B) <= Cardinality(S)
      BY <1>1, FS_Subset, FS_CardinalityType
    <2>2. b \in B
      BY <1>1
    <2>3. Cardinality(B) # 0
      BY <2>1, <2>2, FS_EmptySet
    <2> QED BY <1>1, <2>1, <2>3 DEF Rank
  <1>3. ASSUME NEW b \in S, NEW c \in S, Rank(b, S) = Rank(c, S) PROVE b = c
    <2>1. ~(b < c) /\ ~(c < b)
      BY <1>3, RankStep
    <2> QED BY <1>1, <2>1
  <1>4. \A i \in 1..Cardinality(S) : \E b \in S : Rank(b, S) = i
    <2> DEFINE f == [b \in S |-> Rank(b, S)]
               N == 1..Cardinality(S)
    <2>1. f \in Injection(S, N)
      BY <1>2, <1>3 DEF Injection, IsInjective
    <2>2. IsFiniteSet(N) /\ Cardinality(N) = Cardinality(S)
      BY <1>1, FS_Interval
    <2>3. f \in Surjection(S, N)
      <3> DEFINE R == {f[b] : b \in S}
      <3>1. f \in Surjection(S, R)
        BY DEF Surjection
      <3>2. f \in Injection(S, R)
        BY <2>1 DEF Injection, IsInjective
      <3>3. f \in Bijection(S, R)
        BY <3>1, <3>2 DEF Bijection
      <3>4. Cardinality(R) = Cardinality(S)
        BY <1>1, <3>3, FS_Bijection DEF ExistsBijection
      <3>5. R \subseteq N
        BY <1>2
      <3>6. R = N
        BY <2>2, <3>4, <3>5, FS_Subset
      <3> QED BY <2>1, <3>6 DEF Surjection, Injection
    <2> QED BY <2>3 DEF Surjection
  <1> QED BY <1>1, <1>2, <1>3, <1>4

LEMMA KindNames ==
  /\ "booked" \in Kinds /\ "waiting" \in Kinds /\ "canceled" \in Kinds
  /\ "promoted" \in Kinds /\ "schedule" \in Kinds /\ "reminder" \in Kinds
  BY DEF Kinds

\* The same mail to each of S, once.
LEMMA MailsToAll ==
  ASSUME NEW S, S \subseteq Ids,
         NEW kind \in Kinds,
         NEW event \in SUBSET Int
  PROVE  LET mails == MailsTo(S, kind, event)
         IN  /\ mails \in Seq(Email) /\ DOMAIN mails = 1..Len(mails)
             /\ mails = <<>> <=> S = {}
             /\ \A i \in DOMAIN mails : mails[i] = Mail(mails[i].to, kind, event)
             /\ \A i \in DOMAIN mails : mails[i].to \in S
             /\ \A b \in S : \E i \in DOMAIN mails : mails[i].to = b
             /\ \A i, j \in DOMAIN mails : mails[i].to = mails[j].to => i = j
  <1> DEFINE n == Cardinality(S)
             at(i) == CHOOSE b \in S : Rank(b, S) = i
             mails == MailsTo(S, kind, event)
  <1>1. n \in Nat /\ IsFiniteSet(S)
    BY Ranks
  <1>2. \A i \in 1..n : at(i) \in S /\ Rank(at(i), S) = i
    <2> TAKE i \in 1..n
    <2>1. \E b \in S : Rank(b, S) = i
      BY Ranks
    <2> QED BY <2>1
  <1>3. mails = [i \in 1..n |-> Mail(at(i), kind, event)]
    BY DEF MailsTo
  <1> HIDE DEF at, mails
  <1>4. \A i \in 1..n : mails[i] = [to |-> at(i), kind |-> kind, event |-> event]
    BY <1>3 DEF Mail
  <1>5. \A i \in 1..n : mails[i] \in Email /\ mails[i].to = at(i)
    <2> TAKE i \in 1..n
    <2>1. at(i) \in Ids
      BY <1>2
    <2>2. [to |-> at(i), kind |-> kind, event |-> event] \in Email
      BY <2>1 DEF Email
    <2> QED BY <1>4, <2>2
  <1>6. mails \in Seq(Email) /\ DOMAIN mails = 1..n /\ Len(mails) = n
    <2>1. mails \in [1..n -> Email]
      BY <1>3, <1>5
    <2> QED BY <1>1, <2>1
  <1>7. mails = <<>> <=> S = {}
    BY <1>1, <1>6, FS_EmptySet
  <1>8. /\ \A i \in DOMAIN mails : mails[i].to \in S
        /\ \A b \in S : \E i \in DOMAIN mails : mails[i].to = b
    <2>1. ASSUME NEW b \in S PROVE \E i \in 1..n : at(i) = b
      <3>1. Rank(b, S) \in 1..n
        BY Ranks
      <3> QED BY <1>2, <3>1, Ranks
    <2> QED BY <1>2, <1>5, <1>6, <2>1
  <1>9. \A i, j \in DOMAIN mails : mails[i].to = mails[j].to => i = j
    BY <1>2, <1>5, <1>6
  <1>10. \A i \in DOMAIN mails : mails[i] = Mail(mails[i].to, kind, event)
    BY <1>4, <1>6 DEF Mail
  <1> QED BY <1>6, <1>7, <1>8, <1>9, <1>10 DEF mails

LEMMA MailToEach ==
  ASSUME NEW S, S \subseteq Ids, NEW kind \in Kinds, NEW event \in SUBSET Int, NEW b \in S
  PROVE  \E i \in DOMAIN MailsTo(S, kind, event) : MailsTo(S, kind, event)[i] = Mail(b, kind, event)
  <1> DEFINE mails == MailsTo(S, kind, event)
  <1>1. /\ \A i \in DOMAIN mails : mails[i] = Mail(mails[i].to, kind, event)
        /\ \A c \in S : \E i \in DOMAIN mails : mails[i].to = c
    BY MailsToAll
  <1> HIDE DEF mails
  <1>2. PICK i \in DOMAIN mails : mails[i].to = b
    BY <1>1
  <1>3. mails[i] = Mail(b, kind, event)
    BY <1>1, <1>2
  <1> QED BY <1>3 DEF mails

-----------------------------------------------------------------------------
(* Requests                                                                 *)

LEMMA RequestFields ==
  ASSUME NEW r \in Request
  PROVE  /\ r # None
         /\ r.op \in {"book", "cancel", "update", "dates", "remind"}
         /\ r.pc \in {"columns", "read", "delete", "save", "commit", "list", "fetch", "send", "mark"}
         /\ r.id \in Nat /\ r.days \in Seq(Int) /\ r.seen \in SUBSET Row
         /\ r.event \in SUBSET Int /\ r.queue \in Seq(Email)
  BY NoneAssumption DEF Request

\* A request as it begins.
LEMMA BlankRequest ==
  NoRequest \in [op : {""}, pc : {""}, id : Nat, days : Seq(Int), seen : SUBSET Row,
                 event : SUBSET Int, queue : Seq(Email)]
  <1>1. <<>> \in Seq(Email) /\ <<>> \in Seq(Int) /\ {} \in SUBSET Row /\ {} \in SUBSET Int
    OBVIOUS
  <1> QED BY <1>1 DEF NoRequest

LEMMA NewBookingRequest ==
  ASSUME NEW op \in {"book", "cancel"}, NEW b \in Nat, NEW event \in SUBSET Int
  PROVE  LET q == [NoRequest EXCEPT !.op = op, !.pc = "commit", !.id = b, !.event = event]
         IN  q \in Request /\ q.op = op /\ q.pc = "commit" /\ q.id = b /\ q.queue = <<>>
  <1>1. NoRequest.queue = <<>>
    BY DEF NoRequest
  <1> QED BY <1>1, BlankRequest DEF Request

LEMMA NewJob ==
  LET q == [NoRequest EXCEPT !.op = "remind", !.pc = "fetch"]
  IN  q \in Request /\ q.op = "remind" /\ q.pc = "fetch" /\ q.queue = <<>>
  <1>1. NoRequest.queue = <<>>
    BY DEF NoRequest
  <1> QED BY <1>1, BlankRequest DEF Request

LEMMA ToldRequest ==
  ASSUME NEW event \in SUBSET Int
  PROVE  LET q == [NoRequest EXCEPT !.op = "update", !.pc = "list", !.event = event]
         IN  q \in Request /\ q.op = "update" /\ q.pc = "list" /\ q.event = event /\ q.queue = <<>>
  <1>1. NoRequest.queue = <<>>
    BY DEF NoRequest
  <1> QED BY <1>1, BlankRequest DEF Request

\* A step from one stage to the next, as long as there are no mails.
LEMMA MovedRequest ==
  ASSUME NEW r \in Request,
         NEW pc \in {"columns", "read", "delete", "save", "commit", "list", "fetch", "send", "mark"}
  PROVE  LET q == [r EXCEPT !.pc = pc]
         IN  /\ q \in Request /\ q.pc = pc
             /\ q.op = r.op /\ q.id = r.id /\ q.days = r.days /\ q.seen = r.seen
             /\ q.event = r.event /\ q.queue = r.queue
  BY DEF Request

LEMMA SendingRequest ==
  ASSUME NEW r \in Request, NEW mails \in Seq(Email),
         NEW pc \in {"send", "mark"}
  PROVE  LET q == [r EXCEPT !.pc = pc, !.queue = mails]
         IN  /\ q \in Request /\ q.pc = pc /\ q.queue = mails
             /\ q.op = r.op /\ q.id = r.id /\ q.days = r.days /\ q.seen = r.seen /\ q.event = r.event
  BY DEF Request

LEMMA SeenRequest ==
  ASSUME NEW r \in Request, NEW seen \in SUBSET Row
  PROVE  LET q == [r EXCEPT !.pc = "save", !.seen = seen]
         IN  /\ q \in Request /\ q.pc = "save" /\ q.seen = seen
             /\ q.op = r.op /\ q.id = r.id /\ q.days = r.days /\ q.event = r.event /\ q.queue = r.queue
  BY DEF Request

LEMMA SavedRequest ==
  ASSUME NEW r \in Request, NEW n \in Nat
  PROVE  LET q == [r EXCEPT !.pc = "commit", !.id = n]
         IN  /\ q \in Request /\ q.pc = "commit" /\ q.id = n
             /\ q.op = r.op /\ q.days = r.days /\ q.seen = r.seen /\ q.event = r.event /\ q.queue = r.queue
  BY DEF Request

LEMMA FetchedRequest ==
  ASSUME NEW r \in Request, NEW event \in SUBSET Int
  PROVE  LET q == [r EXCEPT !.event = event]
         IN  /\ q \in Request /\ q.event = event
             /\ q.op = r.op /\ q.pc = r.pc /\ q.id = r.id /\ q.days = r.days /\ q.seen = r.seen /\ q.queue = r.queue
  BY DEF Request

LEMMA RestRequest ==
  ASSUME NEW r \in Request, NEW mails \in Seq(Email)
  PROVE  LET q == [r EXCEPT !.queue = mails]
         IN  /\ q \in Request /\ q.pc = r.pc /\ q.queue = mails
             /\ q.op = r.op /\ q.id = r.id /\ q.days = r.days /\ q.seen = r.seen /\ q.event = r.event
  BY DEF Request

\* The requests of the others stay as they are.
LEMMA OneRequest ==
  ASSUME TypeOK, RequestsOK, NEW w \in Workers, NEW r,
         req' = [req EXCEPT ![w] = r], r = None \/ (r \in Request /\ RequestOK(r))
  PROVE  /\ req' \in [Workers -> Request \cup {None}]
         /\ RequestsOK'
         /\ req'[w] = r /\ \A v \in Workers \ {w} : req'[v] = req[v]
  <1>1. /\ req' \in [Workers -> Request \cup {None}]
        /\ req'[w] = r /\ \A v \in Workers \ {w} : req'[v] = req[v]
    BY DEF TypeOK
  <1>2. RequestsOK'
    <2> SUFFICES ASSUME NEW v \in Workers, req'[v] # None PROVE RequestOK(req'[v])
      BY DEF RequestsOK, RequestOK
    <2>1. CASE v = w
      BY <1>1, <2>1
    <2>2. CASE v # w
      BY <1>1, <2>2 DEF RequestsOK
    <2> QED BY <2>1, <2>2
  <1> QED BY <1>1, <1>2

LEMMA RowsTyped ==
  ASSUME NEW save \in Nat, NEW days \in Seq(Int)
  PROVE  Rows(save, days) \in SUBSET Row
  BY DEF Rows, Row

LEMMA DaysTyped ==
  ASSUME NEW event \in SUBSET Row
  PROVE  Days(event) \in SUBSET Int
  BY DEF Days, Row

LEMMA SavedTyped ==
  ASSUME TypeOK, NEW r \in Request
  PROVE  Saved(r) \in SUBSET Row /\ Days(Saved(r)) \in SUBSET Int
  <1>1. Saved(r) \in SUBSET Row
    BY RowsTyped, RequestFields DEF Saved, TypeOK
  <1> QED BY <1>1, DaysTyped

\* The first mail and the others.
LEMMA HeadAndRest ==
  ASSUME NEW mails \in Seq(Email), mails # <<>>
  PROVE  /\ 1 \in DOMAIN mails /\ Head(mails) = mails[1] /\ Head(mails) \in Email
         /\ Tail(mails) \in Seq(Email)
         /\ \A i \in DOMAIN mails : mails[i] \in Email
         /\ \A i \in DOMAIN Tail(mails) : i + 1 \in DOMAIN mails /\ Tail(mails)[i] = mails[i + 1]
         /\ \A i \in DOMAIN mails : i = 1 \/ (i - 1 \in DOMAIN Tail(mails) /\ Tail(mails)[i - 1] = mails[i])
  <1>1. Len(mails) \in Nat \ {0} /\ DOMAIN mails = 1..Len(mails)
    OBVIOUS
  <1>2. Len(Tail(mails)) = Len(mails) - 1 /\ DOMAIN Tail(mails) = 1..(Len(mails) - 1)
    BY <1>1
  <1>3. \A i \in 1..(Len(mails) - 1) : Tail(mails)[i] = mails[i + 1]
    BY <1>1
  <1> QED BY <1>1, <1>2, <1>3

-----------------------------------------------------------------------------
(* What each action does to its request                                     *)

\* Everything but the requests.
others == <<booking, marked, told, knows, reminded, lost, across, late>>

LEMMA BeginBookingDoes ==
  ASSUME TypeOK, RequestsOK, NEW w \in Workers, BeginBooking(w)
  PROVE  /\ \E r : /\ req' = [req EXCEPT ![w] = r] /\ r \in Request /\ RequestOK(r)
                   /\ r.op = "book" /\ r.pc = "commit" /\ r.queue = <<>>
         /\ req[w] = None
         /\ UNCHANGED <<others, rows, saves, raced, lock, jobs, vain>>
  <1>1. PICK b \in Ids :
          Begin(w, [NoRequest EXCEPT !.op = "book", !.pc = "commit", !.id = b, !.event = Days(rows)])
    BY DEF BeginBooking
  <1> DEFINE r == [NoRequest EXCEPT !.op = "book", !.pc = "commit", !.id = b, !.event = Days(rows)]
  <1>2. b \in Nat /\ Days(rows) \in SUBSET Int
    BY IdsAssumption, DaysTyped DEF TypeOK
  <1>3. r \in Request /\ r.op = "book" /\ r.pc = "commit" /\ r.id = b /\ r.queue = <<>>
    BY <1>2, NewBookingRequest
  <1>4. req[w] = None /\ req' = [req EXCEPT ![w] = r]
    BY <1>1 DEF Begin
  <1> HIDE DEF r
  <1>5. RequestOK(r)
    BY <1>3 DEF RequestOK
  <1>6. UNCHANGED <<others, rows, saves, raced, lock, jobs, vain>>
    BY DEF BeginBooking, others, dates, mailing, missed
  <1> QED BY <1>3, <1>4, <1>5, <1>6

LEMMA BeginCancelDoes ==
  ASSUME TypeOK, RequestsOK, NEW w \in Workers, BeginCancel(w)
  PROVE  /\ \E r : /\ req' = [req EXCEPT ![w] = r] /\ r \in Request /\ RequestOK(r)
                   /\ r.op = "cancel" /\ r.pc = "commit" /\ r.queue = <<>>
         /\ req[w] = None
         /\ UNCHANGED <<others, rows, saves, raced, lock, jobs, vain>>
  <1>1. PICK b \in Ids :
          Begin(w, [NoRequest EXCEPT !.op = "cancel", !.pc = "commit", !.id = b, !.event = Days(rows)])
    BY DEF BeginCancel
  <1> DEFINE r == [NoRequest EXCEPT !.op = "cancel", !.pc = "commit", !.id = b, !.event = Days(rows)]
  <1>2. b \in Nat /\ Days(rows) \in SUBSET Int
    BY IdsAssumption, DaysTyped DEF TypeOK
  <1>3. r \in Request /\ r.op = "cancel" /\ r.pc = "commit" /\ r.id = b /\ r.queue = <<>>
    BY <1>2, NewBookingRequest
  <1>4. req[w] = None /\ req' = [req EXCEPT ![w] = r]
    BY <1>1 DEF Begin
  <1> HIDE DEF r
  <1>5. RequestOK(r)
    BY <1>3 DEF RequestOK
  <1>6. UNCHANGED <<others, rows, saves, raced, lock, jobs, vain>>
    BY DEF BeginCancel, others, dates, mailing, missed
  <1> QED BY <1>3, <1>4, <1>5, <1>6

LEMMA BeginUpdateDoes ==
  ASSUME TypeOK, RequestsOK, NEW w \in Workers, BeginUpdate(w)
  PROVE  /\ \E r : /\ req' = [req EXCEPT ![w] = r] /\ r \in Request /\ RequestOK(r)
                   /\ \/ r.op = "update" /\ r.pc = "columns"
                      \/ r.op = "dates" /\ r.pc = "read"
                   /\ r.queue = <<>>
                   /\ raced' = (raced \/ \E v \in Saving : "dates" \in {r.op, req[v].op})
         /\ req[w] = None
         /\ UNCHANGED <<others, rows, saves, lock, jobs, vain>>
  <1>1. PICK op \in {"update", "dates"}, days \in Schedules :
          /\ Begin(w, [NoRequest EXCEPT !.op = op, !.pc = IF op = "update" THEN "columns" ELSE "read", !.days = days])
          /\ raced' = (raced \/ \E v \in Saving : "dates" \in {op, req[v].op})
    BY DEF BeginUpdate
  <1> DEFINE pc == IF op = "update" THEN "columns" ELSE "read"
             r == [NoRequest EXCEPT !.op = op, !.pc = pc, !.days = days]
  <1>2. op \in {"update", "dates"} /\ days \in Seq(Int)
    BY <1>1, SchedulesAssumption
  <1>3. req[w] = None /\ req' = [req EXCEPT ![w] = r]
    BY <1>1 DEF Begin
  <1>4. pc \in {"columns", "read"} /\ (op = "update" => pc = "columns") /\ (op = "dates" => pc = "read")
    OBVIOUS
  <1> HIDE DEF pc
  <1>5. r \in Request /\ r.op = op /\ r.pc = pc /\ r.queue = <<>>
    <2>1. NoRequest.queue = <<>>
      BY DEF NoRequest
    <2> QED BY <1>2, <1>4, <2>1, BlankRequest DEF Request
  <1> HIDE DEF r
  <1>6. RequestOK(r)
    BY <1>4, <1>5 DEF RequestOK
  <1>7. UNCHANGED <<others, rows, saves, lock, jobs, vain>>
    BY DEF BeginUpdate, others, mailing, missed
  <1> QED BY <1>1, <1>3, <1>4, <1>5, <1>6, <1>7

LEMMA BeginRemindersDoes ==
  ASSUME TypeOK, RequestsOK, NEW w \in Workers, BeginReminders(w)
  PROVE  /\ \E r : /\ req' = [req EXCEPT ![w] = r] /\ r \in Request /\ RequestOK(r)
                   /\ r.op = "remind" /\ r.pc = "fetch" /\ r.queue = <<>>
         /\ req[w] = None /\ ~marked
         /\ jobs' = jobs + 1
         /\ vain' = IF Reminding # {} THEN vain + 1 ELSE vain
         /\ UNCHANGED <<others, rows, saves, raced, lock>>
  <1> DEFINE r == [NoRequest EXCEPT !.op = "remind", !.pc = "fetch"]
  <1>1. r \in Request /\ r.op = "remind" /\ r.pc = "fetch" /\ r.queue = <<>>
    BY NewJob
  <1>2. req[w] = None /\ req' = [req EXCEPT ![w] = r]
    BY DEF BeginReminders, Begin
  <1> HIDE DEF r
  <1>3. RequestOK(r)
    BY <1>1 DEF RequestOK
  <1>4. /\ ~marked /\ jobs' = jobs + 1 /\ vain' = IF Reminding # {} THEN vain + 1 ELSE vain
        /\ UNCHANGED <<others, rows, saves, raced, lock>>
    BY DEF BeginReminders, Due, others, dates, mailing, missed
  <1> QED BY <1>1, <1>2, <1>3, <1>4

\* A request that is at a stage before its mails.
LEMMA OpenRequest ==
  ASSUME TypeOK, RequestsOK, NEW w \in Workers, NEW pc, Open(w, pc)
  PROVE  /\ req[w] # None /\ req[w] \in Request /\ req[w].pc = pc /\ RequestOK(req[w])
         /\ pc # "send" => req[w].queue = <<>>
         /\ pc = "send" => req[w].queue # <<>>
  BY DEF Open, TypeOK, RequestsOK, RequestOK

LEMMA UpdateColumnsDoes ==
  ASSUME TypeOK, RequestsOK, NEW w \in Workers, UpdateColumns(w)
  PROVE  /\ \E r : /\ req' = [req EXCEPT ![w] = r] /\ r \in Request /\ RequestOK(r)
                   /\ r.op = req[w].op /\ r.pc = "read" /\ r.queue = <<>>
         /\ req[w] # None /\ req[w].pc = "columns" /\ req[w].queue = <<>>
         /\ lock = None /\ lock' = w
         /\ UNCHANGED <<others, rows, saves, raced, jobs, vain>>
  <1>1. Open(w, "columns")
    BY DEF UpdateColumns
  <1>2. req[w] \in Request /\ RequestOK(req[w]) /\ req[w] # None /\ req[w].pc = "columns" /\ req[w].queue = <<>>
    BY <1>1, OpenRequest
  <1> DEFINE r == [req[w] EXCEPT !.pc = "read"]
  <1>3. r \in Request /\ r.op = req[w].op /\ r.pc = "read" /\ r.queue = <<>>
    BY <1>2, MovedRequest
  <1>4. RequestOK(r)
    BY <1>2, <1>3 DEF RequestOK
  <1>5. req' = [req EXCEPT ![w] = r]
    BY DEF UpdateColumns, TypeOK
  <1> QED BY <1>2, <1>3, <1>4, <1>5 DEF UpdateColumns, others, mailing, missed

LEMMA ReadDatesDoes ==
  ASSUME TypeOK, RequestsOK, NEW w \in Workers, ReadDates(w)
  PROVE  /\ \E r : /\ req' = [req EXCEPT ![w] = r]
                   /\ \/ r = None /\ lock' = IF lock = w THEN None ELSE lock
                      \/ /\ r \in Request /\ RequestOK(r) /\ r.op = req[w].op /\ r.pc = "delete" /\ r.queue = <<>>
                         /\ lock' = lock
         /\ req[w] # None /\ req[w].pc = "read" /\ req[w].op \in {"update", "dates"} /\ req[w].queue = <<>>
         /\ UNCHANGED <<others, rows, saves, raced, jobs, vain>>
  <1>1. Open(w, "read")
    BY DEF ReadDates
  <1>2. /\ req[w] \in Request /\ RequestOK(req[w]) /\ req[w] # None /\ req[w].pc = "read"
        /\ req[w].queue = <<>> /\ req[w].op \in {"update", "dates"}
    BY <1>1, OpenRequest DEF RequestOK
  <1> DEFINE r == [req[w] EXCEPT !.pc = "delete"]
  <1>3. r \in Request /\ r.op = req[w].op /\ r.pc = "delete" /\ r.queue = <<>>
    BY <1>2, MovedRequest
  <1>4. RequestOK(r)
    BY <1>2, <1>3 DEF RequestOK
  <1>5. \/ req' = [req EXCEPT ![w] = None] /\ lock' = IF lock = w THEN None ELSE lock
        \/ req' = [req EXCEPT ![w] = r] /\ lock' = lock
    BY DEF ReadDates, End, TypeOK
  <1> QED BY <1>2, <1>3, <1>4, <1>5 DEF ReadDates, others, mailing, missed

LEMMA DeleteDatesDoes ==
  ASSUME TypeOK, RequestsOK, NEW w \in Workers, DeleteDates(w)
  PROVE  /\ \E r : /\ req' = [req EXCEPT ![w] = r] /\ r \in Request /\ RequestOK(r)
                   /\ r.op = req[w].op /\ r.pc = "save" /\ r.seen = rows /\ r.queue = <<>>
         /\ req[w] # None /\ req[w].pc = "delete" /\ req[w].op \in {"update", "dates"} /\ req[w].queue = <<>>
         /\ UNCHANGED <<others, rows, saves, raced, lock, jobs, vain>>
  <1>1. Open(w, "delete")
    BY DEF DeleteDates
  <1>2. /\ req[w] \in Request /\ RequestOK(req[w]) /\ req[w] # None /\ req[w].pc = "delete"
        /\ req[w].queue = <<>> /\ req[w].op \in {"update", "dates"}
    BY <1>1, OpenRequest DEF RequestOK
  <1> DEFINE r == [req[w] EXCEPT !.pc = "save", !.seen = rows]
  <1>3. r \in Request /\ r.op = req[w].op /\ r.pc = "save" /\ r.seen = rows /\ r.queue = <<>>
    <2>1. rows \in SUBSET Row
      BY DEF TypeOK
    <2> QED BY <1>2, <2>1, SeenRequest
  <1>4. RequestOK(r)
    BY <1>2, <1>3 DEF RequestOK
  <1>5. req' = [req EXCEPT ![w] = r]
    BY DEF DeleteDates, TypeOK
  <1> QED BY <1>2, <1>3, <1>4, <1>5 DEF DeleteDates, dates, others, mailing, missed

LEMMA SaveDatesDoes ==
  ASSUME TypeOK, RequestsOK, NEW w \in Workers, SaveDates(w)
  PROVE  /\ \E r : /\ req' = [req EXCEPT ![w] = r] /\ r \in Request /\ RequestOK(r)
                   /\ r.op = req[w].op /\ r.pc = "commit" /\ r.queue = <<>> /\ r.seen = req[w].seen
                   /\ r.event = Days((rows \ req[w].seen) \cup Rows(r.id, r.days))
         /\ req[w] # None /\ req[w].pc = "save" /\ req[w].op \in {"update", "dates"} /\ req[w].queue = <<>>
         /\ saves' = saves + 1
         /\ UNCHANGED <<others, rows, raced, lock, jobs, vain>>
  <1>1. Open(w, "save")
    BY DEF SaveDates
  <1>2. /\ req[w] \in Request /\ RequestOK(req[w]) /\ req[w] # None /\ req[w].pc = "save"
        /\ req[w].queue = <<>> /\ req[w].op \in {"update", "dates"}
    BY <1>1, OpenRequest DEF RequestOK
  <1> DEFINE p == [req[w] EXCEPT !.pc = "commit", !.id = saves + 1]
             event == Days(Saved(p))
             r == [p EXCEPT !.event = event]
  <1>3. saves + 1 \in Nat
    BY DEF TypeOK
  <1>4. /\ p \in Request /\ p.id = saves + 1 /\ p.days = req[w].days /\ p.seen = req[w].seen
        /\ p.op = req[w].op /\ p.pc = "commit" /\ p.queue = <<>>
    BY <1>2, <1>3, SavedRequest
  <1>5. event \in SUBSET Int
    BY <1>4, SavedTyped
  <1> HIDE DEF event
  <1>6. /\ r \in Request /\ r.op = p.op /\ r.pc = p.pc /\ r.id = p.id /\ r.queue = p.queue
        /\ r.event = event /\ r.days = p.days /\ r.seen = p.seen
    BY <1>4, <1>5, FetchedRequest
  <1> HIDE DEF r, p
  <1>7. RequestOK(r)
    BY <1>2, <1>4, <1>6 DEF RequestOK
  <1>8. req' = [req EXCEPT ![w] = r] /\ saves' = saves + 1
    BY DEF SaveDates, r, p, event
  <1>9. r.event = Days((rows \ req[w].seen) \cup Rows(r.id, r.days))
    BY <1>4, <1>6 DEF Saved, event
  <1> QED BY <1>2, <1>4, <1>6, <1>7, <1>8, <1>9 DEF SaveDates, others, mailing, missed

LEMMA QueueDoes ==
  ASSUME TypeOK, NEW w \in Workers, req[w] \in Request, NEW mails \in Seq(Email), Queue(w, mails)
  PROVE  \E r : /\ req' = [req EXCEPT ![w] = r]
                /\ mails = <<>> => r = None
                /\ mails # <<>> => r \in Request /\ r.op = req[w].op /\ r.pc = "send" /\ r.queue = mails
  <1> DEFINE q == [req[w] EXCEPT !.pc = "send", !.queue = mails]
  <1>1. q \in Request /\ q.op = req[w].op /\ q.pc = "send" /\ q.queue = mails
    BY SendingRequest
  <1> HIDE DEF q
  <1>2. req' = [req EXCEPT ![w] = IF mails = <<>> THEN None ELSE q]
    BY DEF Queue, q
  <1> QED BY <1>1, <1>2

LEMMA MailTyped ==
  ASSUME NEW b \in Ids, NEW event \in SUBSET Int,
         NEW kind \in Kinds
  PROVE  /\ Mail(b, kind, event) \in Email
         /\ Mail(b, kind, event).to = b /\ Mail(b, kind, event).kind = kind /\ Mail(b, kind, event).event = event
  BY DEF Mail, Email

\* A booking that is committed with this kind of answer.
Answered(w, kind, r) ==
  /\ kind \in {"booked", "waiting"}
  /\ req' = [req EXCEPT ![w] = r] /\ r \in Request /\ RequestOK(r)
  /\ r.op = "book" /\ r.pc = "send"
  /\ r.queue = <<Mail(req[w].id, kind, req[w].event)>>
  /\ booking' = [booking EXCEPT ![req[w].id] = IF kind = "booked" THEN "seat" ELSE "waiting"]
  /\ across' = IF kind = "booked" THEN Across(w, {req[w].id}) ELSE across
  /\ late' = IF kind = "booked" THEN Late({req[w].id}) ELSE late

LEMMA CommitBookingDoes ==
  ASSUME TypeOK, RequestsOK, NEW w \in Workers, CommitBooking(w)
  PROVE  /\ req[w] # None /\ req[w].op = "book" /\ req[w].pc = "commit" /\ req[w].queue = <<>> /\ req[w].id \in Ids
         /\ \E kind, r : Answered(w, kind, r)
         /\ UNCHANGED <<rows, saves, raced, lock, marked, jobs, vain, told, knows, reminded, lost>>
  <1>1. Open(w, "commit") /\ req[w].op = "book"
    BY DEF CommitBooking
  <1>2. /\ req[w] \in Request /\ RequestOK(req[w]) /\ req[w] # None /\ req[w].pc = "commit"
        /\ req[w].queue = <<>> /\ req[w].id \in Ids
    BY <1>1, OpenRequest DEF RequestOK
  <1> DEFINE kind == IF Cardinality(HasSeat) < Seats THEN "booked" ELSE "waiting"
             mails == <<Mail(req[w].id, kind, req[w].event)>>
  <1>3. kind \in {"booked", "waiting"}
    OBVIOUS
  <1>4. /\ booking' = [booking EXCEPT ![req[w].id] = IF kind = "booked" THEN "seat" ELSE "waiting"]
        /\ across' = IF kind = "booked" THEN Across(w, {req[w].id}) ELSE across
        /\ late' = IF kind = "booked" THEN Late({req[w].id}) ELSE late
        /\ Queue(w, mails)
    BY DEF CommitBooking
  <1> HIDE DEF kind
  <1>5. mails \in Seq(Email) /\ mails # <<>> /\ DOMAIN mails = {1} /\ mails[1].kind = kind
    BY <1>2, <1>3, MailTyped, KindNames, RequestFields
  <1> HIDE DEF mails
  <1>6. PICK r : /\ req' = [req EXCEPT ![w] = r]
                 /\ r \in Request /\ r.op = "book" /\ r.pc = "send" /\ r.queue = mails
    BY <1>1, <1>2, <1>4, <1>5, QueueDoes
  <1>7. RequestOK(r)
    BY <1>3, <1>5, <1>6 DEF RequestOK
  <1>8. UNCHANGED <<rows, saves, raced, lock, marked, jobs, vain, told, knows, reminded, lost>>
    BY DEF CommitBooking, dates, mailing
  <1>9. Answered(w, kind, r)
    BY <1>3, <1>4, <1>6, <1>7 DEF Answered, mails
  <1> QED BY <1>1, <1>2, <1>8, <1>9

LEMMA OneMoreInFront ==
  ASSUME NEW first \in Seq(Email), Len(first) = 1, NEW rest \in Seq(Email)
  PROVE  /\ first \o rest \in Seq(Email)
         /\ DOMAIN (first \o rest) = 1..(1 + Len(rest))
         /\ (first \o rest)[1] = first[1]
         /\ \A i \in 1..Len(rest) : (first \o rest)[i + 1] = rest[i]
  <1>1. Len(rest) \in Nat
    OBVIOUS
  <1>2. first \o rest \in Seq(Email) /\ Len(first \o rest) = 1 + Len(rest)
    BY ConcatProperties
  <1>3. DOMAIN (first \o rest) = 1..(1 + Len(rest))
    BY <1>2
  <1>4. (first \o rest)[1] = first[1]
    BY <1>1, ConcatProperties
  <1>5. ASSUME NEW i \in 1..Len(rest) PROVE (first \o rest)[i + 1] = rest[i]
    <2>1. i + 1 \in 1..(Len(first) + Len(rest)) /\ ~(i + 1 <= Len(first)) /\ (i + 1) - Len(first) = i
      BY <1>1
    <2>2. (first \o rest)[i + 1] = IF i + 1 <= Len(first) THEN first[i + 1] ELSE rest[(i + 1) - Len(first)]
      BY <2>1, ConcatProperties
    <2> QED BY <2>1, <2>2
  <1> QED BY <1>2, <1>3, <1>4, <1>5

\* The mails after a cancelation: to the one who canceled, then to whoever got the seat.
LEMMA CancelMailsToAll ==
  ASSUME NEW b \in Ids, NEW P, P \subseteq Ids, NEW event \in SUBSET Int
  PROVE  LET mails == CancelMails(b, P, event)
         IN  /\ mails \in Seq(Email) /\ mails # <<>>
             /\ \E i \in DOMAIN mails : mails[i] = Mail(b, "canceled", event)
             /\ \A c \in P : \E i \in DOMAIN mails : mails[i] = Mail(c, "promoted", event)
             /\ \A i \in DOMAIN mails : mails[i].kind \in {"canceled", "promoted"}
  <1> DEFINE first == <<Mail(b, "canceled", event)>>
             rest == MailsTo(P, "promoted", event)
             mails == CancelMails(b, P, event)
  <1>1. first \in Seq(Email) /\ Len(first) = 1 /\ first[1] = Mail(b, "canceled", event)
    BY MailTyped, KindNames
  <1>2. /\ rest \in Seq(Email) /\ DOMAIN rest = 1..Len(rest)
        /\ \A i \in DOMAIN rest : rest[i] = Mail(rest[i].to, "promoted", event)
        /\ \A c \in P : \E i \in DOMAIN rest : rest[i].to = c
    <2>1. /\ rest \in Seq(Email) /\ DOMAIN rest = 1..Len(rest)
          /\ \A i \in DOMAIN rest : rest[i] = Mail(rest[i].to, "promoted", event)
      BY MailsToAll, KindNames
    <2>2. \A c \in P : \E i \in DOMAIN rest : rest[i].to = c
      BY MailsToAll, KindNames
    <2> QED BY <2>1, <2>2
  <1>3. mails = first \o rest
    BY DEF CancelMails
  <1> HIDE DEF first, rest, mails
  <1>4. /\ mails \in Seq(Email) /\ DOMAIN mails = 1..(1 + Len(rest))
        /\ mails[1] = first[1]
        /\ \A i \in 1..Len(rest) : mails[i + 1] = rest[i]
    BY <1>1, <1>2, <1>3, OneMoreInFront
  <1>5. Len(rest) \in Nat
    BY <1>2
  <1>6. \A i \in DOMAIN mails : i = 1 \/ (i - 1 \in DOMAIN rest /\ mails[i] = rest[i - 1])
    <2> SUFFICES ASSUME NEW i \in DOMAIN mails, i # 1 PROVE i - 1 \in DOMAIN rest /\ mails[i] = rest[i - 1]
      OBVIOUS
    <2>1. i \in Int /\ i - 1 \in 1..Len(rest) /\ (i - 1) + 1 = i
      BY <1>4, <1>5
    <2> QED BY <1>2, <1>4, <2>1
  <1>7. \A c \in P : \E i \in DOMAIN mails : mails[i] = Mail(c, "promoted", event)
    <2> TAKE c \in P
    <2>1. PICK i \in DOMAIN rest : rest[i].to = c
      BY <1>2
    <2>2. i + 1 \in DOMAIN mails /\ mails[i + 1] = rest[i]
      BY <1>2, <1>4, <1>5, <2>1
    <2> QED BY <1>2, <2>1, <2>2
  <1>8. 1 \in DOMAIN mails /\ mails # <<>>
    BY <1>4, <1>5
  <1>9. \A i \in DOMAIN mails : mails[i].kind \in {"canceled", "promoted"}
    <2> TAKE i \in DOMAIN mails
    <2>1. CASE i = 1
      <3>1. mails[i] = Mail(b, "canceled", event)
        BY <1>1, <1>4, <2>1
      <3> QED BY <3>1 DEF Mail
    <2>2. CASE i # 1
      <3>1. i - 1 \in DOMAIN rest /\ mails[i] = rest[i - 1]
        BY <1>6, <2>2
      <3>2. rest[i - 1] = Mail(rest[i - 1].to, "promoted", event)
        BY <1>2, <3>1
      <3>3. rest[i - 1].kind = "promoted"
        BY <3>2 DEF Mail
      <3> QED BY <3>1, <3>3
    <2> QED BY <2>1, <2>2
  <1> QED BY <1>1, <1>4, <1>7, <1>8, <1>9 DEF mails

LEMMA CommitCancelDoes ==
  ASSUME TypeOK, RequestsOK, NEW w \in Workers, CommitCancel(w)
  PROVE  LET b == req[w].id
             mails == CancelMails(b, Promoted(b), req[w].event)
         IN  /\ req[w] # None /\ req[w].op = "cancel" /\ req[w].pc = "commit" /\ req[w].queue = <<>>
             /\ b \in Ids /\ Promoted(b) \subseteq Waiting /\ req[w].event \in SUBSET Int
             /\ \E r : /\ req' = [req EXCEPT ![w] = r] /\ r \in Request /\ RequestOK(r)
                       /\ r.op = "cancel" /\ r.pc = "send" /\ r.queue = mails
             /\ booking' = [c \in Ids |-> IF c = b THEN "canceled" ELSE IF c \in Promoted(b) THEN "seat" ELSE booking[c]]
             /\ across' = Across(w, Promoted(b)) /\ late' = Late(Promoted(b))
             /\ UNCHANGED <<rows, saves, raced, lock, marked, jobs, vain, told, knows, reminded, lost>>
  <1> DEFINE b == req[w].id
             mails == CancelMails(b, Promoted(b), req[w].event)
  <1>1. Open(w, "commit") /\ req[w].op = "cancel"
    BY DEF CommitCancel
  <1>2. /\ req[w] \in Request /\ RequestOK(req[w]) /\ req[w] # None /\ req[w].pc = "commit"
        /\ req[w].queue = <<>> /\ b \in Ids /\ req[w].event \in SUBSET Int
    BY <1>1, OpenRequest, RequestFields DEF RequestOK
  <1>3. Promoted(b) \subseteq Waiting /\ Waiting \subseteq Ids
    BY DEF Promoted, Waiting
  <1>4. /\ mails \in Seq(Email) /\ mails # <<>>
        /\ \A i \in DOMAIN mails : mails[i].kind \in {"canceled", "promoted"}
    BY <1>2, <1>3, CancelMailsToAll
  <1>5. Queue(w, mails)
    BY DEF CommitCancel
  <1> HIDE DEF mails
  <1>6. PICK r : /\ req' = [req EXCEPT ![w] = r]
                 /\ r \in Request /\ r.op = "cancel" /\ r.pc = "send" /\ r.queue = mails
    BY <1>1, <1>2, <1>4, <1>5, QueueDoes
  <1>7. RequestOK(r)
    BY <1>4, <1>6 DEF RequestOK
  <1>8. /\ booking' = [c \in Ids |-> IF c = b THEN "canceled" ELSE IF c \in Promoted(b) THEN "seat" ELSE booking[c]]
        /\ across' = Across(w, Promoted(b)) /\ late' = Late(Promoted(b))
        /\ UNCHANGED <<rows, saves, raced, lock, marked, jobs, vain, told, knows, reminded, lost>>
    BY DEF CommitCancel, dates, mailing
  <1> QED BY <1>1, <1>2, <1>3, <1>6, <1>7, <1>8 DEF mails

LEMMA CommitDatesDoes ==
  ASSUME TypeOK, RequestsOK, NEW w \in Workers, CommitDates(w)
  PROVE  /\ req[w] # None /\ req[w].pc = "commit" /\ req[w].queue = <<>> /\ w \in Saving
         /\ \E r : /\ req' = [req EXCEPT ![w] = r] /\ r \in Request /\ RequestOK(r)
                   /\ r.op = "update" /\ r.pc = "list" /\ r.queue = <<>> /\ r.event = req[w].event
         /\ rows' = Saved(req[w]) /\ rows' \in SUBSET Row
         /\ lock' = IF lock = w THEN None ELSE lock
         /\ UNCHANGED <<others, saves, raced, jobs, vain>>
  <1>1. Open(w, "commit") /\ w \in Saving
    BY DEF CommitDates
  <1>2. /\ req[w] \in Request /\ RequestOK(req[w]) /\ req[w] # None /\ req[w].pc = "commit"
        /\ req[w].queue = <<>> /\ req[w].event \in SUBSET Int
    BY <1>1, OpenRequest, RequestFields
  <1> DEFINE r == [NoRequest EXCEPT !.op = "update", !.pc = "list", !.event = req[w].event]
  <1>3. r \in Request /\ r.op = "update" /\ r.pc = "list" /\ r.event = req[w].event /\ r.queue = <<>>
    BY <1>2, ToldRequest
  <1>4. req' = [req EXCEPT ![w] = r]
    BY DEF CommitDates
  <1> HIDE DEF r
  <1>5. RequestOK(r)
    BY <1>3 DEF RequestOK
  <1>6. rows' = Saved(req[w]) /\ rows' \in SUBSET Row
    BY <1>2, SavedTyped DEF CommitDates
  <1>7. lock' = (IF lock = w THEN None ELSE lock) /\ UNCHANGED <<others, saves, raced, jobs, vain>>
    BY DEF CommitDates, others, mailing, missed
  <1> QED BY <1>1, <1>2, <1>3, <1>4, <1>5, <1>6, <1>7

LEMMA HasSeatIds == HasSeat \subseteq Ids
  BY DEF HasSeat

LEMMA ListAttendeesDoes ==
  ASSUME TypeOK, RequestsOK, NEW w \in Workers, ListAttendees(w)
  PROVE  /\ req[w] # None /\ req[w].pc = "list" /\ req[w].op \in {"update", "dates"} /\ req[w].queue = <<>>
         /\ req[w].event \in SUBSET Int
         /\ \E r : /\ req' = [req EXCEPT ![w] = r]
                   /\ HasSeat = {} => r = None
                   /\ HasSeat # {} => /\ r \in Request /\ RequestOK(r) /\ r.op = req[w].op /\ r.pc = "send"
                                      /\ r.queue = MailsTo(HasSeat, "schedule", req[w].event)
         /\ UNCHANGED <<others, rows, saves, raced, lock, jobs, vain>>
  <1>1. Open(w, "list")
    BY DEF ListAttendees
  <1>2. /\ req[w] \in Request /\ RequestOK(req[w]) /\ req[w] # None /\ req[w].pc = "list"
        /\ req[w].queue = <<>> /\ req[w].op \in {"update", "dates"} /\ req[w].event \in SUBSET Int
    BY <1>1, OpenRequest, RequestFields DEF RequestOK
  <1> DEFINE event == req[w].event
             mails == MailsTo(HasSeat, "schedule", event)
  <1>3. event \in SUBSET Int
    BY <1>2
  <1> HIDE DEF event
  <1>4. mails \in Seq(Email) /\ (mails = <<>> <=> HasSeat = {})
    BY <1>3, HasSeatIds, MailsToAll, KindNames
  <1>5. \A i \in DOMAIN mails : mails[i].kind = "schedule"
    <2>1. \A i \in DOMAIN mails : mails[i] = Mail(mails[i].to, "schedule", event)
      BY <1>3, HasSeatIds, MailsToAll, KindNames
    <2> QED BY <2>1 DEF Mail
  <1>6. Queue(w, mails)
    BY DEF ListAttendees, event
  <1> HIDE DEF mails
  <1>7. PICK r : /\ req' = [req EXCEPT ![w] = r]
                 /\ mails = <<>> => r = None
                 /\ mails # <<>> => r \in Request /\ r.op = req[w].op /\ r.pc = "send" /\ r.queue = mails
    BY <1>2, <1>4, <1>6, QueueDoes
  <1>8. mails # <<>> => RequestOK(r)
    BY <1>2, <1>5, <1>7 DEF RequestOK
  <1>9. UNCHANGED <<others, rows, saves, raced, lock, jobs, vain>>
    BY DEF ListAttendees, dates, others, mailing, missed
  <1> QED BY <1>2, <1>4, <1>7, <1>8, <1>9 DEF mails, event

LEMMA FetchSubscribersDoes ==
  ASSUME TypeOK, RequestsOK, NEW w \in Workers, FetchSubscribers(w)
  PROVE  /\ req[w] # None /\ req[w].pc = "fetch" /\ req[w].op = "remind" /\ req[w].queue = <<>>
         /\ \E r : /\ req' = [req EXCEPT ![w] = r] /\ r \in Request /\ RequestOK(r)
                   /\ r.op = "remind" /\ r.pc = (IF HasSeat = {} THEN "mark" ELSE "send")
                   /\ r.queue = MailsTo(HasSeat, "reminder", {})
         /\ UNCHANGED <<others, rows, saves, raced, lock, jobs, vain>>
  <1>1. Open(w, "fetch")
    BY DEF FetchSubscribers
  <1>2. /\ req[w] \in Request /\ RequestOK(req[w]) /\ req[w] # None /\ req[w].pc = "fetch"
        /\ req[w].queue = <<>> /\ req[w].op = "remind"
    BY <1>1, OpenRequest DEF RequestOK
  <1> DEFINE mails == MailsTo(HasSeat, "reminder", {})
             pc == IF HasSeat = {} THEN "mark" ELSE "send"
             r == [req[w] EXCEPT !.pc = pc, !.queue = mails]
  <1>3. mails \in Seq(Email) /\ (mails = <<>> <=> HasSeat = {})
    BY HasSeatIds, MailsToAll, KindNames
  <1>4. \A i \in DOMAIN mails : mails[i].kind = "reminder"
    <2>1. \A i \in DOMAIN mails : mails[i] = Mail(mails[i].to, "reminder", {})
      BY HasSeatIds, MailsToAll, KindNames
    <2> QED BY <2>1 DEF Mail
  <1>5. HasSeat # {} => \E i \in DOMAIN mails : mails[i].kind = "reminder"
    BY <1>3, <1>4, HeadAndRest
  <1>6. req' = [req EXCEPT ![w] = r]
    BY DEF FetchSubscribers, TypeOK
  <1>7. pc \in {"send", "mark"} /\ (pc = "mark" <=> HasSeat = {})
    OBVIOUS
  <1> HIDE DEF mails, pc
  <1>8. r \in Request /\ r.op = "remind" /\ r.pc = pc /\ r.queue = mails
    BY <1>2, <1>3, <1>7 DEF Request
  <1> HIDE DEF r
  <1>9. RequestOK(r)
    BY <1>3, <1>4, <1>5, <1>7, <1>8 DEF RequestOK
  <1>10. UNCHANGED <<others, rows, saves, raced, lock, jobs, vain>>
    BY DEF FetchSubscribers, dates, others, mailing, missed
  <1> QED BY <1>2, <1>6, <1>8, <1>9, <1>10 DEF mails, pc

LEMMA MarkReminderSentDoes ==
  ASSUME TypeOK, RequestsOK, NEW w \in Workers, MarkReminderSent(w)
  PROVE  /\ req[w] # None /\ req[w].pc = "mark" /\ req[w].op = "remind" /\ req[w].queue = <<>>
         /\ req' = [req EXCEPT ![w] = None] /\ marked' = TRUE
         /\ UNCHANGED <<booking, told, knows, reminded, lost, across, late, rows, saves, raced, lock, jobs, vain>>
  <1>1. Open(w, "mark")
    BY DEF MarkReminderSent
  <1>2. RequestOK(req[w]) /\ req[w] # None /\ req[w].pc = "mark" /\ req[w].queue = <<>> /\ req[w].op = "remind"
    BY <1>1, OpenRequest DEF RequestOK
  <1> QED BY <1>2 DEF MarkReminderSent, End, dates, mailing, missed

LEMMA SendMailDoes ==
  ASSUME TypeOK, RequestsOK, NEW w \in Workers, SendMail(w)
  PROVE  LET mail == Head(req[w].queue)
             rest == Tail(req[w].queue)
         IN  /\ req[w] # None /\ req[w].pc = "send" /\ req[w].queue # <<>> /\ req[w].queue \in Seq(Email)
             /\ req[w].op = "remind" => mail.kind = "reminder"
             /\ req[w].op # "remind" => mail.kind # "reminder"
             /\ \E r : /\ req' = [req EXCEPT ![w] = r]
                       /\ \/ r = None /\ rest = <<>> /\ req[w].op # "remind"
                          \/ /\ r \in Request /\ RequestOK(r) /\ r.op = req[w].op /\ r.queue = rest
                             /\ \/ rest # <<>> /\ r.pc = "send"
                                \/ rest = <<>> /\ r.pc = "mark" /\ r.op = "remind"
             /\ told' = IF mail.kind \in {"reminder", "schedule"} THEN told
                        ELSE [told EXCEPT ![mail.to] = @ \cup {mail.kind}]
             /\ knows' = IF mail.kind \notin {"booked", "promoted", "schedule"} THEN knows
                         ELSE [knows EXCEPT ![mail.to] = @ \cup {mail.event}]
             /\ reminded' = [reminded EXCEPT ![mail.to] = IF mail.kind = "reminder" THEN @ + 1 ELSE @]
             /\ UNCHANGED <<booking, marked, lost, across, late, rows, saves, raced, lock, jobs, vain>>
  <1> DEFINE mails == req[w].queue
             mail == Head(mails)
             rest == Tail(mails)
  <1>1. Open(w, "send")
    BY DEF SendMail
  <1>2. /\ req[w] \in Request /\ RequestOK(req[w]) /\ req[w] # None /\ req[w].pc = "send"
        /\ mails # <<>> /\ mails \in Seq(Email)
    BY <1>1, OpenRequest, RequestFields
  <1>3. /\ 1 \in DOMAIN mails /\ mail = mails[1] /\ rest \in Seq(Email)
        /\ \A i \in DOMAIN rest : i + 1 \in DOMAIN mails /\ rest[i] = mails[i + 1]
        /\ rest # <<>> => 1 \in DOMAIN rest
    BY <1>2, HeadAndRest
  <1>4. /\ told' = IF mail.kind \in {"reminder", "schedule"} THEN told
                   ELSE [told EXCEPT ![mail.to] = @ \cup {mail.kind}]
        /\ knows' = IF mail.kind \notin {"booked", "promoted", "schedule"} THEN knows
                    ELSE [knows EXCEPT ![mail.to] = @ \cup {mail.event}]
        /\ reminded' = [reminded EXCEPT ![mail.to] = IF mail.kind = "reminder" THEN @ + 1 ELSE @]
        /\ req' = [req EXCEPT ![w] = IF rest # <<>> THEN [req[w] EXCEPT !.queue = rest]
                     ELSE IF req[w].op = "remind" THEN [req[w] EXCEPT !.pc = "mark", !.queue = <<>>]
                     ELSE None]
        /\ UNCHANGED <<booking, marked, lost, across, late, rows, saves, raced, lock, jobs, vain>>
    BY DEF SendMail, dates, missed
  <1>5. /\ req[w].op = "remind" => \A i \in DOMAIN mails : mails[i].kind = "reminder"
        /\ req[w].op # "remind" => \A i \in DOMAIN mails : mails[i].kind # "reminder"
    BY <1>2 DEF RequestOK
  <1> HIDE DEF mails, mail, rest
  <1>6. /\ req[w].op = "remind" => mail.kind = "reminder" /\ \A i \in DOMAIN rest : rest[i].kind = "reminder"
        /\ req[w].op # "remind" => mail.kind # "reminder" /\ \A i \in DOMAIN rest : rest[i].kind # "reminder"
    BY <1>3, <1>5
  <1>7. \E r : /\ req' = [req EXCEPT ![w] = r]
               /\ \/ r = None /\ rest = <<>> /\ req[w].op # "remind"
                  \/ /\ r \in Request /\ RequestOK(r) /\ r.op = req[w].op /\ r.queue = rest
                     /\ \/ rest # <<>> /\ r.pc = "send"
                        \/ rest = <<>> /\ r.pc = "mark" /\ r.op = "remind"
    <2>1. CASE rest # <<>>
      <3> DEFINE r == [req[w] EXCEPT !.queue = rest]
      <3>1. r \in Request /\ r.op = req[w].op /\ r.pc = "send" /\ r.queue = rest /\ r.id = req[w].id
        BY <1>2, <1>3, RestRequest
      <3>2. req' = [req EXCEPT ![w] = r]
        BY <1>4, <2>1
      <3> HIDE DEF r
      <3>3. RequestOK(r)
        BY <1>2, <1>3, <1>6, <2>1, <3>1 DEF RequestOK
      <3> QED BY <2>1, <3>1, <3>2, <3>3
    <2>2. CASE rest = <<>> /\ req[w].op = "remind"
      <3> DEFINE r == [req[w] EXCEPT !.pc = "mark", !.queue = <<>>]
      <3>1. <<>> \in Seq(Email)
        OBVIOUS
      <3>2. r \in Request /\ r.op = req[w].op /\ r.pc = "mark" /\ r.queue = <<>>
        BY <1>2, <3>1, SendingRequest
      <3>3. req' = [req EXCEPT ![w] = r]
        BY <1>4, <2>2
      <3> HIDE DEF r
      <3>4. RequestOK(r)
        BY <2>2, <3>2 DEF RequestOK
      <3> QED BY <2>2, <3>2, <3>3, <3>4
    <2>3. CASE rest = <<>> /\ req[w].op # "remind"
      BY <1>4, <2>3
    <2> QED BY <2>1, <2>2, <2>3
  <1> QED BY <1>2, <1>4, <1>6, <1>7 DEF mails, mail, rest

LEMMA FailDoes ==
  ASSUME TypeOK, RequestsOK, NEW w \in Workers, Fail(w)
  PROVE  /\ req[w] # None /\ req' = [req EXCEPT ![w] = None]
         /\ lock' = IF lock = w THEN None ELSE lock
         /\ lost' = IF req[w].op = "remind" THEN lost ELSE lost \cup Recipients(w)
         /\ vain' = IF req[w].op = "remind" THEN vain + 1 ELSE vain
         /\ UNCHANGED <<rows, saves, raced, booking, marked, jobs, told, knows, reminded, across, late>>
  BY DEF Fail, Failed, TypeOK, missed

-----------------------------------------------------------------------------
(* Types                                                                    *)

LEMMA TypeInit == Init => TypeOK /\ RequestsOK
  <1> SUFFICES ASSUME Init PROVE TypeOK /\ RequestsOK
    OBVIOUS
  <1>1. PICK days \in Schedules : rows = Rows(0, days)
    BY DEF Init
  <1>2. rows \in SUBSET Row
    <2>1. days \in Seq(Int)
      BY SchedulesAssumption
    <2> QED BY <1>1, <2>1, RowsTyped
  <1>3. req = [w \in Workers |-> None]
    BY DEF Init
  <1>4. RequestsOK
    BY <1>3 DEF RequestsOK
  <1>5. TypeOK
    BY <1>2, <1>3 DEF Init, TypeOK
  <1> QED BY <1>4, <1>5

LEMMA TypeStep ==
  ASSUME TypeOK, RequestsOK, NEW w \in Workers,
         \/ BeginBooking(w) \/ CommitBooking(w) \/ BeginCancel(w) \/ CommitCancel(w)
         \/ BeginUpdate(w) \/ UpdateColumns(w) \/ ReadDates(w) \/ DeleteDates(w) \/ SaveDates(w)
         \/ CommitDates(w) \/ ListAttendees(w)
         \/ BeginReminders(w) \/ FetchSubscribers(w) \/ MarkReminderSent(w)
         \/ SendMail(w) \/ Fail(w)
  PROVE  TypeOK' /\ RequestsOK' 
  <1>1. CASE BeginBooking(w)
    <2>1. PICK r : req' = [req EXCEPT ![w] = r] /\ (r = None \/ (r \in Request /\ RequestOK(r)))
      BY <1>1, BeginBookingDoes
    <2>2. req' \in [Workers -> Request \cup {None}] /\ RequestsOK'
      BY <2>1, OneRequest
    <2> QED BY <1>1, <2>2, BeginBookingDoes DEF TypeOK, others
  <1>2. CASE BeginCancel(w)
    <2>1. PICK r : req' = [req EXCEPT ![w] = r] /\ (r = None \/ (r \in Request /\ RequestOK(r)))
      BY <1>2, BeginCancelDoes
    <2>2. req' \in [Workers -> Request \cup {None}] /\ RequestsOK'
      BY <2>1, OneRequest
    <2> QED BY <1>2, <2>2, BeginCancelDoes DEF TypeOK, others
  <1>3. CASE BeginUpdate(w)
    <2>1. PICK r : req' = [req EXCEPT ![w] = r] /\ (r = None \/ (r \in Request /\ RequestOK(r)))
      BY <1>3, BeginUpdateDoes
    <2>2. req' \in [Workers -> Request \cup {None}] /\ RequestsOK'
      BY <2>1, OneRequest
    <2> QED BY <1>3, <2>2, BeginUpdateDoes DEF TypeOK, others
  <1>4. CASE UpdateColumns(w)
    <2>1. PICK r : req' = [req EXCEPT ![w] = r] /\ (r = None \/ (r \in Request /\ RequestOK(r)))
      BY <1>4, UpdateColumnsDoes
    <2>2. req' \in [Workers -> Request \cup {None}] /\ RequestsOK'
      BY <2>1, OneRequest
    <2> QED BY <1>4, <2>2, UpdateColumnsDoes DEF TypeOK, others
  <1>5. CASE ReadDates(w)
    <2>1. PICK r : req' = [req EXCEPT ![w] = r] /\ (r = None \/ (r \in Request /\ RequestOK(r)))
      BY <1>5, ReadDatesDoes
    <2>2. req' \in [Workers -> Request \cup {None}] /\ RequestsOK'
      BY <2>1, OneRequest
    <2> QED BY <1>5, <2>2, ReadDatesDoes DEF TypeOK, others
  <1>6. CASE DeleteDates(w)
    <2>1. PICK r : req' = [req EXCEPT ![w] = r] /\ (r = None \/ (r \in Request /\ RequestOK(r)))
      BY <1>6, DeleteDatesDoes
    <2>2. req' \in [Workers -> Request \cup {None}] /\ RequestsOK'
      BY <2>1, OneRequest
    <2> QED BY <1>6, <2>2, DeleteDatesDoes DEF TypeOK, others
  <1>7. CASE SaveDates(w)
    <2>1. PICK r : req' = [req EXCEPT ![w] = r] /\ (r = None \/ (r \in Request /\ RequestOK(r)))
      BY <1>7, SaveDatesDoes
    <2>2. req' \in [Workers -> Request \cup {None}] /\ RequestsOK'
      BY <2>1, OneRequest
    <2> QED BY <1>7, <2>2, SaveDatesDoes DEF TypeOK, others
  <1>8. CASE CommitDates(w)
    <2>1. PICK r : req' = [req EXCEPT ![w] = r] /\ (r = None \/ (r \in Request /\ RequestOK(r)))
      BY <1>8, CommitDatesDoes
    <2>2. req' \in [Workers -> Request \cup {None}] /\ RequestsOK'
      BY <2>1, OneRequest
    <2> QED BY <1>8, <2>2, CommitDatesDoes DEF TypeOK, others
  <1>9. CASE ListAttendees(w)
    <2>1. PICK r : req' = [req EXCEPT ![w] = r] /\ (r = None \/ (r \in Request /\ RequestOK(r)))
      BY <1>9, ListAttendeesDoes
    <2>2. req' \in [Workers -> Request \cup {None}] /\ RequestsOK'
      BY <2>1, OneRequest
    <2> QED BY <1>9, <2>2, ListAttendeesDoes DEF TypeOK, others
  <1>10. CASE BeginReminders(w)
    <2>1. PICK r : req' = [req EXCEPT ![w] = r] /\ (r = None \/ (r \in Request /\ RequestOK(r)))
      BY <1>10, BeginRemindersDoes
    <2>2. req' \in [Workers -> Request \cup {None}] /\ RequestsOK'
      BY <2>1, OneRequest
    <2> QED BY <1>10, <2>2, BeginRemindersDoes DEF TypeOK, others
  <1>11. CASE FetchSubscribers(w)
    <2>1. PICK r : req' = [req EXCEPT ![w] = r] /\ (r = None \/ (r \in Request /\ RequestOK(r)))
      BY <1>11, FetchSubscribersDoes
    <2>2. req' \in [Workers -> Request \cup {None}] /\ RequestsOK'
      BY <2>1, OneRequest
    <2> QED BY <1>11, <2>2, FetchSubscribersDoes DEF TypeOK, others
  <1>12. CASE CommitBooking(w)
    <2>0. PICK kind, r : Answered(w, kind, r)
      BY <1>12, CommitBookingDoes
    <2>1. /\ req' = [req EXCEPT ![w] = r] /\ r \in Request /\ RequestOK(r)
          /\ booking' = [booking EXCEPT ![req[w].id] = IF kind = "booked" THEN "seat" ELSE "waiting"]
      BY <2>0 DEF Answered
    <2>2. req' \in [Workers -> Request \cup {None}] /\ RequestsOK'
      BY <2>1, OneRequest
    <2>3. booking' \in [Ids -> {"none", "waiting", "seat", "canceled"}]
      BY <2>1 DEF TypeOK
    <2> QED BY <1>12, <2>2, <2>3, CommitBookingDoes DEF TypeOK
  <1>13. CASE CommitCancel(w)
    <2>1. PICK r : req' = [req EXCEPT ![w] = r] /\ r \in Request /\ RequestOK(r)
      BY <1>13, CommitCancelDoes
    <2>2. req' \in [Workers -> Request \cup {None}] /\ RequestsOK'
      BY <2>1, OneRequest
    <2>3. booking' \in [Ids -> {"none", "waiting", "seat", "canceled"}]
      BY <1>13, CommitCancelDoes DEF TypeOK
    <2> QED BY <1>13, <2>2, <2>3, CommitCancelDoes DEF TypeOK
  <1>14. CASE MarkReminderSent(w)
    <2>1. req' \in [Workers -> Request \cup {None}] /\ RequestsOK'
      BY <1>14, MarkReminderSentDoes, OneRequest
    <2> QED BY <1>14, <2>1, MarkReminderSentDoes DEF TypeOK
  <1>15. CASE SendMail(w)
    <2> DEFINE mail == Head(req[w].queue)
    <2>1. PICK r : req' = [req EXCEPT ![w] = r] /\ (r = None \/ (r \in Request /\ RequestOK(r)))
      BY <1>15, SendMailDoes
    <2>2. req' \in [Workers -> Request \cup {None}] /\ RequestsOK'
      BY <2>1, OneRequest
    <2>3. mail \in Email
      BY <1>15, SendMailDoes, HeadAndRest
    <2>4. mail.to \in Ids /\ mail.kind \in Kinds /\ mail.event \in SUBSET Int
      BY <2>3 DEF Email
    <2>5. /\ told' = IF mail.kind \in {"reminder", "schedule"} THEN told
                     ELSE [told EXCEPT ![mail.to] = @ \cup {mail.kind}]
          /\ knows' = IF mail.kind \notin {"booked", "promoted", "schedule"} THEN knows
                      ELSE [knows EXCEPT ![mail.to] = @ \cup {mail.event}]
          /\ reminded' = [reminded EXCEPT ![mail.to] = IF mail.kind = "reminder" THEN @ + 1 ELSE @]
          /\ UNCHANGED <<booking, marked, lost, across, late, rows, saves, raced, lock, jobs, vain>>
      BY <1>15, SendMailDoes
    <2> HIDE DEF mail
    <2>6. told' \in [Ids -> SUBSET Kinds]
      BY <2>4, <2>5 DEF TypeOK
    <2>7. knows' \in [Ids -> SUBSET SUBSET Int]
      BY <2>4, <2>5 DEF TypeOK
    <2>8. reminded' \in [Ids -> Nat]
      BY <2>4, <2>5 DEF TypeOK
    <2> QED BY <2>2, <2>5, <2>6, <2>7, <2>8 DEF TypeOK
  <1>16. CASE Fail(w)
    <2>1. req' \in [Workers -> Request \cup {None}] /\ RequestsOK'
      BY <1>16, FailDoes, OneRequest
    <2> QED BY <1>16, <2>1, FailDoes DEF TypeOK
  <1> QED BY <1>1, <1>2, <1>3, <1>4, <1>5, <1>6, <1>7, <1>8, <1>9, <1>10, <1>11, <1>12, <1>13, <1>14, <1>15, <1>16

-----------------------------------------------------------------------------
(* The dates                                                                *)

LEMMA SavingOfOne ==
  ASSUME TypeOK, NEW w \in Workers, NEW r, req' = [req EXCEPT ![w] = r]
  PROVE  /\ \A v \in Workers \ {w} : v \in Saving' <=> v \in Saving
         /\ w \in Saving' <=> /\ r # None /\ r.op \in {"update", "dates"}
                              /\ r.pc \in {"columns", "read", "delete", "save", "commit"}
         /\ req'[w] = r /\ \A v \in Workers \ {w} : req'[v] = req[v]
         /\ Saving \subseteq Workers /\ Saving' \subseteq Workers
  <1>1. req'[w] = r /\ \A v \in Workers \ {w} : req'[v] = req[v]
    BY DEF TypeOK
  <1> QED BY <1>1 DEF Saving

\* A step of a request that saves no dates afterwards, or none at all.
LEMMA DatesElsewhere ==
  ASSUME TypeOK, DatesOK, NEW w \in Workers, NEW r, req' = [req EXCEPT ![w] = r],
         r = None \/ r.op \notin {"update", "dates"} \/ r.pc \notin {"columns", "read", "delete", "save", "commit"},
         rows' = rows, raced' = raced, lock' \in {lock, IF lock = w THEN None ELSE lock}
  PROVE  DatesOK'
  <1>1. /\ w \notin Saving' /\ Saving' \subseteq Workers
        /\ \A v \in Saving' : v \in Saving /\ v # w /\ req'[v] = req[v]
    BY SavingOfOne
  <1>2. ~raced' => \A v, u \in Saving' : v = u \/ req'[u].op = "update"
    BY <1>1 DEF DatesOK
  <1>3. \A v \in Saving' : (req'[v].op = "update" /\ req'[v].pc # "columns") => lock' = v
    BY <1>1 DEF DatesOK
  <1>4. ~raced' => \A v \in Saving' :
          /\ req'[v].pc \in {"save", "commit"} => req'[v].seen = rows'
          /\ req'[v].pc = "commit" => req'[v].event = Days(Rows(req'[v].id, req'[v].days))
    BY <1>1 DEF DatesOK
  <1>5. DatesAreOfOneSave'
    BY DEF DatesOK, DatesAreOfOneSave
  <1> QED BY <1>2, <1>3, <1>4, <1>5 DEF DatesOK, Days

\* A step of a transaction that goes on.
LEMMA DatesOfOne ==
  ASSUME TypeOK, DatesOK, NEW w \in Workers, NEW r, req' = [req EXCEPT ![w] = r], r # None,
         w \in Saving, r.op = req[w].op,
         rows' = rows, raced' = raced,
         r.op = "update" => lock' = w /\ lock \in {w, None},
         r.op # "update" => lock' = lock,
         ~raced => /\ r.pc \in {"save", "commit"} => r.seen = rows
                   /\ r.pc = "commit" => r.event = Days(Rows(r.id, r.days))
  PROVE  DatesOK'
  <1>1. /\ Saving' \subseteq Workers /\ req'[w] = r
        /\ \A v \in Saving' \ {w} : v \in Saving /\ v # w /\ req'[v] = req[v]
    BY SavingOfOne
  <1>2. ~raced' => \A v, u \in Saving' : v = u \/ req'[u].op = "update"
    <2> SUFFICES ASSUME ~raced', NEW v \in Saving', NEW u \in Saving', v # u PROVE req'[u].op = "update"
      OBVIOUS
    <2>1. v \in Saving /\ u \in Saving
      BY <1>1
    <2>2. req[u].op = "update"
      BY <2>1 DEF DatesOK
    <2> QED BY <1>1, <2>2
  <1>3. \A v \in Saving' : (req'[v].op = "update" /\ req'[v].pc # "columns") => lock' = v
    <2> SUFFICES ASSUME NEW v \in Saving', req'[v].op = "update", req'[v].pc # "columns" PROVE lock' = v
      OBVIOUS
    <2>1. CASE v = w
      BY <1>1, <2>1
    <2>2. CASE v # w
      <3>1. lock = v
        BY <1>1, <2>2 DEF DatesOK
      <3>2. v # None /\ v # w
        BY <1>1, <2>2, WorkersAssumption
      <3> QED BY <3>1, <3>2
    <2> QED BY <2>1, <2>2
  <1>4. ~raced' => \A v \in Saving' :
          /\ req'[v].pc \in {"save", "commit"} => req'[v].seen = rows'
          /\ req'[v].pc = "commit" => req'[v].event = Days(Rows(req'[v].id, req'[v].days))
    BY <1>1 DEF DatesOK
  <1>5. DatesAreOfOneSave'
    BY DEF DatesOK, DatesAreOfOneSave
  <1> QED BY <1>2, <1>3, <1>4, <1>5 DEF DatesOK, Days

LEMMA RowsOfOneSave ==
  ASSUME NEW save, NEW days
  PROVE  \A r, s \in Rows(save, days) : r.save = s.save
  BY DEF Rows

LEMMA DatesStep ==
  ASSUME TypeOK, RequestsOK, DatesOK, NEW w \in Workers,
         \/ BeginBooking(w) \/ CommitBooking(w) \/ BeginCancel(w) \/ CommitCancel(w)
         \/ BeginUpdate(w) \/ UpdateColumns(w) \/ ReadDates(w) \/ DeleteDates(w) \/ SaveDates(w)
         \/ CommitDates(w) \/ ListAttendees(w)
         \/ BeginReminders(w) \/ FetchSubscribers(w) \/ MarkReminderSent(w)
         \/ SendMail(w) \/ Fail(w)
  PROVE  DatesOK' 
  <1>1. CASE BeginBooking(w)
    <2>1. /\ \E r : req' = [req EXCEPT ![w] = r] /\ r.op = "book"
          /\ rows' = rows /\ raced' = raced /\ lock' = lock
      BY <1>1, BeginBookingDoes
    <2> QED BY <2>1, DatesElsewhere
  <1>2. CASE BeginCancel(w)
    <2>1. /\ \E r : req' = [req EXCEPT ![w] = r] /\ r.op = "cancel"
          /\ rows' = rows /\ raced' = raced /\ lock' = lock
      BY <1>2, BeginCancelDoes
    <2> QED BY <2>1, DatesElsewhere
  <1>3. CASE CommitBooking(w)
    <2>0. PICK kind, r : Answered(w, kind, r)
      BY <1>3, CommitBookingDoes
    <2>1. /\ req' = [req EXCEPT ![w] = r] /\ r.op = "book"
          /\ rows' = rows /\ raced' = raced /\ lock' = lock
      BY <1>3, <2>0, CommitBookingDoes DEF Answered
    <2> QED BY <2>1, DatesElsewhere
  <1>4. CASE CommitCancel(w)
    <2>1. /\ \E r : req' = [req EXCEPT ![w] = r] /\ r.op = "cancel"
          /\ rows' = rows /\ raced' = raced /\ lock' = lock
      BY <1>4, CommitCancelDoes
    <2> QED BY <2>1, DatesElsewhere
  <1>5. CASE ListAttendees(w)
    <2>1. /\ \E r : req' = [req EXCEPT ![w] = r] /\ (r = None \/ r.pc = "send")
          /\ rows' = rows /\ raced' = raced /\ lock' = lock
      BY <1>5, ListAttendeesDoes
    <2> QED BY <2>1, DatesElsewhere
  <1>6. CASE BeginReminders(w)
    <2>1. /\ \E r : req' = [req EXCEPT ![w] = r] /\ r.op = "remind"
          /\ rows' = rows /\ raced' = raced /\ lock' = lock
      BY <1>6, BeginRemindersDoes
    <2> QED BY <2>1, DatesElsewhere
  <1>7. CASE FetchSubscribers(w)
    <2>1. /\ \E r : req' = [req EXCEPT ![w] = r] /\ r.op = "remind"
          /\ rows' = rows /\ raced' = raced /\ lock' = lock
      BY <1>7, FetchSubscribersDoes
    <2> QED BY <2>1, DatesElsewhere
  <1>8. CASE SendMail(w)
    <2>1. /\ \E r : req' = [req EXCEPT ![w] = r] /\ (r = None \/ r.pc \in {"send", "mark"})
          /\ rows' = rows /\ raced' = raced /\ lock' = lock
      BY <1>8, SendMailDoes
    <2> QED BY <2>1, DatesElsewhere
  <1>9. CASE MarkReminderSent(w)
    BY <1>9, MarkReminderSentDoes, DatesElsewhere
  <1>10. CASE Fail(w)
    BY <1>10, FailDoes, DatesElsewhere
  <1>11. CASE BeginUpdate(w)
    <2>1. PICK r : /\ req' = [req EXCEPT ![w] = r] /\ r \in Request
                   /\ \/ r.op = "update" /\ r.pc = "columns"
                      \/ r.op = "dates" /\ r.pc = "read"
                   /\ raced' = (raced \/ \E v \in Saving : "dates" \in {r.op, req[v].op})
      BY <1>11, BeginUpdateDoes
    <2>2. /\ Saving' \subseteq Workers /\ req'[w] = r /\ Saving \subseteq Workers
          /\ \A v \in Saving' \ {w} : v \in Saving /\ req'[v] = req[v]
      BY <2>1, SavingOfOne
    <2>3. req[w] = None /\ rows' = rows /\ lock' = lock
      BY <1>11, BeginUpdateDoes
    <2>4. ~raced' => \A v, u \in Saving' : v = u \/ req'[u].op = "update"
      <3> SUFFICES ASSUME ~raced', NEW v \in Saving', NEW u \in Saving', v # u PROVE req'[u].op = "update"
        OBVIOUS
      <3>1. ~raced /\ \A x \in Saving : r.op # "dates" /\ req[x].op # "dates"
        BY <2>1
      <3>2. \A x \in Saving : req[x].op \in {"update", "dates"}
        BY DEF Saving
      <3>3. CASE u = w
        BY <2>1, <2>2, <3>1, <3>3
      <3>4. CASE u # w
        BY <2>2, <3>1, <3>2, <3>4
      <3> QED BY <3>3, <3>4
    <2>5. \A v \in Saving' : (req'[v].op = "update" /\ req'[v].pc # "columns") => lock' = v
      BY <2>1, <2>2, <2>3 DEF DatesOK
    <2>6. ~raced' => \A v \in Saving' :
            /\ req'[v].pc \in {"save", "commit"} => req'[v].seen = rows'
            /\ req'[v].pc = "commit" => req'[v].event = Days(Rows(req'[v].id, req'[v].days))
      BY <2>1, <2>2, <2>3 DEF DatesOK
    <2>7. DatesAreOfOneSave'
      BY <2>1, <2>3 DEF DatesOK, DatesAreOfOneSave
    <2> QED BY <2>4, <2>5, <2>6, <2>7 DEF DatesOK, Days
  <1>12. CASE UpdateColumns(w)
    <2>1. PICK r : /\ req' = [req EXCEPT ![w] = r] /\ r \in Request
                   /\ r.op = req[w].op /\ r.pc = "read"
      BY <1>12, UpdateColumnsDoes
    <2>2. req[w] # None /\ req[w].pc = "columns" /\ lock = None /\ lock' = w /\ rows' = rows /\ raced' = raced
      BY <1>12, UpdateColumnsDoes
    <2>3. w \in Saving /\ req[w].op = "update"
      BY <2>2 DEF Saving, RequestOK, RequestsOK
    <2> QED BY <2>1, <2>2, <2>3, RequestFields, DatesOfOne
  <1>13. CASE ReadDates(w)
    <2>1. PICK r : /\ req' = [req EXCEPT ![w] = r]
                   /\ \/ r = None /\ lock' = IF lock = w THEN None ELSE lock
                      \/ /\ r \in Request /\ RequestOK(r) /\ r.op = req[w].op /\ r.pc = "delete" /\ r.queue = <<>>
                         /\ lock' = lock
      BY <1>13, ReadDatesDoes
    <2>2. /\ req[w] # None /\ req[w].pc = "read" /\ req[w].op \in {"update", "dates"}
          /\ rows' = rows /\ raced' = raced
      BY <1>13, ReadDatesDoes
    <2>3. w \in Saving /\ (req[w].op = "update" => lock = w)
      BY <2>2 DEF Saving, DatesOK
    <2>4. CASE r = None
      BY <2>1, <2>2, <2>4, DatesElsewhere
    <2>5. CASE r # None
      <3>1. r.op = req[w].op /\ r.pc = "delete" /\ lock' = lock
        BY <2>1, <2>5
      <3> QED BY <2>1, <2>2, <2>3, <2>5, <3>1, DatesOfOne
    <2> QED BY <2>4, <2>5
  <1>14. CASE DeleteDates(w)
    <2>1. PICK r : /\ req' = [req EXCEPT ![w] = r] /\ r \in Request
                   /\ r.op = req[w].op /\ r.pc = "save" /\ r.seen = rows
      BY <1>14, DeleteDatesDoes
    <2>2. /\ req[w] # None /\ req[w].pc = "delete" /\ req[w].op \in {"update", "dates"}
          /\ rows' = rows /\ raced' = raced /\ lock' = lock
      BY <1>14, DeleteDatesDoes
    <2>3. w \in Saving /\ (req[w].op = "update" => lock = w)
      BY <2>2 DEF Saving, DatesOK
    <2>4. r # None
      BY <2>1, RequestFields
    <2> QED BY <2>1, <2>2, <2>3, <2>4, DatesOfOne
  <1>15. CASE SaveDates(w)
    <2>1. PICK r : /\ req' = [req EXCEPT ![w] = r] /\ r \in Request
                   /\ r.op = req[w].op /\ r.pc = "commit" /\ r.seen = req[w].seen
                   /\ r.event = Days((rows \ req[w].seen) \cup Rows(r.id, r.days))
      BY <1>15, SaveDatesDoes
    <2>2. /\ req[w] # None /\ req[w].pc = "save" /\ req[w].op \in {"update", "dates"}
          /\ rows' = rows /\ raced' = raced /\ lock' = lock
      BY <1>15, SaveDatesDoes
    <2>3. w \in Saving /\ (req[w].op = "update" => lock = w)
      BY <2>2 DEF Saving, DatesOK
    <2>4. r # None
      BY <2>1, RequestFields
    <2>5. ~raced => r.seen = rows
      BY <2>1, <2>2, <2>3 DEF DatesOK
    <2>6. ~raced => r.event = Days(Rows(r.id, r.days))
      <3>1. ~raced => (rows \ req[w].seen) \cup Rows(r.id, r.days) = Rows(r.id, r.days)
        BY <2>1, <2>5
      <3> QED BY <2>1, <3>1
    <2> QED BY <2>1, <2>2, <2>3, <2>4, <2>5, <2>6, DatesOfOne
  <1>16. CASE CommitDates(w)
    <2>1. PICK r : req' = [req EXCEPT ![w] = r] /\ r.pc = "list"
      BY <1>16, CommitDatesDoes
    <2>2. /\ req[w] # None /\ req[w].pc = "commit" /\ w \in Saving
          /\ rows' = Saved(req[w]) /\ raced' = raced
          /\ lock' = IF lock = w THEN None ELSE lock
      BY <1>16, CommitDatesDoes
    <2>3. /\ w \notin Saving' /\ Saving' \subseteq Workers
          /\ \A v \in Saving' : v \in Saving /\ v # w /\ req'[v] = req[v]
      BY <2>1, SavingOfOne
    <2>4. ~raced => rows' = Rows(req[w].id, req[w].days)
      <3>1. ~raced => req[w].seen = rows
        BY <2>2 DEF DatesOK
      <3> QED BY <2>2, <3>1 DEF Saved
    <2>5. ~raced => DatesAreOfOneSave'
      BY <2>4, RowsOfOneSave DEF DatesAreOfOneSave
    <2>6. ~raced => \A v \in Saving' : req'[v].pc = "columns"
      <3> SUFFICES ASSUME ~raced, NEW v \in Saving', req'[v].pc # "columns" PROVE FALSE
        OBVIOUS
      <3>1. v \in Saving /\ v # w /\ req[v].pc # "columns"
        BY <2>3
      <3>2. req[v].op = "update" /\ req[w].op = "update"
        BY <2>2, <3>1 DEF DatesOK
      <3>3. lock = v /\ lock = w
        BY <2>2, <3>1, <3>2 DEF DatesOK
      <3> QED BY <3>1, <3>3
    <2>7. ~raced' => \A v, u \in Saving' : v = u \/ req'[u].op = "update"
      BY <2>2, <2>3 DEF DatesOK
    <2>8. \A v \in Saving' : (req'[v].op = "update" /\ req'[v].pc # "columns") => lock' = v
      BY <2>2, <2>3 DEF DatesOK
    <2>9. ~raced' => \A v \in Saving' :
            /\ req'[v].pc \in {"save", "commit"} => req'[v].seen = rows'
            /\ req'[v].pc = "commit" => req'[v].event = Days(Rows(req'[v].id, req'[v].days))
      BY <2>2, <2>6
    <2> QED BY <2>2, <2>5, <2>7, <2>8, <2>9 DEF DatesOK, DatesAreOfOneSave, Days
  <1> QED BY <1>1, <1>2, <1>3, <1>4, <1>5, <1>6, <1>7, <1>8, <1>9, <1>10, <1>11, <1>12, <1>13, <1>14, <1>15, <1>16

-----------------------------------------------------------------------------
(* Reminders                                                                *)

\* Steps of other requests than the jobs.
LEMMA StepsOfOthers ==
  ASSUME TypeOK, RequestsOK, NEW w \in Workers,
         \/ BeginBooking(w) \/ CommitBooking(w) \/ BeginCancel(w) \/ CommitCancel(w)
         \/ BeginUpdate(w) \/ UpdateColumns(w) \/ ReadDates(w) \/ DeleteDates(w) \/ SaveDates(w)
         \/ CommitDates(w) \/ ListAttendees(w)
  PROVE  /\ \E r : req' = [req EXCEPT ![w] = r] /\ (r = None \/ r.op # "remind")
         /\ req[w] = None \/ req[w].op # "remind"
         /\ UNCHANGED <<jobs, vain, marked, reminded>>
  <1>1. CASE BeginBooking(w)
    BY <1>1, BeginBookingDoes DEF others
  <1>2. CASE BeginCancel(w)
    BY <1>2, BeginCancelDoes DEF others
  <1>3. CASE CommitBooking(w)
    <2>0. PICK kind, r : Answered(w, kind, r)
      BY <1>3, CommitBookingDoes
    <2>1. req' = [req EXCEPT ![w] = r] /\ r.op = "book"
      BY <2>0 DEF Answered
    <2> QED BY <1>3, <2>1, CommitBookingDoes
  <1>4. CASE CommitCancel(w)
    BY <1>4, CommitCancelDoes DEF others
  <1>5. CASE BeginUpdate(w)
    BY <1>5, BeginUpdateDoes DEF others
  <1>6. CASE UpdateColumns(w)
    <2>1. req[w] # None /\ req[w].op # "remind"
      BY <1>6, UpdateColumnsDoes DEF RequestsOK, RequestOK
    <2> QED BY <1>6, <2>1, UpdateColumnsDoes DEF others
  <1>7. CASE ReadDates(w)
    BY <1>7, ReadDatesDoes DEF others
  <1>8. CASE DeleteDates(w)
    BY <1>8, DeleteDatesDoes DEF others
  <1>9. CASE SaveDates(w)
    <2>1. PICK r : req' = [req EXCEPT ![w] = r] /\ r.op = req[w].op
      BY <1>9, SaveDatesDoes
    <2>2. req[w].op \in {"update", "dates"} /\ UNCHANGED <<jobs, vain, marked, reminded>>
      BY <1>9, SaveDatesDoes DEF others
    <2> QED BY <2>1, <2>2
  <1>10. CASE CommitDates(w)
    <2>1. req[w] # None /\ req[w].op # "remind"
      BY <1>10, CommitDatesDoes DEF RequestsOK, RequestOK
    <2> QED BY <1>10, <2>1, CommitDatesDoes DEF others
  <1>11. CASE ListAttendees(w)
    BY <1>11, ListAttendeesDoes DEF others
  <1> QED BY <1>1, <1>2, <1>3, <1>4, <1>5, <1>6, <1>7, <1>8, <1>9, <1>10, <1>11

LEMMA RemindingOfOne ==
  ASSUME TypeOK, NEW w \in Workers, NEW r, req' = [req EXCEPT ![w] = r]
  PROVE  /\ \A v \in Workers \ {w} : v \in Reminding' <=> v \in Reminding
         /\ w \in Reminding' <=> (r # None /\ r.op = "remind")
         /\ req'[w] = r /\ \A v \in Workers \ {w} : req'[v] = req[v]
         /\ Reminding \subseteq Workers /\ Reminding' \subseteq Workers
  <1>1. req'[w] = r /\ \A v \in Workers \ {w} : req'[v] = req[v]
    BY DEF TypeOK
  <1> QED BY <1>1 DEF Reminding

\* What one step does to the jobs that are yet to remind b.
LEMMA OwingOfOne ==
  ASSUME TypeOK, NEW w \in Workers, NEW r, req' = [req EXCEPT ![w] = r], NEW b
  PROVE  /\ Owing(b) \subseteq Workers /\ Owing(b)' \subseteq Workers
         /\ \A v \in Workers \ {w} : v \in Owing(b)' <=> v \in Owing(b)
         /\ w \in Owing(b)' <=> r # None /\ r.op = "remind" /\ (r.pc = "fetch" \/ b \in Addressees(r))
         /\ IsFiniteSet(Owing(b)) /\ Cardinality(Owing(b)) \in Nat
  <1>1. /\ \A v \in Workers \ {w} : v \in Reminding' <=> v \in Reminding
        /\ w \in Reminding' <=> (r # None /\ r.op = "remind")
        /\ req'[w] = r /\ \A v \in Workers \ {w} : req'[v] = req[v]
        /\ Reminding \subseteq Workers /\ Reminding' \subseteq Workers
    BY RemindingOfOne
  <1>2. Owing(b) \subseteq Workers /\ Owing(b)' \subseteq Workers
    BY <1>1 DEF Owing
  <1>3. IsFiniteSet(Owing(b)) /\ Cardinality(Owing(b)) \in Nat
    BY <1>2, WorkersAssumption, FS_Subset, FS_CardinalityType
  <1>4. \A v \in Workers \ {w} : v \in Owing(b)' <=> v \in Owing(b)
    BY <1>1 DEF Owing, Addressees
  <1>5. w \in Owing(b)' <=> r # None /\ r.op = "remind" /\ (r.pc = "fetch" \/ b \in Addressees(r))
    BY <1>1 DEF Owing, Addressees
  <1> QED BY <1>2, <1>3, <1>4, <1>5

\* When no job has begun, and none has done less than it is counted for.
LEMMA NotMoreOwing ==
  ASSUME TypeOK, NEW w \in Workers, NEW r, req' = [req EXCEPT ![w] = r], NEW b,
         w \in Owing(b)' => w \in Owing(b)
  PROVE  Cardinality(Owing(b)') <= Cardinality(Owing(b)) /\ Cardinality(Owing(b)') \in Nat
  <1>1. Owing(b)' \subseteq Owing(b) /\ IsFiniteSet(Owing(b))
    BY OwingOfOne
  <1> QED BY <1>1, FS_Subset, FS_CardinalityType

LEMMA RemindersCount ==
  ASSUME TypeOK, RemindersOK, NEW w \in Workers, NEW r, req' = [req EXCEPT ![w] = r], NEW b \in Ids,
         w \in Owing(b)' => w \in Owing(b), reminded'[b] = reminded[b], jobs' = jobs
  PROVE  reminded'[b] + Cardinality(Owing(b)') <= jobs'
  <1>1. Cardinality(Owing(b)') <= Cardinality(Owing(b)) /\ Cardinality(Owing(b)') \in Nat
    BY NotMoreOwing
  <1>2. Cardinality(Owing(b)) \in Nat
    BY OwingOfOne
  <1>3. reminded[b] \in Nat /\ jobs \in Nat /\ reminded[b] + Cardinality(Owing(b)) <= jobs
    BY DEF TypeOK, RemindersOK
  <1> QED BY <1>1, <1>2, <1>3

LEMMA SentOnceKept ==
  ASSUME TypeOK, RemindersOK, NEW w \in Workers, NEW r, req' = [req EXCEPT ![w] = r],
         (r # None /\ r.op = "remind") => SentOnce(r)
  PROVE  \A v \in Reminding' : SentOnce(req'[v])
  BY RemindingOfOne DEF RemindersOK

LEMMA RemindersStep ==
  ASSUME TypeOK, RequestsOK, RemindersOK, NEW w \in Workers,
         \/ BeginBooking(w) \/ CommitBooking(w) \/ BeginCancel(w) \/ CommitCancel(w)
         \/ BeginUpdate(w) \/ UpdateColumns(w) \/ ReadDates(w) \/ DeleteDates(w) \/ SaveDates(w)
         \/ CommitDates(w) \/ ListAttendees(w)
         \/ BeginReminders(w) \/ FetchSubscribers(w) \/ MarkReminderSent(w)
         \/ SendMail(w) \/ Fail(w)
  PROVE  RemindersOK'
  <1>1. CASE \/ BeginBooking(w) \/ CommitBooking(w) \/ BeginCancel(w) \/ CommitCancel(w)
             \/ BeginUpdate(w) \/ UpdateColumns(w) \/ ReadDates(w) \/ DeleteDates(w) \/ SaveDates(w)
             \/ CommitDates(w) \/ ListAttendees(w)
    <2>1. PICK r : req' = [req EXCEPT ![w] = r] /\ (r = None \/ r.op # "remind")
      BY <1>1, StepsOfOthers
    <2>2. (req[w] = None \/ req[w].op # "remind") /\ UNCHANGED <<jobs, vain, marked, reminded>>
      BY <1>1, StepsOfOthers
    <2>3. Reminding' = Reminding
      BY <2>1, <2>2, RemindingOfOne DEF Reminding
    <2>4. \A b : w \notin Owing(b)'
      BY <2>1, OwingOfOne
    <2>5. \A b \in Ids : reminded'[b] + Cardinality(Owing(b)') <= jobs'
      BY <2>1, <2>2, <2>4, RemindersCount
    <2>6. \A v \in Reminding' : SentOnce(req'[v])
      BY <2>1, SentOnceKept
    <2> QED BY <2>2, <2>3, <2>5, <2>6 DEF RemindersOK, SentOnce
  <1>2. CASE BeginReminders(w)
    <2>1. PICK r : /\ req' = [req EXCEPT ![w] = r] /\ r \in Request
                   /\ r.op = "remind" /\ r.pc = "fetch" /\ r.queue = <<>>
      BY <1>2, BeginRemindersDoes
    <2>2. /\ req[w] = None /\ ~marked /\ jobs' = jobs + 1 /\ reminded' = reminded
          /\ vain' = IF Reminding # {} THEN vain + 1 ELSE vain
      BY <1>2, BeginRemindersDoes DEF others
    <2>3. r # None
      BY <2>1, RequestFields
    <2>4. w \in Reminding'
      BY <2>1, <2>3, RemindingOfOne
    <2>5. jobs' <= vain' + 1
      BY <2>2 DEF RemindersOK, TypeOK
    <2>6. ASSUME NEW b \in Ids PROVE reminded'[b] + Cardinality(Owing(b)') <= jobs'
      <3>1. w \notin Owing(b)
        BY <2>2 DEF Owing, Reminding
      <3>2. Owing(b)' = Owing(b) \cup {w}
        BY <2>1, <2>3, OwingOfOne
      <3>3. IsFiniteSet(Owing(b)) /\ Cardinality(Owing(b)) \in Nat
        BY <2>1, OwingOfOne
      <3>4. Cardinality(Owing(b)') = Cardinality(Owing(b)) + 1
        BY <3>1, <3>2, <3>3, FS_AddElement
      <3>5. reminded[b] \in Nat /\ reminded[b] + Cardinality(Owing(b)) <= jobs
        BY DEF RemindersOK, TypeOK
      <3> QED BY <2>2, <3>3, <3>4, <3>5 DEF TypeOK
    <2>7. \A v \in Reminding' : SentOnce(req'[v])
      <3>1. SentOnce(r)
        BY <2>1 DEF SentOnce
      <3> QED BY <2>1, <3>1, SentOnceKept
    <2> QED BY <2>4, <2>5, <2>6, <2>7 DEF RemindersOK, SentOnce
  <1>3. CASE FetchSubscribers(w)
    <2>1. PICK r : /\ req' = [req EXCEPT ![w] = r] /\ r \in Request
                   /\ r.op = "remind" /\ r.queue = MailsTo(HasSeat, "reminder", {})
      BY <1>3, FetchSubscribersDoes
    <2>2. /\ req[w] # None /\ req[w].pc = "fetch" /\ req[w].op = "remind"
          /\ UNCHANGED <<jobs, vain, marked, reminded>>
      BY <1>3, FetchSubscribersDoes DEF others
    <2>3. r # None /\ w \in Reminding /\ Reminding' = Reminding
      BY <2>1, <2>2, RequestFields, RemindingOfOne DEF Reminding
    <2>4. \A b : w \in Owing(b)
      BY <2>2, <2>3 DEF Owing
    <2>5. \A b \in Ids : reminded'[b] + Cardinality(Owing(b)') <= jobs'
      BY <2>1, <2>2, <2>4, RemindersCount
    <2>6. SentOnce(r)
      <3>1. \A i, j \in DOMAIN MailsTo(HasSeat, "reminder", {}) :
              MailsTo(HasSeat, "reminder", {})[i].to = MailsTo(HasSeat, "reminder", {})[j].to => i = j
        BY HasSeatIds, MailsToAll, KindNames
      <3> QED BY <2>1, <3>1 DEF SentOnce
    <2>7. \A v \in Reminding' : SentOnce(req'[v])
      BY <2>1, <2>6, SentOnceKept
    <2> QED BY <2>2, <2>3, <2>5, <2>7 DEF RemindersOK, SentOnce
  <1>4. CASE MarkReminderSent(w)
    <2>1. req' = [req EXCEPT ![w] = None] /\ marked' = TRUE /\ UNCHANGED <<jobs, vain, reminded>>
      BY <1>4, MarkReminderSentDoes
    <2>2. \A b : w \notin Owing(b)'
      BY <2>1, OwingOfOne
    <2>3. \A b \in Ids : reminded'[b] + Cardinality(Owing(b)') <= jobs'
      BY <2>1, <2>2, RemindersCount
    <2>4. \A v \in Reminding' : SentOnce(req'[v])
      BY <2>1, SentOnceKept
    <2> QED BY <2>1, <2>3, <2>4 DEF RemindersOK, SentOnce
  <1>5. CASE SendMail(w)
    <2> DEFINE mails == req[w].queue
               mail == Head(mails)
               rest == Tail(mails)
    <2>1. PICK r : /\ req' = [req EXCEPT ![w] = r]
                   /\ \/ r = None /\ rest = <<>> /\ req[w].op # "remind"
                      \/ r \in Request /\ r.op = req[w].op /\ r.queue = rest /\ r.pc \in {"send", "mark"}
      BY <1>5, SendMailDoes
    <2>2. /\ req[w] # None /\ req[w].pc = "send" /\ mails # <<>> /\ mails \in Seq(Email)
          /\ req[w].op = "remind" <=> mail.kind = "reminder"
          /\ reminded' = [reminded EXCEPT ![mail.to] = IF mail.kind = "reminder" THEN @ + 1 ELSE @]
          /\ UNCHANGED <<jobs, vain, marked>>
      BY <1>5, SendMailDoes
    <2>3. /\ 1 \in DOMAIN mails /\ mail = mails[1] /\ mail \in Email
          /\ \A i \in DOMAIN rest : i + 1 \in DOMAIN mails /\ rest[i] = mails[i + 1]
          /\ DOMAIN rest \subseteq Nat \ {0}
      <3>1. rest \in Seq(Email)
        BY <2>2, HeadAndRest
      <3> QED BY <2>2, <3>1, HeadAndRest
    <2>4. mail.to \in Ids
      BY <2>3 DEF Email
    <2> HIDE DEF mails, mail, rest
    <2>5. Reminding' = Reminding
      BY <2>1, <2>2, RequestFields, RemindingOfOne DEF Reminding
    <2>6. req[w].op = "remind" => /\ w \in Reminding /\ SentOnce(req[w])
                                  /\ w \in Owing(mail.to) /\ mail.to \notin Addressees(r) /\ SentOnce(r)
      <3> SUFFICES ASSUME req[w].op = "remind"
                   PROVE  /\ w \in Reminding /\ SentOnce(req[w])
                          /\ w \in Owing(mail.to) /\ mail.to \notin Addressees(r) /\ SentOnce(r)
        OBVIOUS
      <3>1. w \in Reminding /\ SentOnce(req[w])
        BY <2>2 DEF Reminding, RemindersOK
      <3>2. w \in Owing(mail.to)
        BY <2>3, <3>1 DEF Owing, Addressees, mails
      <3>3. \A i, j \in DOMAIN mails : mails[i].to = mails[j].to => i = j
        BY <3>1 DEF SentOnce, mails
      <3>4. r.queue = rest
        BY <2>1
      <3>5. mail.to \notin Addressees(r)
        <4> SUFFICES ASSUME NEW i \in DOMAIN rest, rest[i].to = mail.to PROVE FALSE
          BY <3>4 DEF Addressees
        <4>1. i + 1 = 1
          BY <2>3, <3>3
        <4> QED BY <2>3, <4>1
      <3>6. SentOnce(r)
        <4> SUFFICES ASSUME NEW i \in DOMAIN rest, NEW j \in DOMAIN rest, rest[i].to = rest[j].to PROVE i = j
          BY <3>4 DEF SentOnce
        <4>1. i + 1 = j + 1
          BY <2>3, <3>3
        <4> QED BY <2>3, <4>1
      <3> QED BY <3>1, <3>2, <3>5, <3>6
    <2>7. \A b : Addressees(r) \subseteq Addressees(req[w]) \/ r = None
      <3> SUFFICES ASSUME r # None PROVE Addressees(r) \subseteq Addressees(req[w])
        OBVIOUS
      <3>1. r.queue = rest
        BY <2>1
      <3> QED BY <2>3, <3>1 DEF Addressees, mails
    <2>8. ASSUME NEW b \in Ids PROVE reminded'[b] + Cardinality(Owing(b)') <= jobs'
      <3>1. w \in Owing(b)' => w \in Owing(b)
        <4> SUFFICES ASSUME w \in Owing(b)' PROVE w \in Owing(b)
          OBVIOUS
        <4>1. r # None /\ r.op = "remind" /\ (r.pc = "fetch" \/ b \in Addressees(r))
          BY <2>1, OwingOfOne
        <4>2. req[w].op = "remind" /\ b \in Addressees(req[w])
          BY <2>1, <2>7, <4>1
        <4> QED BY <2>6, <4>2 DEF Owing
      <3>2. IsFiniteSet(Owing(b)) /\ Cardinality(Owing(b)) \in Nat
        BY <2>1, OwingOfOne
      <3>3. reminded[b] \in Nat /\ reminded[b] + Cardinality(Owing(b)) <= jobs /\ jobs \in Nat
        BY DEF RemindersOK, TypeOK
      <3>4. CASE b = mail.to /\ req[w].op = "remind"
        <4>1. w \notin Owing(b)'
          <5>1. r.pc # "fetch" /\ b \notin Addressees(r)
            BY <2>1, <2>6, <3>4
          <5> QED BY <2>1, <5>1, OwingOfOne
        <4>2. Owing(b)' = Owing(b) \ {w}
          BY <2>1, <3>1, <4>1, OwingOfOne
        <4>3. Cardinality(Owing(b)') = Cardinality(Owing(b)) - 1
          BY <2>6, <3>2, <3>4, <4>2, FS_RemoveElement
        <4>4. reminded'[b] = reminded[b] + 1
          BY <2>2, <3>4 DEF TypeOK
        <4> QED BY <2>2, <3>2, <3>3, <4>3, <4>4
      <3>5. CASE ~(b = mail.to /\ req[w].op = "remind")
        <4>1. reminded'[b] = reminded[b]
          BY <2>2, <3>5 DEF TypeOK
        <4> QED BY <2>1, <2>2, <3>1, <4>1, RemindersCount
      <3> QED BY <3>4, <3>5
    <2>9. \A v \in Reminding' : SentOnce(req'[v])
      BY <2>1, <2>6, SentOnceKept
    <2> QED BY <2>2, <2>5, <2>8, <2>9 DEF RemindersOK, SentOnce
  <1>6. CASE Fail(w)
    <2>1. /\ req[w] # None /\ req' = [req EXCEPT ![w] = None] /\ UNCHANGED <<marked, jobs, reminded>>
          /\ vain' = IF req[w].op = "remind" THEN vain + 1 ELSE vain
      BY <1>6, FailDoes
    <2>2. \A b : w \notin Owing(b)'
      BY <2>1, OwingOfOne
    <2>3. \A b \in Ids : reminded'[b] + Cardinality(Owing(b)') <= jobs'
      BY <2>1, <2>2, RemindersCount
    <2>4. \A v \in Reminding' : SentOnce(req'[v])
      BY <2>1, SentOnceKept
    <2>5. req[w].op # "remind" => Reminding' = Reminding
      BY <2>1, RemindingOfOne DEF Reminding
    <2>6. jobs' <= vain' + 1 /\ ((~marked' /\ Reminding' = {}) => jobs' <= vain')
      BY <2>1, <2>5 DEF RemindersOK, TypeOK
    <2> QED BY <2>3, <2>4, <2>6 DEF RemindersOK, SentOnce
  <1> QED BY <1>1, <1>2, <1>3, <1>4, <1>5, <1>6

-----------------------------------------------------------------------------
(* Those who are reminded                                                   *)

\* A step of another request than the jobs, that gives a seat to nobody whom a job may
\* miss without its being noted.
LEMMA AttendeesElsewhere ==
  ASSUME TypeOK, AttendeesOK, NEW w \in Workers, NEW r, req' = [req EXCEPT ![w] = r],
         r = None \/ r.op # "remind", marked' = marked, reminded' = reminded,
         (marked \/ \E v \in Reminding : req[v].pc # "fetch") => HasSeat' \ late' \subseteq HasSeat \ late
  PROVE  AttendeesOK'
  <1>1. /\ w \notin Reminding' /\ Reminding' \subseteq Workers
        /\ \A v \in Reminding' : v \in Reminding /\ v # w /\ req'[v] = req[v]
    BY RemindingOfOne
  <1>2. ASSUME NEW v \in Reminding', req'[v].pc # "fetch", NEW b \in HasSeat' \ late'
        PROVE  reminded'[b] > 0 \/ b \in Addressees(req'[v])
    <2>1. v \in Reminding /\ req'[v] = req[v] /\ req[v].pc # "fetch"
      BY <1>1, <1>2
    <2>2. b \in HasSeat \ late
      BY <2>1
    <2> QED BY <2>1, <2>2 DEF AttendeesOK
  <1>3. AttendeesAreReminded'
    BY DEF AttendeesOK, AttendeesAreReminded
  <1> QED BY <1>2, <1>3 DEF AttendeesOK, Addressees

LEMMA LateNoted ==
  ASSUME TypeOK, NEW S, marked \/ \E v \in Reminding : req[v].pc # "fetch"
  PROVE  Late(S) = late \cup S
  BY DEF Late, Open, Reminding

LEMMA AttendeesStep ==
  ASSUME TypeOK, RequestsOK, AttendeesOK, NEW w \in Workers,
         \/ BeginBooking(w) \/ CommitBooking(w) \/ BeginCancel(w) \/ CommitCancel(w)
         \/ BeginUpdate(w) \/ UpdateColumns(w) \/ ReadDates(w) \/ DeleteDates(w) \/ SaveDates(w)
         \/ CommitDates(w) \/ ListAttendees(w)
         \/ BeginReminders(w) \/ FetchSubscribers(w) \/ MarkReminderSent(w)
         \/ SendMail(w) \/ Fail(w)
  PROVE  AttendeesOK'
  <1>1. CASE \/ BeginBooking(w) \/ BeginCancel(w)
             \/ BeginUpdate(w) \/ UpdateColumns(w) \/ ReadDates(w) \/ DeleteDates(w) \/ SaveDates(w)
             \/ CommitDates(w) \/ ListAttendees(w)
    <2>1. PICK r : req' = [req EXCEPT ![w] = r] /\ (r = None \/ r.op # "remind")
      BY <1>1, StepsOfOthers
    <2>2. UNCHANGED <<marked, reminded>>
      BY <1>1, StepsOfOthers
    <2>3. UNCHANGED <<booking, late>>
      BY <1>1, BeginBookingDoes, BeginCancelDoes, BeginUpdateDoes, UpdateColumnsDoes, ReadDatesDoes,
         DeleteDatesDoes, SaveDatesDoes, CommitDatesDoes, ListAttendeesDoes DEF others
    <2>4. HasSeat' \ late' = HasSeat \ late
      BY <2>3 DEF HasSeat
    <2> QED BY <2>1, <2>2, <2>4, AttendeesElsewhere
  <1>2. CASE CommitBooking(w)
    <2>0. PICK kind, r : Answered(w, kind, r)
      BY <1>2, CommitBookingDoes
    <2>1. /\ kind \in {"booked", "waiting"}
          /\ req' = [req EXCEPT ![w] = r] /\ r.op = "book"
          /\ booking' = [booking EXCEPT ![req[w].id] = IF kind = "booked" THEN "seat" ELSE "waiting"]
          /\ late' = IF kind = "booked" THEN Late({req[w].id}) ELSE late
      BY <2>0 DEF Answered
    <2>2. marked' = marked /\ reminded' = reminded /\ req[w].id \in Ids
      BY <1>2, CommitBookingDoes
    <2>3. kind = "booked" => HasSeat' \subseteq HasSeat \cup {req[w].id}
      BY <2>1, <2>2 DEF HasSeat, TypeOK
    <2>4. kind = "waiting" => HasSeat' \subseteq HasSeat
      BY <2>1, <2>2 DEF HasSeat, TypeOK
    <2>5. (marked \/ \E v \in Reminding : req[v].pc # "fetch") => HasSeat' \ late' \subseteq HasSeat \ late
      BY <2>1, <2>3, <2>4, LateNoted
    <2> QED BY <2>1, <2>2, <2>5, AttendeesElsewhere
  <1>3. CASE CommitCancel(w)
    <2> DEFINE b == req[w].id
    <2>1. PICK r : req' = [req EXCEPT ![w] = r] /\ r.op = "cancel"
      BY <1>3, CommitCancelDoes
    <2>2. /\ marked' = marked /\ reminded' = reminded /\ late' = Late(Promoted(b))
          /\ booking' = [c \in Ids |-> IF c = b THEN "canceled" ELSE IF c \in Promoted(b) THEN "seat" ELSE booking[c]]
      BY <1>3, CommitCancelDoes
    <2>3. HasSeat' \subseteq HasSeat \cup Promoted(b)
      BY <2>2 DEF HasSeat
    <2>4. (marked \/ \E v \in Reminding : req[v].pc # "fetch") => HasSeat' \ late' \subseteq HasSeat \ late
      BY <2>2, <2>3, LateNoted
    <2> QED BY <2>1, <2>2, <2>4, AttendeesElsewhere
  <1>4. CASE BeginReminders(w)
    <2>1. PICK r : req' = [req EXCEPT ![w] = r] /\ r.pc = "fetch"
      BY <1>4, BeginRemindersDoes
    <2>2. UNCHANGED <<booking, late, marked, reminded>>
      BY <1>4, BeginRemindersDoes DEF others
    <2>3. HasSeat' \ late' = HasSeat \ late
      BY <2>2 DEF HasSeat
    <2>4. ASSUME NEW v \in Reminding', req'[v].pc # "fetch", NEW b \in HasSeat' \ late'
          PROVE  reminded'[b] > 0 \/ b \in Addressees(req'[v])
      <3>1. v # w
        <4>1. req'[w] = r
          BY <2>1 DEF TypeOK
        <4> QED BY <2>1, <2>4, <4>1
      <3>2. v \in Reminding /\ req'[v] = req[v]
        BY <2>1, <3>1, RemindingOfOne
      <3> QED BY <2>2, <2>3, <2>4, <3>2 DEF AttendeesOK
    <2>5. AttendeesAreReminded'
      BY <2>2, <2>3 DEF AttendeesOK, AttendeesAreReminded
    <2> QED BY <2>4, <2>5 DEF AttendeesOK, Addressees
  <1>5. CASE FetchSubscribers(w)
    <2>1. PICK r : req' = [req EXCEPT ![w] = r] /\ r.queue = MailsTo(HasSeat, "reminder", {})
      BY <1>5, FetchSubscribersDoes
    <2>2. UNCHANGED <<booking, late, marked, reminded>>
      BY <1>5, FetchSubscribersDoes DEF others
    <2>3. HasSeat \subseteq Addressees(r)
      <3>1. \A b \in HasSeat : \E i \in DOMAIN MailsTo(HasSeat, "reminder", {}) : MailsTo(HasSeat, "reminder", {})[i].to = b
        <4>1. {} \in SUBSET Int
          OBVIOUS
        <4>2. \A b \in HasSeat : \E i \in DOMAIN MailsTo(HasSeat, "reminder", {}) :
                MailsTo(HasSeat, "reminder", {})[i] = Mail(b, "reminder", {})
          BY <4>1, HasSeatIds, MailToEach, KindNames
        <4> QED BY <4>2 DEF Mail
      <3> QED BY <2>1, <3>1 DEF Addressees
    <2>4. HasSeat' = HasSeat
      BY <2>2 DEF HasSeat
    <2>5. ASSUME NEW v \in Reminding', req'[v].pc # "fetch", NEW b \in HasSeat' \ late'
          PROVE  reminded'[b] > 0 \/ b \in Addressees(req'[v])
      <3>1. CASE v = w
        BY <2>1, <2>3, <2>4, <3>1, RemindingOfOne
      <3>2. CASE v # w
        <4>1. v \in Reminding /\ req'[v] = req[v]
          BY <2>1, <3>2, RemindingOfOne
        <4> QED BY <2>2, <2>4, <2>5, <4>1 DEF AttendeesOK
      <3> QED BY <3>1, <3>2
    <2>6. AttendeesAreReminded'
      BY <2>2, <2>4 DEF AttendeesOK, AttendeesAreReminded
    <2> QED BY <2>5, <2>6 DEF AttendeesOK, Addressees
  <1>6. CASE MarkReminderSent(w)
    <2>1. /\ req[w] # None /\ req[w].pc = "mark" /\ req[w].op = "remind" /\ req[w].queue = <<>>
          /\ req' = [req EXCEPT ![w] = None] /\ UNCHANGED <<booking, late, reminded>>
      BY <1>6, MarkReminderSentDoes
    <2>2. w \in Reminding /\ Addressees(req[w]) = {} /\ HasSeat' = HasSeat
      BY <2>1 DEF Reminding, Addressees, HasSeat
    <2>3. \A b \in HasSeat \ late : reminded[b] > 0
      BY <2>1, <2>2 DEF AttendeesOK
    <2>4. AttendeesAreReminded'
      BY <2>1, <2>2, <2>3 DEF AttendeesAreReminded
    <2>5. ASSUME NEW v \in Reminding', NEW b \in HasSeat' \ late' PROVE reminded'[b] > 0
      BY <2>1, <2>2, <2>3
    <2> QED BY <2>4, <2>5 DEF AttendeesOK
  <1>7. CASE SendMail(w)
    <2> DEFINE mails == req[w].queue
               mail == Head(mails)
               rest == Tail(mails)
    <2>1. PICK r : /\ req' = [req EXCEPT ![w] = r]
                   /\ \/ r = None /\ rest = <<>> /\ req[w].op # "remind"
                      \/ r \in Request /\ r.op = req[w].op /\ r.queue = rest /\ r.pc \in {"send", "mark"}
      BY <1>7, SendMailDoes
    <2>2. /\ req[w] # None /\ req[w].pc = "send" /\ mails # <<>> /\ mails \in Seq(Email)
          /\ req[w].op = "remind" => mail.kind = "reminder"
          /\ reminded' = [reminded EXCEPT ![mail.to] = IF mail.kind = "reminder" THEN @ + 1 ELSE @]
          /\ UNCHANGED <<booking, late, marked>>
      BY <1>7, SendMailDoes
    <2>3. /\ mail = mails[1] /\ mail \in Email
          /\ \A i \in DOMAIN mails : i = 1 \/ \E j \in DOMAIN rest : rest[j] = mails[i]
      BY <2>2, HeadAndRest
    <2>4. mail.to \in Ids
      BY <2>3 DEF Email
    <2> HIDE DEF mails, mail, rest
    <2>5. HasSeat' \ late' = HasSeat \ late /\ HasSeat \subseteq Ids
      BY <2>2 DEF HasSeat
    <2>6. \A b \in Ids : reminded[b] > 0 => reminded'[b] > 0
      BY <2>2, <2>4 DEF TypeOK
    <2>7. mail.kind = "reminder" => reminded'[mail.to] > 0
      BY <2>2, <2>4 DEF TypeOK
    <2>8. ASSUME NEW v \in Reminding', req'[v].pc # "fetch", NEW b \in HasSeat' \ late'
          PROVE  reminded'[b] > 0 \/ b \in Addressees(req'[v])
      <3>1. CASE v = w
        <4>1. r # None /\ r.op = "remind" /\ req'[w] = r
          BY <2>1, <3>1, RemindingOfOne
        <4>2. req[w].op = "remind" /\ r.queue = rest
          BY <2>1, <4>1
        <4>3. w \in Reminding
          BY <2>2, <4>2 DEF Reminding
        <4>4. reminded[b] > 0 \/ b \in Addressees(req[w])
          BY <2>2, <2>5, <4>3 DEF AttendeesOK
        <4>5. CASE reminded[b] > 0
          BY <2>5, <2>6, <4>5
        <4>6. CASE b \in Addressees(req[w])
          <5>1. PICK i \in DOMAIN mails : mails[i].to = b
            BY <4>6 DEF Addressees, mails
          <5>2. CASE i = 1
            BY <2>2, <2>3, <2>7, <4>2, <5>1, <5>2
          <5>3. CASE i # 1
            <6>1. PICK j \in DOMAIN rest : rest[j] = mails[i]
              BY <2>3, <5>3
            <6>2. b \in Addressees(r)
              BY <4>2, <5>1, <6>1 DEF Addressees
            <6> QED BY <3>1, <4>1, <6>2
          <5> QED BY <5>2, <5>3
        <4> QED BY <4>4, <4>5, <4>6
      <3>2. CASE v # w
        <4>1. v \in Reminding /\ req'[v] = req[v]
          BY <2>1, <3>2, RemindingOfOne
        <4>2. reminded[b] > 0 \/ b \in Addressees(req[v])
          BY <2>5, <2>8, <4>1 DEF AttendeesOK
        <4> QED BY <2>5, <2>6, <4>1, <4>2
      <3> QED BY <3>1, <3>2
    <2>9. AttendeesAreReminded'
      BY <2>2, <2>5, <2>6 DEF AttendeesOK, AttendeesAreReminded
    <2> QED BY <2>8, <2>9 DEF AttendeesOK, Addressees
  <1>8. CASE Fail(w)
    <2>1. req' = [req EXCEPT ![w] = None] /\ UNCHANGED <<booking, late, marked, reminded>>
      BY <1>8, FailDoes
    <2>2. HasSeat' \ late' = HasSeat \ late
      BY <2>1 DEF HasSeat
    <2> QED BY <2>1, <2>2, AttendeesElsewhere
  <1> QED BY <1>1, <1>2, <1>3, <1>4, <1>5, <1>6, <1>7, <1>8

-----------------------------------------------------------------------------
(* Those who are told                                                       *)

HasMail(r, mail) == r # None /\ \E i \in DOMAIN r.queue : r.queue[i] = mail

\* A mail that is expected still is, unless the step loses it.
LEMMA StillExpected ==
  ASSUME TypeOK, NEW w \in Workers, NEW r, req' = [req EXCEPT ![w] = r], NEW b, NEW kinds, Expects(b, kinds),
         \A mail : (HasMail(req[w], mail) /\ mail.to = b /\ mail.kind \in kinds) => HasMail(r, mail)
  PROVE  Expects(b, kinds)'
  <1>1. req'[w] = r /\ \A v \in Workers \ {w} : req'[v] = req[v]
    BY DEF TypeOK
  <1>2. PICK v, mail : v \in Workers /\ HasMail(req[v], mail) /\ mail.to = b /\ mail.kind \in kinds
    BY DEF Expects, Queued, HasMail
  <1>3. HasMail(req'[v], mail)
    BY <1>1, <1>2
  <1> QED BY <1>2, <1>3 DEF Expects, Queued, HasMail

LEMMA DatesStillExpected ==
  ASSUME TypeOK, NEW w \in Workers, NEW r, req' = [req EXCEPT ![w] = r], rows' = rows,
         NEW b, ExpectsDates(b), ~Open(w, "list"),
         \A mail : (HasMail(req[w], mail) /\ mail.to = b /\ mail.kind \in {"booked", "promoted", "schedule"}
                      /\ mail.event = Days(rows)) => HasMail(r, mail)
  PROVE  ExpectsDates(b)'
  <1>1. req'[w] = r /\ \A v \in Workers \ {w} : req'[v] = req[v]
    BY DEF TypeOK
  <1>2. Days(rows)' = Days(rows)
    BY DEF Days
  <1>3. CASE \E v \in Workers : req[v] # None /\ req[v].pc = "list" /\ req[v].event = Days(rows)
    <2>1. PICK v \in Workers : req[v] # None /\ req[v].pc = "list" /\ req[v].event = Days(rows)
      BY <1>3
    <2>2. req'[v] = req[v]
      BY <1>1, <2>1 DEF Open
    <2> QED BY <1>2, <2>1, <2>2 DEF ExpectsDates
  <1>4. CASE \E v, mail : v \in Workers /\ HasMail(req[v], mail) /\ mail.to = b
                 /\ mail.kind \in {"booked", "promoted", "schedule"} /\ mail.event = Days(rows)
    <2>1. PICK v, mail : v \in Workers /\ HasMail(req[v], mail) /\ mail.to = b
                 /\ mail.kind \in {"booked", "promoted", "schedule"} /\ mail.event = Days(rows)
      BY <1>4
    <2>2. HasMail(req'[v], mail)
      BY <1>1, <2>1
    <2> QED BY <1>2, <2>1, <2>2 DEF ExpectsDates, Queued, HasMail
  <1> QED BY <1>3, <1>4 DEF ExpectsDates, Queued, HasMail

\* A step that sends nothing and does not concern b.
LEMMA PersonElsewhere ==
  ASSUME TypeOK, NEW w \in Workers, NEW r, req' = [req EXCEPT ![w] = r],
         req[w] = None \/ (req[w].queue = <<>> /\ req[w].pc # "list"),
         NEW b, PersonOK(b), booking'[b] = booking[b], told' = told, knows' = knows, rows' = rows,
         b \in across => b \in across', raced => raced'
  PROVE  PersonOK(b)'
  <1>1. \A mail : ~HasMail(req[w], mail)
    BY DEF HasMail
  <1>2. Days(rows)' = Days(rows)
    BY DEF Days
  <1>3. \A kinds : Expects(b, kinds) => Expects(b, kinds)'
    BY <1>1, StillExpected
  <1>4. ExpectsDates(b) => ExpectsDates(b)'
    <2>1. ~Open(w, "list")
      BY DEF Open
    <2> QED BY <1>1, <2>1, DatesStillExpected
  <1>5. booking'[b] \in {"canceled", "waiting"} => booking'[b] \in told'[b] \/ Expects(b, {booking[b]})'
    BY <1>3 DEF PersonOK
  <1>6. booking'[b] = "seat" => told'[b] \cap {"booked", "promoted"} # {} \/ Expects(b, {"booked", "promoted"})'
    BY <1>3 DEF PersonOK
  <1>7. (booking'[b] = "seat" /\ b \notin across' /\ ~raced') => Days(rows') \in knows'[b] \/ ExpectsDates(b)'
    BY <1>2, <1>4 DEF PersonOK
  <1> QED BY <1>5, <1>6, <1>7 DEF PersonOK, Days, Expects, Queued

\* A mail that a request has is on its way.
LEMMA NowExpected ==
  ASSUME TypeOK, NEW w \in Workers, NEW r, req' = [req EXCEPT ![w] = r],
         NEW mail, HasMail(r, mail), NEW b, mail.to = b
  PROVE  /\ \A kinds : mail.kind \in kinds => Expects(b, kinds)'
         /\ (mail.kind \in {"booked", "promoted", "schedule"} /\ mail.event = Days(rows)')
              => ExpectsDates(b)'
  <1>1. req'[w] = r
    BY DEF TypeOK
  <1>2. ASSUME NEW kinds, mail.kind \in kinds PROVE Expects(b, kinds)'
    BY <1>1, <1>2 DEF Expects, Queued, HasMail
  <1>3. (mail.kind \in {"booked", "promoted", "schedule"} /\ mail.event = Days(rows)') => ExpectsDates(b)'
    BY <1>1 DEF ExpectsDates, Queued, HasMail
  <1> QED BY <1>2, <1>3

\* Steps that neither send anything nor change a booking or the dates.
LEMMA SilentSteps ==
  ASSUME TypeOK, RequestsOK, NEW w \in Workers,
         \/ BeginBooking(w) \/ BeginCancel(w)
         \/ BeginUpdate(w) \/ UpdateColumns(w) \/ ReadDates(w) \/ DeleteDates(w) \/ SaveDates(w)
         \/ BeginReminders(w) \/ FetchSubscribers(w) \/ MarkReminderSent(w)
  PROVE  /\ \E r : req' = [req EXCEPT ![w] = r]
         /\ req[w] = None \/ (req[w].queue = <<>> /\ req[w].pc # "list")
         /\ UNCHANGED <<rows, booking, told, knows, lost, across>> /\ (raced => raced')
  <1>1. CASE BeginBooking(w)
    BY <1>1, BeginBookingDoes DEF others
  <1>2. CASE BeginCancel(w)
    BY <1>2, BeginCancelDoes DEF others
  <1>3. CASE BeginUpdate(w)
    BY <1>3, BeginUpdateDoes DEF others
  <1>4. CASE UpdateColumns(w)
    BY <1>4, UpdateColumnsDoes DEF others
  <1>5. CASE ReadDates(w)
    BY <1>5, ReadDatesDoes DEF others
  <1>6. CASE DeleteDates(w)
    BY <1>6, DeleteDatesDoes DEF others
  <1>7. CASE SaveDates(w)
    BY <1>7, SaveDatesDoes DEF others
  <1>8. CASE BeginReminders(w)
    BY <1>8, BeginRemindersDoes DEF others
  <1>9. CASE FetchSubscribers(w)
    BY <1>9, FetchSubscribersDoes DEF others
  <1>10. CASE MarkReminderSent(w)
    BY <1>10, MarkReminderSentDoes
  <1> QED BY <1>1, <1>2, <1>3, <1>4, <1>5, <1>6, <1>7, <1>8, <1>9, <1>10

LEMMA PeopleAfterBooking ==
  ASSUME TypeOK, RequestsOK, PeopleOK, NEW w \in Workers, CommitBooking(w)
  PROVE  PeopleOK'
  <1>0. PICK p, event : p = req[w].id /\ event = req[w].event
    OBVIOUS
  <1> PICK kind, r : Answered(w, kind, r)
    BY CommitBookingDoes
  <1>1. /\ kind \in {"booked", "waiting"}
        /\ req' = [req EXCEPT ![w] = r] /\ r \in Request
        /\ r.queue = <<Mail(p, kind, event)>>
        /\ booking' = [booking EXCEPT ![p] = IF kind = "booked" THEN "seat" ELSE "waiting"]
        /\ across' = IF kind = "booked" THEN Across(w, {p}) ELSE across
    BY <1>0 DEF Answered
  <1>2. /\ req[w] # None /\ req[w].pc = "commit" /\ req[w].queue = <<>> /\ p \in Ids
        /\ UNCHANGED <<rows, raced, told, knows, lost>>
    BY <1>0, CommitBookingDoes
  <1>3. across \subseteq across'
    BY <1>1 DEF Across
  <1>4. HasMail(r, Mail(p, kind, event))
    <2>1. 1 \in DOMAIN r.queue /\ r.queue[1] = Mail(p, kind, event)
      BY <1>1
    <2> QED BY <1>1, <2>1, RequestFields DEF HasMail
  <1>5. /\ Mail(p, kind, event).to = p /\ Mail(p, kind, event).kind = kind /\ Mail(p, kind, event).event = event
    BY DEF Mail
  <1>6. Days(rows)' = Days(rows)
    BY <1>2 DEF Days
  <1> DEFINE mail == Mail(p, kind, event)
  <1> HIDE DEF mail
  <1>7. Expects(p, {kind})' /\ (kind = "booked" => Expects(p, {"booked", "promoted"})')
    <2>1. HasMail(r, mail) /\ mail.to = p /\ mail.kind = kind
      BY <1>4, <1>5 DEF mail
    <2>2. \A kinds : kind \in kinds => Expects(p, kinds)'
      BY <1>1, <2>1, NowExpected
    <2> QED BY <2>2
  <1>8. (kind = "booked" /\ p \notin across') => ExpectsDates(p)'
    <2> SUFFICES ASSUME kind = "booked", p \notin across' PROVE ExpectsDates(p)'
      OBVIOUS
    <2>1. event = Days(rows)
      BY <1>0, <1>1 DEF Across
    <2>2. HasMail(r, mail) /\ mail.to = p /\ mail.kind = "booked" /\ mail.event = Days(rows)'
      BY <1>4, <1>5, <1>6, <2>1 DEF mail
    <2> QED BY <1>1, <2>2, NowExpected
  <1>9. ASSUME NEW b \in Ids \ lost PROVE PersonOK(b)'
    <2>1. CASE b = p
      <3>1. booking'[p] = IF kind = "booked" THEN "seat" ELSE "waiting"
        BY <1>1, <1>2 DEF TypeOK
      <3>2. kind \in {"booked", "waiting"}
        BY <1>1
      <3> QED BY <1>7, <1>8, <2>1, <3>1, <3>2 DEF PersonOK
    <2>2. CASE b # p
      <3>1. booking'[b] = booking[b]
        BY <1>1, <2>2 DEF TypeOK
      <3>2. PersonOK(b)
        BY DEF PeopleOK
      <3>3. b \in across => b \in across'
        BY <1>3
      <3>4. req[w] # None /\ req[w].queue = <<>> /\ req[w].pc # "list"
        BY <1>2
      <3>5. told' = told /\ knows' = knows /\ rows' = rows /\ raced' = raced
        BY <1>2
      <3>6. req' = [req EXCEPT ![w] = r]
        BY <1>1
      <3> QED BY <3>1, <3>2, <3>3, <3>4, <3>5, <3>6, PersonElsewhere
    <2> QED BY <2>1, <2>2
  <1> QED BY <1>2, <1>9 DEF PeopleOK

LEMMA PeopleAfterCancelation ==
  ASSUME TypeOK, RequestsOK, PeopleOK, NEW w \in Workers, CommitCancel(w)
  PROVE  PeopleOK'
  <1>0. PICK p, event, promoted, mails :
          /\ p = req[w].id /\ event = req[w].event
          /\ promoted = Promoted(p) /\ mails = CancelMails(p, promoted, event)
    OBVIOUS
  <1>1. PICK r : req' = [req EXCEPT ![w] = r] /\ r \in Request /\ r.queue = mails
    BY <1>0, CommitCancelDoes
  <1>2. /\ req[w] # None /\ req[w].pc = "commit" /\ req[w].queue = <<>> /\ p \in Ids
        /\ promoted \subseteq Waiting /\ event \in SUBSET Int
        /\ booking' = [c \in Ids |-> IF c = p THEN "canceled" ELSE IF c \in promoted THEN "seat" ELSE booking[c]]
        /\ across' = Across(w, promoted)
        /\ UNCHANGED <<rows, raced, told, knows, lost>>
    BY <1>0, CommitCancelDoes
  <1>3. r # None
    BY <1>1, RequestFields
  <1>4. across \subseteq across'
    BY <1>0, <1>2 DEF Across
  <1>5. Waiting \subseteq Ids
    BY DEF Waiting
  <1>6. /\ \E i \in DOMAIN mails : mails[i] = Mail(p, "canceled", event)
        /\ \A c \in promoted : \E i \in DOMAIN mails : mails[i] = Mail(c, "promoted", event)
    <2>1. p \in Ids /\ promoted \subseteq Ids /\ event \in SUBSET Int
      BY <1>0, <1>2, <1>5
    <2>2. /\ \E i \in DOMAIN CancelMails(p, promoted, event) :
               CancelMails(p, promoted, event)[i] = Mail(p, "canceled", event)
          /\ \A c \in promoted : \E i \in DOMAIN CancelMails(p, promoted, event) :
               CancelMails(p, promoted, event)[i] = Mail(c, "promoted", event)
      BY <2>1, CancelMailsToAll
    <2> QED BY <1>0, <2>2
  <1>7. Days(rows)' = Days(rows)
    BY <1>2 DEF Days
  <1>8. event = Days(rows) \/ promoted \subseteq across'
    BY <1>0, <1>2 DEF Across
  <1>9. HasMail(r, Mail(p, "canceled", event)) /\ \A c \in promoted : HasMail(r, Mail(c, "promoted", event))
    BY <1>1, <1>3, <1>6 DEF HasMail
  <1>10. \A c, kind : /\ Mail(c, kind, event).to = c /\ Mail(c, kind, event).kind = kind
                      /\ Mail(c, kind, event).event = event
    BY DEF Mail
  <1>11. Expects(p, {"canceled"})'
    <2> DEFINE mail == Mail(p, "canceled", event)
    <2>1. HasMail(r, mail) /\ mail.to = p /\ mail.kind = "canceled"
      BY <1>9, <1>10
    <2> HIDE DEF mail
    <2> QED BY <1>1, <2>1, NowExpected
  <1>12. ASSUME NEW c \in promoted
         PROVE  Expects(c, {"booked", "promoted"})' /\ (c \notin across' => ExpectsDates(c)')
    <2> DEFINE mail == Mail(c, "promoted", event)
    <2>1. HasMail(r, mail) /\ mail.to = c /\ mail.kind = "promoted" /\ mail.event = event
      BY <1>9, <1>10
    <2> HIDE DEF mail
    <2> QED BY <1>1, <1>7, <1>8, <2>1, NowExpected
  <1>13. ASSUME NEW b \in Ids \ lost PROVE PersonOK(b)'
    <2>1. CASE b = p
      <3>1. booking'[b] = "canceled"
        BY <1>2, <2>1
      <3> QED BY <1>11, <2>1, <3>1 DEF PersonOK
    <2>2. CASE b # p /\ b \in promoted
      <3>1. booking'[b] = "seat"
        BY <1>2, <2>2
      <3> QED BY <1>12, <2>2, <3>1 DEF PersonOK
    <2>3. CASE b # p /\ b \notin promoted
      <3>1. booking'[b] = booking[b]
        BY <1>2, <2>3
      <3>2. PersonOK(b)
        BY DEF PeopleOK
      <3>3. b \in across => b \in across'
        BY <1>4
      <3>4. req[w] # None /\ req[w].queue = <<>> /\ req[w].pc # "list"
        BY <1>2
      <3>5. told' = told /\ knows' = knows /\ rows' = rows /\ raced' = raced
        BY <1>2
      <3> QED BY <1>1, <3>1, <3>2, <3>3, <3>4, <3>5, PersonElsewhere
    <2> QED BY <2>1, <2>2, <2>3
  <1> QED BY <1>2, <1>13 DEF PeopleOK

LEMMA PeopleAfterSave ==
  ASSUME TypeOK, RequestsOK, DatesOK, PeopleOK, NEW w \in Workers, CommitDates(w)
  PROVE  PeopleOK'
  <1>1. PICK r : /\ req' = [req EXCEPT ![w] = r] /\ r \in Request
                 /\ r.pc = "list" /\ r.event = req[w].event
    BY CommitDatesDoes
  <1>2. /\ req[w] # None /\ req[w].pc = "commit" /\ req[w].queue = <<>> /\ w \in Saving
        /\ rows' = Saved(req[w])
    BY CommitDatesDoes
  <1>3. UNCHANGED <<booking, told, lost, raced>>
    BY CommitDatesDoes DEF others
  <1>4. \A mail : ~HasMail(req[w], mail)
    BY <1>2 DEF HasMail
  <1>5. ~raced => r.event = Days(rows)'
    <2> SUFFICES ASSUME ~raced PROVE r.event = Days(rows)'
      OBVIOUS
    <2>1. req[w].seen = rows /\ req[w].event = Days(Rows(req[w].id, req[w].days))
      BY <1>2 DEF DatesOK
    <2>2. rows' = Rows(req[w].id, req[w].days)
      BY <1>2, <2>1 DEF Saved
    <2> QED BY <1>1, <2>1, <2>2 DEF Days
  <1>6. ASSUME NEW b \in Ids \ lost PROVE PersonOK(b)'
    <2>1. PersonOK(b)
      BY DEF PeopleOK
    <2>2. \A kinds : Expects(b, kinds) => Expects(b, kinds)'
      <3> SUFFICES ASSUME NEW kinds, Expects(b, kinds) PROVE Expects(b, kinds)'
        OBVIOUS
      <3>1. \A mail : (HasMail(req[w], mail) /\ mail.to = b /\ mail.kind \in kinds) => HasMail(r, mail)
        BY <1>4
      <3>2. req' = [req EXCEPT ![w] = r]
        BY <1>1
      <3> QED BY <3>1, <3>2, StillExpected
    <2>3. ~raced' => ExpectsDates(b)'
      <3>1. req'[w] = r /\ r # None
        BY <1>1, RequestFields DEF TypeOK
      <3> QED BY <1>1, <1>3, <1>5, <3>1 DEF ExpectsDates
    <2>4. booking'[b] \in {"canceled", "waiting"} => booking'[b] \in told'[b] \/ Expects(b, {booking[b]})'
      BY <1>3, <2>1, <2>2 DEF PersonOK
    <2>5. booking'[b] = "seat" => told'[b] \cap {"booked", "promoted"} # {} \/ Expects(b, {"booked", "promoted"})'
      BY <1>3, <2>1, <2>2 DEF PersonOK
    <2> QED BY <1>3, <2>3, <2>4, <2>5 DEF PersonOK, Expects, Queued
  <1> QED BY <1>3, <1>6 DEF PeopleOK

LEMMA PeopleAfterList ==
  ASSUME TypeOK, RequestsOK, PeopleOK, NEW w \in Workers, ListAttendees(w)
  PROVE  PeopleOK'
  <1>1. /\ req[w] # None /\ req[w].pc = "list" /\ req[w].queue = <<>> /\ req[w].event \in SUBSET Int
        /\ UNCHANGED <<rows, booking, told, knows, lost, across, raced>>
    BY ListAttendeesDoes DEF others
  <1>2. PICK event : event = req[w].event
    OBVIOUS
  <1>3. PICK r : /\ req' = [req EXCEPT ![w] = r]
                 /\ HasSeat # {} => r # None /\ r.queue = MailsTo(HasSeat, "schedule", event)
    BY <1>2, ListAttendeesDoes, RequestFields
  <1>4. ASSUME NEW b \in HasSeat PROVE HasMail(r, Mail(b, "schedule", event))
    <2>1. event \in SUBSET Int
      BY <1>1, <1>2
    <2>2. \E i \in DOMAIN MailsTo(HasSeat, "schedule", event) :
            MailsTo(HasSeat, "schedule", event)[i] = Mail(b, "schedule", event)
      BY <2>1, HasSeatIds, MailToEach, KindNames
    <2> QED BY <1>3, <2>2 DEF HasMail
  <1>5. \A mail : ~HasMail(req[w], mail)
    BY <1>1 DEF HasMail
  <1>6. Days(rows)' = Days(rows)
    BY <1>1 DEF Days
  <1>7. ASSUME NEW b \in Ids \ lost PROVE PersonOK(b)'
    <2>1. PersonOK(b)
      BY DEF PeopleOK
    <2>2. \A kinds : Expects(b, kinds) => Expects(b, kinds)'
      BY <1>3, <1>5, StillExpected
    <2>3. (booking[b] = "seat" /\ ExpectsDates(b)) => ExpectsDates(b)'
      <3> SUFFICES ASSUME booking[b] = "seat", ExpectsDates(b) PROVE ExpectsDates(b)'
        OBVIOUS
      <3>1. req'[w] = r /\ \A v \in Workers \ {w} : req'[v] = req[v]
        BY <1>3 DEF TypeOK
      <3>2. CASE event = Days(rows)
        <4> DEFINE mail == Mail(b, "schedule", event)
        <4>1. HasMail(r, mail) /\ mail.to = b /\ mail.kind = "schedule" /\ mail.event = Days(rows)'
          BY <1>4, <1>6, <3>2 DEF HasSeat, Mail
        <4> HIDE DEF mail
        <4> QED BY <1>3, <4>1, NowExpected
      <3>3. CASE event # Days(rows)
        <4>1. PICK v \in Workers : req[v] # None /\
                \/ req[v].pc = "list" /\ req[v].event = Days(rows)
                \/ \E mail \in Queued(v) :
                     mail.to = b /\ mail.kind \in {"booked", "promoted", "schedule"} /\ mail.event = Days(rows)
          BY DEF ExpectsDates
        <4>2. v # w
          BY <1>1, <1>2, <3>3, <4>1 DEF Queued
        <4>3. req'[v] = req[v]
          BY <3>1, <4>2
        <4> QED BY <1>6, <4>1, <4>3 DEF ExpectsDates, Queued
      <3> QED BY <3>2, <3>3
    <2>4. booking'[b] \in {"canceled", "waiting"} => booking'[b] \in told'[b] \/ Expects(b, {booking[b]})'
      BY <1>1, <2>1, <2>2 DEF PersonOK
    <2>5. booking'[b] = "seat" => told'[b] \cap {"booked", "promoted"} # {} \/ Expects(b, {"booked", "promoted"})'
      BY <1>1, <2>1, <2>2 DEF PersonOK
    <2>6. (booking'[b] = "seat" /\ b \notin across' /\ ~raced') => Days(rows)' \in knows'[b] \/ ExpectsDates(b)'
      BY <1>1, <1>6, <2>1, <2>3 DEF PersonOK
    <2> QED BY <1>1, <2>4, <2>5, <2>6 DEF PersonOK, Expects, Queued, Days
  <1> QED BY <1>1, <1>7 DEF PeopleOK

LEMMA PeopleAfterMail ==
  ASSUME TypeOK, RequestsOK, PeopleOK, NEW w \in Workers, SendMail(w)
  PROVE  PeopleOK'
  <1>1. PICK mails, mail, rest : mails = req[w].queue /\ mail = Head(mails) /\ rest = Tail(mails)
    OBVIOUS
  <1>2. PICK r : /\ req' = [req EXCEPT ![w] = r]
                 /\ \/ r = None /\ rest = <<>> /\ req[w].op # "remind"
                    \/ r \in Request /\ r.op = req[w].op /\ r.queue = rest /\ r.pc \in {"send", "mark"}
    BY <1>1, SendMailDoes
  <1>3. /\ req[w] # None /\ req[w].pc = "send" /\ mails # <<>> /\ mails \in Seq(Email)
        /\ told' = IF mail.kind \in {"reminder", "schedule"} THEN told
                   ELSE [told EXCEPT ![mail.to] = @ \cup {mail.kind}]
        /\ knows' = IF mail.kind \notin {"booked", "promoted", "schedule"} THEN knows
                    ELSE [knows EXCEPT ![mail.to] = @ \cup {mail.event}]
        /\ UNCHANGED <<booking, lost, across, rows, raced>>
    BY <1>1, SendMailDoes
  <1>4. /\ mail = mails[1] /\ mail \in Email
        /\ \A i \in DOMAIN mails : i = 1 \/ \E j \in DOMAIN rest : rest[j] = mails[i]
    BY <1>1, <1>3, HeadAndRest
  <1>5. mail.to \in Ids
    BY <1>4 DEF Email
  <1>6. \A m : HasMail(req[w], m) => m = mail \/ HasMail(r, m)
    <2> SUFFICES ASSUME NEW m, HasMail(req[w], m), m # mail PROVE HasMail(r, m)
      OBVIOUS
    <2>1. PICK i \in DOMAIN mails : mails[i] = m
      BY <1>1 DEF HasMail
    <2>2. PICK j \in DOMAIN rest : rest[j] = m
      BY <1>4, <2>1
    <2>3. rest # <<>>
      BY <2>2
    <2> QED BY <1>2, <2>2, <2>3, RequestFields DEF HasMail
  <1>7. Days(rows)' = Days(rows)
    BY <1>3 DEF Days
  <1>8. \A b \in Ids : told[b] \subseteq told'[b] /\ knows[b] \subseteq knows'[b]
    BY <1>3, <1>5 DEF TypeOK
  <1>9. mail.kind \notin {"reminder", "schedule"} => mail.kind \in told'[mail.to]
    BY <1>3, <1>5 DEF TypeOK
  <1>10. mail.kind \in {"booked", "promoted", "schedule"} => mail.event \in knows'[mail.to]
    BY <1>3, <1>5 DEF TypeOK
  <1>11. ASSUME NEW b \in Ids \ lost PROVE PersonOK(b)'
    <2>1. PersonOK(b)
      BY DEF PeopleOK
    <2>2. ASSUME NEW kinds, Expects(b, kinds), \A k \in kinds : k \notin {"reminder", "schedule"}
          PROVE  told'[b] \cap kinds # {} \/ Expects(b, kinds)'
      <3>1. CASE mail.to = b /\ mail.kind \in kinds
        BY <1>9, <2>2, <3>1
      <3>2. CASE ~(mail.to = b /\ mail.kind \in kinds)
        <4>1. \A m : (HasMail(req[w], m) /\ m.to = b /\ m.kind \in kinds) => HasMail(r, m)
          BY <1>6, <3>2
        <4> QED BY <1>2, <2>2, <4>1, StillExpected
      <3> QED BY <3>1, <3>2
    <2>3. ExpectsDates(b) => Days(rows)' \in knows'[b] \/ ExpectsDates(b)'
      <3> SUFFICES ASSUME ExpectsDates(b), Days(rows) \notin knows'[b] PROVE ExpectsDates(b)'
        BY <1>7
      <3>1. ~Open(w, "list")
        BY <1>3 DEF Open
      <3>2. \A m : (HasMail(req[w], m) /\ m.to = b /\ m.kind \in {"booked", "promoted", "schedule"}
                      /\ m.event = Days(rows)) => HasMail(r, m)
        BY <1>6, <1>10
      <3> QED BY <1>2, <1>3, <3>1, <3>2, DatesStillExpected
    <2>4. booking[b] \in {"canceled", "waiting"} => booking[b] \in told'[b] \/ Expects(b, {booking[b]})'
      <3> SUFFICES ASSUME booking[b] \in {"canceled", "waiting"}, booking[b] \notin told[b]
                   PROVE  booking[b] \in told'[b] \/ Expects(b, {booking[b]})'
        BY <1>8
      <3>1. PICK kind : kind = booking[b]
        OBVIOUS
      <3>2. Expects(b, {kind})
        BY <2>1, <3>1 DEF PersonOK
      <3>3. told'[b] \cap {kind} # {} \/ Expects(b, {kind})'
        BY <2>2, <3>1, <3>2
      <3>4. booking' = booking
        BY <1>3
      <3> QED BY <3>1, <3>3, <3>4
    <2>5. booking[b] = "seat" => told'[b] \cap {"booked", "promoted"} # {} \/ Expects(b, {"booked", "promoted"})'
      <3> SUFFICES ASSUME booking[b] = "seat", told[b] \cap {"booked", "promoted"} = {}
                   PROVE  told'[b] \cap {"booked", "promoted"} # {} \/ Expects(b, {"booked", "promoted"})'
        BY <1>8
      <3>1. Expects(b, {"booked", "promoted"})
        BY <2>1 DEF PersonOK
      <3> QED BY <2>2, <3>1
    <2>6. (booking[b] = "seat" /\ b \notin across /\ ~raced) => Days(rows)' \in knows'[b] \/ ExpectsDates(b)'
      BY <1>7, <1>8, <2>1, <2>3 DEF PersonOK
    <2> QED BY <1>3, <2>4, <2>5, <2>6 DEF PersonOK, Expects, Queued, Days
  <1> QED BY <1>3, <1>11 DEF PeopleOK

\* Whoever should have got one of the mails of a request that ends early is noted.
LEMMA PeopleAfterFailure ==
  ASSUME TypeOK, RequestsOK, PeopleOK, NEW w \in Workers, Fail(w)
  PROVE  PeopleOK'
  <1>1. /\ req[w] # None /\ req' = [req EXCEPT ![w] = None]
        /\ lost' = IF req[w].op = "remind" THEN lost ELSE lost \cup Recipients(w)
        /\ UNCHANGED <<rows, raced, booking, told, knows, across>>
    BY FailDoes
  <1>2. RequestOK(req[w])
    BY <1>1 DEF RequestsOK
  <1>3. Days(rows)' = Days(rows)
    BY <1>1 DEF Days
  <1>4. ASSUME NEW b \in Ids \ lost' PROVE PersonOK(b)'
    <2>1. PersonOK(b)
      BY <1>1, <1>4 DEF PeopleOK
    <2>2. \A mail : HasMail(req[w], mail) => mail.to # b \/ mail.kind = "reminder"
      <3>1. CASE req[w].op = "remind"
        BY <1>2, <3>1 DEF RequestOK, HasMail
      <3>2. CASE req[w].op # "remind" /\ ~Open(w, "list")
        BY <1>1, <1>4, <3>2 DEF Recipients, Queued, HasMail
      <3>3. CASE Open(w, "list")
        BY <1>2, <3>3 DEF RequestOK, HasMail, Open
      <3> QED BY <3>1, <3>2, <3>3
    <2>3. ASSUME NEW kinds, Expects(b, kinds), "reminder" \notin kinds PROVE Expects(b, kinds)'
      <3>1. \A mail : (HasMail(req[w], mail) /\ mail.to = b /\ mail.kind \in kinds) => HasMail(None, mail)
        BY <2>2, <2>3
      <3> QED BY <1>1, <2>3, <3>1, StillExpected
    <2>4. (booking[b] = "seat" /\ ExpectsDates(b)) => ExpectsDates(b)'
      <3> SUFFICES ASSUME booking[b] = "seat", ExpectsDates(b) PROVE ExpectsDates(b)'
        OBVIOUS
      <3>1. ~Open(w, "list")
        <4> SUFFICES ASSUME Open(w, "list") PROVE FALSE
          OBVIOUS
        <4>1. req[w].op # "remind"
          BY <1>2 DEF Open, RequestOK
        <4> QED BY <1>1, <1>4, <4>1 DEF Recipients, HasSeat
      <3>2. \A mail : (HasMail(req[w], mail) /\ mail.to = b /\ mail.kind \in {"booked", "promoted", "schedule"}
                        /\ mail.event = Days(rows)) => HasMail(None, mail)
        BY <2>2
      <3> QED BY <1>1, <3>1, <3>2, DatesStillExpected
    <2>5. booking[b] \in {"canceled", "waiting"} => booking[b] \in told[b] \/ Expects(b, {booking[b]})'
      <3> SUFFICES ASSUME booking[b] \in {"canceled", "waiting"}, booking[b] \notin told[b]
                   PROVE  Expects(b, {booking[b]})'
        OBVIOUS
      <3>1. PICK kind : kind = booking[b]
        OBVIOUS
      <3>2. Expects(b, {kind})
        BY <2>1, <3>1 DEF PersonOK
      <3>3. Expects(b, {kind})'
        BY <2>3, <3>1, <3>2
      <3>4. booking' = booking
        BY <1>1
      <3> QED BY <3>1, <3>3, <3>4
    <2>6. booking[b] = "seat" => told[b] \cap {"booked", "promoted"} # {} \/ Expects(b, {"booked", "promoted"})'
      BY <2>1, <2>3 DEF PersonOK
    <2>7. (booking[b] = "seat" /\ b \notin across /\ ~raced) => Days(rows)' \in knows[b] \/ ExpectsDates(b)'
      BY <1>3, <2>1, <2>4 DEF PersonOK
    <2> QED BY <1>1, <2>5, <2>6, <2>7 DEF PersonOK, Expects, Queued, Days
  <1> QED BY <1>4 DEF PeopleOK

LEMMA PeopleStep ==
  ASSUME TypeOK, RequestsOK, DatesOK, PeopleOK, NEW w \in Workers,
         \/ BeginBooking(w) \/ CommitBooking(w) \/ BeginCancel(w) \/ CommitCancel(w)
         \/ BeginUpdate(w) \/ UpdateColumns(w) \/ ReadDates(w) \/ DeleteDates(w) \/ SaveDates(w)
         \/ CommitDates(w) \/ ListAttendees(w)
         \/ BeginReminders(w) \/ FetchSubscribers(w) \/ MarkReminderSent(w)
         \/ SendMail(w) \/ Fail(w)
  PROVE  PeopleOK'
  <1>1. CASE \/ BeginBooking(w) \/ BeginCancel(w)
             \/ BeginUpdate(w) \/ UpdateColumns(w) \/ ReadDates(w) \/ DeleteDates(w) \/ SaveDates(w)
             \/ BeginReminders(w) \/ FetchSubscribers(w) \/ MarkReminderSent(w)
    <2>1. PICK r : req' = [req EXCEPT ![w] = r]
      BY <1>1, SilentSteps
    <2>2. /\ req[w] = None \/ (req[w].queue = <<>> /\ req[w].pc # "list")
          /\ UNCHANGED <<rows, booking, told, knows, lost, across>> /\ (raced => raced')
      BY <1>1, SilentSteps
    <2>3. ASSUME NEW b \in Ids \ lost PROVE PersonOK(b)'
      <3>1. PersonOK(b)
        BY DEF PeopleOK
      <3> QED BY <2>1, <2>2, <3>1, PersonElsewhere
    <2> QED BY <2>2, <2>3 DEF PeopleOK
  <1>2. CASE CommitBooking(w)
    BY <1>2, PeopleAfterBooking
  <1>3. CASE CommitCancel(w)
    BY <1>3, PeopleAfterCancelation
  <1>4. CASE CommitDates(w)
    BY <1>4, PeopleAfterSave
  <1>5. CASE ListAttendees(w)
    BY <1>5, PeopleAfterList
  <1>6. CASE SendMail(w)
    BY <1>6, PeopleAfterMail
  <1>7. CASE Fail(w)
    BY <1>7, PeopleAfterFailure
  <1> QED BY <1>1, <1>2, <1>3, <1>4, <1>5, <1>6, <1>7

-----------------------------------------------------------------------------
(* The theorems                                                             *)

LEMMA InvariantInit == Init => IInv
  <1> SUFFICES ASSUME Init PROVE IInv
    OBVIOUS
  <1>1. TypeOK /\ RequestsOK
    BY TypeInit
  <1>2. \A w \in Workers : req[w] = None
    BY DEF Init
  <1>3. DatesOK
    <2>1. Saving = {}
      BY <1>2 DEF Saving
    <2>2. PICK days \in Schedules : rows = Rows(0, days)
      BY DEF Init
    <2>3. DatesAreOfOneSave
      BY <2>2, RowsOfOneSave DEF DatesAreOfOneSave
    <2> QED BY <2>1, <2>3 DEF DatesOK
  <1>4. Reminding = {}
    BY <1>2 DEF Reminding
  <1>5. RemindersOK
    <2>1. jobs = 0 /\ vain = 0 /\ \A b \in Ids : reminded[b] = 0
      BY DEF Init
    <2>2. ASSUME NEW b \in Ids PROVE Cardinality(Owing(b)) = 0
      <3>1. Owing(b) = {}
        BY <1>4 DEF Owing
      <3> QED BY <3>1, FS_EmptySet
    <2> QED BY <1>4, <2>1, <2>2 DEF RemindersOK
  <1>6. AttendeesOK
    <2>1. marked = FALSE
      BY DEF Init
    <2> QED BY <1>4, <2>1 DEF AttendeesOK, AttendeesAreReminded
  <1>7. PeopleOK
    <2>1. \A b \in Ids : booking[b] = "none"
      BY DEF Init
    <2> QED BY <2>1 DEF PeopleOK, PersonOK
  <1> QED BY <1>1, <1>3, <1>5, <1>6, <1>7 DEF IInv

LEMMA InvariantStep == IInv /\ [Next]_vars => IInv'
  <1> SUFFICES ASSUME IInv, [Next]_vars PROVE IInv'
    OBVIOUS
  <1> USE DEF IInv
  <1>1. CASE Next
    <2>1. PICK w \in Workers :
            \/ BeginBooking(w) \/ CommitBooking(w) \/ BeginCancel(w) \/ CommitCancel(w)
            \/ BeginUpdate(w) \/ UpdateColumns(w) \/ ReadDates(w) \/ DeleteDates(w) \/ SaveDates(w)
            \/ CommitDates(w) \/ ListAttendees(w)
            \/ BeginReminders(w) \/ FetchSubscribers(w) \/ MarkReminderSent(w)
            \/ SendMail(w) \/ Fail(w)
      BY <1>1 DEF Next
    <2>2. TypeOK' /\ RequestsOK'
      BY <2>1, TypeStep
    <2>3. DatesOK'
      BY <2>1, DatesStep
    <2>4. RemindersOK'
      BY <2>1, RemindersStep
    <2>5. AttendeesOK'
      BY <2>1, AttendeesStep
    <2>6. PeopleOK'
      BY <2>1, PeopleStep
    <2> QED BY <2>2, <2>3, <2>4, <2>5, <2>6
  <1>2. CASE UNCHANGED vars
    <2> USE <1>2 DEF vars
    <2>1. TypeOK'
      BY DEF TypeOK
    <2>2. RequestsOK'
      BY DEF RequestsOK, RequestOK
    <2>3. DatesOK'
      BY DEF DatesOK, DatesAreOfOneSave, Saving, Days
    <2>4. RemindersOK'
      BY DEF RemindersOK, SentOnce, Owing, Reminding, Addressees
    <2>5. AttendeesOK'
      BY DEF AttendeesOK, AttendeesAreReminded, Reminding, HasSeat, Addressees
    <2>6. PeopleOK'
      BY DEF PeopleOK, PersonOK, Expects, ExpectsDates, Queued, Days
    <2> QED BY <2>1, <2>2, <2>3, <2>4, <2>5, <2>6
  <1> QED BY <1>1, <1>2

\* Everything a request holds while it is on its way, and what is known of those it is to
\* tell: the inductive invariant of the mails.
THEOREM MailsInvariant == Spec => []IInv
  <1> QED BY InvariantInit, InvariantStep, PTL DEF Spec

\* update_event: the dates of the event are those one administrator has saved, whatever else
\* goes on, as long as no save of the dates alone is on its way together with another.
THEOREM DatesOfOneSave == Spec => []DatesAreOfOneSave
  <1>1. IInv => DatesAreOfOneSave
    BY DEF IInv, DatesOK
  <1> QED BY <1>1, MailsInvariant, PTL

\* send_event_reminders: nobody gets more reminders of the event than there were jobs that
\* failed or met another one, and one.
THEOREM RemindersBounded == Spec => []RemindersAreBounded
  <1>1. IInv => RemindersAreBounded
    <2> SUFFICES ASSUME IInv, NEW b \in Ids PROVE reminded[b] <= vain + 1
      BY DEF RemindersAreBounded
    <2>1. IsFiniteSet(Owing(b))
      <3>1. Owing(b) \subseteq Workers
        BY DEF Owing, Reminding
      <3> QED BY <3>1, WorkersAssumption, FS_Subset
    <2>2. Cardinality(Owing(b)) \in Nat
      BY <2>1, FS_CardinalityType
    <2>3. /\ reminded[b] + Cardinality(Owing(b)) <= jobs /\ jobs <= vain + 1
          /\ reminded[b] \in Nat /\ jobs \in Nat /\ vain \in Nat
      BY DEF IInv, TypeOK, RemindersOK
    <2> QED BY <2>2, <2>3
  <1> QED BY <1>1, MailsInvariant, PTL

\* mark_as_reminder_sent comes after the last mail: once the event is marked, every attendee
\* a job has listed was reminded.
THEOREM EverybodyReminded == Spec => []AttendeesAreReminded
  <1>1. IInv => AttendeesAreReminded
    BY DEF IInv, AttendeesOK
  <1> QED BY <1>1, MailsInvariant, PTL

\* The mails of a booking, a cancelation and a change of the dates: when all is quiet, each
\* person has been told where they stand and when the event takes place, or is among those
\* whose mail was not sent.
THEOREM EverybodyTold == Spec => []PeopleAreTold
  <1>1. IInv => PeopleAreTold
    <2> SUFFICES ASSUME IInv, Quiet, NEW b \in Ids \ lost
                 PROVE  /\ booking[b] \in {"canceled", "waiting"} => booking[b] \in told[b]
                        /\ booking[b] = "seat" => told[b] \cap {"booked", "promoted"} # {}
                        /\ (booking[b] = "seat" /\ b \notin across /\ ~raced) => Days(rows) \in knows[b]
      BY DEF PeopleAreTold
    <2>1. PersonOK(b)
      BY DEF IInv, PeopleOK
    <2>2. (\A kinds : ~Expects(b, kinds)) /\ ~ExpectsDates(b)
      BY DEF Quiet, Expects, ExpectsDates
    <2> QED BY <2>1, <2>2 DEF PersonOK
  <1> QED BY <1>1, MailsInvariant, PTL
=============================================================================
