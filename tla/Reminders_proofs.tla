-------------------------- MODULE Reminders_proofs --------------------------
(***************************************************************************)
(* How far apart the reminders of a booking are, and how early the first   *)
(* one may be, for any number of bookings and of requests at once.         *)
(***************************************************************************)
EXTENDS Reminders, TLAPS

-----------------------------------------------------------------------------
(* Paydays and rows                                                         *)

LEMMA PaydayBounds ==
  ASSUME NEW until \in Int, NEW base \in Int
  PROVE  /\ Payday(until, base) \in Int
         /\ Payday(until, base) >= base + 1
         /\ Payday(until, base) >= until
         /\ Payday(until, base) = base + 1 \/ Payday(until, base) = until
  BY DEF Payday

LEMMA PaydayMonotone ==
  ASSUME NEW until \in Int, NEW a \in Int, NEW b \in Int, a <= b
  PROVE  Payday(until, a) <= Payday(until, b)
  BY DEF Payday

LEMMA DaysAreInts == Days \subseteq Int /\ None \notin Days
  BY DaysAssumption DEF Days

LEMMA RowFields ==
  ASSUME NEW r \in Row
  PROVE  /\ r.created \in Days /\ r.reminded \in Days \cup {None}
         /\ r.enrolled \in BOOLEAN /\ r.canceled \in BOOLEAN /\ r.paid \in BOOLEAN
         /\ r = [created |-> r.created, enrolled |-> r.enrolled, canceled |-> r.canceled,
                 paid |-> r.paid, reminded |-> r.reminded]
  BY DEF Row

LEMMA RowTyped ==
  ASSUME NEW d \in Days, NEW e \in BOOLEAN, NEW c \in BOOLEAN, NEW p \in BOOLEAN, NEW m \in Days \cup {None}
  PROVE  [created |-> d, enrolled |-> e, canceled |-> c, paid |-> p, reminded |-> m] \in Row
  BY DEF Row

\* What the changes of a booking do to its row.
LEMMA CanceledRow ==
  ASSUME NEW r \in Row
  PROVE  /\ [r EXCEPT !.canceled = TRUE] \in Row
         /\ [r EXCEPT !.canceled = TRUE].created = r.created
         /\ [r EXCEPT !.canceled = TRUE].reminded = r.reminded
         /\ [r EXCEPT !.canceled = TRUE].enrolled = r.enrolled
  BY DEF Row

LEMMA EnrolledRow ==
  ASSUME NEW r \in Row
  PROVE  /\ [r EXCEPT !.enrolled = TRUE] \in Row
         /\ [r EXCEPT !.enrolled = TRUE].created = r.created
         /\ [r EXCEPT !.enrolled = TRUE].reminded = r.reminded
         /\ [r EXCEPT !.enrolled = TRUE].enrolled
  BY DEF Row

LEMMA PaidRow ==
  ASSUME NEW r \in Row, NEW v \in BOOLEAN
  PROVE  /\ [r EXCEPT !.paid = v] \in Row
         /\ [r EXCEPT !.paid = v].created = r.created
         /\ [r EXCEPT !.paid = v].reminded = r.reminded
         /\ [r EXCEPT !.paid = v].enrolled = r.enrolled
  BY DEF Row

LEMMA MarkedRow ==
  ASSUME NEW r \in Row, NEW d \in Days
  PROVE  /\ [r EXCEPT !.reminded = d] \in Row
         /\ [r EXCEPT !.reminded = d].created = r.created
         /\ [r EXCEPT !.reminded = d].reminded = d
         /\ [r EXCEPT !.reminded = d].enrolled = r.enrolled
  BY DEF Row

LEMMA NoRow == None \notin Row
  BY NoneAssumption

LEMMA BaseInt ==
  ASSUME NEW r \in Row
  PROVE  Base(r) \in Int
  BY RowFields, DaysAreInts DEF Base

\* A booking that is overdue was so without its reminders, too.
LEMMA OverdueListed ==
  ASSUME NEW r \in Row, day \in Days, deadline \in Deadlines, DueInDays(r) < 0,
         r.reminded # None => r.created <= r.reminded
  PROVE  Payday(deadline, r.created) < day /\ Base(r) + 1 < day
  <1>1. r.created \in Int /\ Base(r) \in Int /\ day \in Int /\ deadline \in Int
    BY RowFields, DaysAreInts, BaseInt, DaysAssumption
  <1>2. r.created <= Base(r)
    BY <1>1, RowFields, DaysAreInts DEF Base
  <1>3. Payday(deadline, r.created) <= Payday(deadline, Base(r))
    BY <1>1, <1>2, PaydayMonotone
  <1>4. Payday(deadline, r.created) \in Int /\ Payday(deadline, Base(r)) \in Int
    BY <1>1, PaydayBounds
  <1>5. Payday(deadline, Base(r)) >= Base(r) + 1
    BY <1>1, PaydayBounds
  <1> QED BY <1>1, <1>3, <1>4, <1>5 DEF DueInDays

-----------------------------------------------------------------------------
(* The inductive invariant                                                  *)

LEMMA InitIInv == Init => IInv
  <1> SUFFICES ASSUME Init PROVE IInv
    OBVIOUS
  <1>1. TypeOK
    BY DaysAssumption DEF Init, TypeOK, Days
  <1> QED BY <1>1 DEF Init, IInv, RemindersMarked, ListsOK, DaysOK

LEMMA NextDayKeepsIInv ==
  ASSUME IInv, NextDay PROVE IInv'
  <1> USE DEF NextDay, reading
  <1>1. day \in Int /\ day' = day + 1 /\ day' \in Days
    BY DaysAssumption DEF IInv, TypeOK, Days
  <1>2. TypeOK'
    BY <1>1 DEF IInv, TypeOK
  <1>3. RemindersMarked'
    BY DEF IInv, RemindersMarked
  <1>4. ListsOK'
    <2> SUFFICES ASSUME NEW p \in Workers, NEW b \in list[p]
                 PROVE  /\ row[b] # None /\ seen[p] # None
                        /\ Payday(seen[p], row[b].created) < day'
                        /\ b \in doubtful \cup sent[p] \/ Base(row[b]) + 1 < day'
      BY DEF IInv, ListsOK, Base
    <2>1. b \in Ids /\ row[b] \in Row /\ seen[p] \in Int
      BY DaysAssumption DEF IInv, TypeOK, ListsOK
    <2>2. Payday(seen[p], row[b].created) \in Int /\ Base(row[b]) \in Int
      BY <2>1, RowFields, DaysAreInts, PaydayBounds, BaseInt
    <2> QED BY <1>1, <2>2 DEF IInv, ListsOK
  <1>5. DaysOK'
    <2> SUFFICES ASSUME NEW b \in Ids PROVE
          /\ row[b] = None => mails[b] = None
          /\ b \in unsent \/ confirmed[b] # None => row[b] # None /\ row[b].enrolled /\ named[b] # None
          /\ mails[b] # None => mails[b] <= day'
          /\ row[b] # None =>
               /\ row[b].created <= day'
               /\ confirmed[b] # None => row[b].created <= confirmed[b]
               /\ row[b].reminded # None => row[b].created <= row[b].reminded /\ row[b].reminded <= day'
      BY DEF DaysOK
    <2>1. mails[b] # None => mails[b] \in Int
      BY DaysAreInts DEF IInv, TypeOK
    <2>2. row[b] # None => row[b].created \in Int /\ (row[b].reminded # None => row[b].reminded \in Int)
      BY RowFields, DaysAreInts DEF IInv, TypeOK
    <2> QED BY <1>1, <2>1, <2>2 DEF IInv, DaysOK
  <1> QED BY <1>2, <1>3, <1>4, <1>5 DEF IInv

\* What is listed, or named in a mail, keeps the deadline it was read with.
LEMMA UpdateEventKeepsIInv ==
  ASSUME IInv, UpdateEvent PROVE IInv'
  <1>1. TypeOK'
    BY DEF UpdateEvent, reading, IInv, TypeOK
  <1>2. ListsOK'
    BY DEF UpdateEvent, reading, IInv, ListsOK, Base
  <1> QED BY <1>1, <1>2 DEF UpdateEvent, reading, IInv, RemindersMarked, DaysOK

\* Reading the event for a mail changes nothing but that.
LEMMA ReadTyped ==
  ASSUME TypeOK, NEW b \in Ids, ReadForMail(b)
  PROVE  /\ unsent' \subseteq Ids /\ named' \in [Ids -> Deadlines \cup {None}]
         /\ b \in unsent' => b \in unsent \/ named'[b] # None
         /\ \A c \in Ids : c # b => (c \in unsent' => c \in unsent) /\ named'[c] = named[c]
  BY DEF ReadForMail, TypeOK

\* A change of a booking that leaves its two dates alone.
LEMMA TouchKeepsIInv ==
  ASSUME IInv, NEW b \in Ids, row[b] # None, NEW r \in Row,
         r.created = row[b].created, r.reminded = row[b].reminded,
         row' = [row EXCEPT ![b] = r],
         \/ r.enrolled = row[b].enrolled /\ UNCHANGED <<unsent, named>>
         \/ r.enrolled /\ ~row[b].enrolled /\ ReadForMail(b),
         UNCHANGED <<day, deadline, confirmed, mails, doubtful, list, seen, sent>>
  PROVE  IInv'
  <1>1. TypeOK'
    <2>1. unsent' \subseteq Ids /\ named' \in [Ids -> Deadlines \cup {None}]
      BY ReadTyped DEF IInv, TypeOK
    <2>2. row' \in [Ids -> Row \cup {None}]
      BY DEF IInv, TypeOK
    <2> QED BY <2>1, <2>2 DEF IInv, TypeOK
  <1>2. \A c \in Ids : row'[c] = IF c = b THEN r ELSE row[c]
    BY DEF IInv, TypeOK
  <1>3. r # None
    BY NoRow
  <1>4. RemindersMarked'
    BY <1>2, <1>3 DEF IInv, RemindersMarked
  <1>5. ListsOK'
    <2> SUFFICES ASSUME NEW p \in Workers, NEW c \in list[p]
                 PROVE  /\ row'[c] # None /\ seen[p] # None
                        /\ Payday(seen[p], row'[c].created) < day
                        /\ c \in doubtful \cup sent[p] \/ Base(row'[c]) + 1 < day
      BY DEF IInv, ListsOK, Base
    <2>1. c \in Ids
      BY DEF IInv, TypeOK
    <2>2. row'[c] # None /\ row'[c].created = row[c].created /\ row'[c].reminded = row[c].reminded
      BY <1>2, <1>3, <2>1 DEF IInv, ListsOK
    <2>3. Base(row'[c]) = Base(row[c])
      BY <2>2 DEF Base
    <2> QED BY <2>2, <2>3 DEF IInv, ListsOK
  <1>6. DaysOK'
    <2> SUFFICES ASSUME NEW c \in Ids PROVE
          /\ row'[c] = None => mails[c] = None
          /\ c \in unsent' \/ confirmed[c] # None => row'[c] # None /\ row'[c].enrolled /\ named'[c] # None
          /\ mails[c] # None => mails[c] <= day
          /\ row'[c] # None =>
               /\ row'[c].created <= day
               /\ confirmed[c] # None => row'[c].created <= confirmed[c]
               /\ row'[c].reminded # None => row'[c].created <= row'[c].reminded /\ row'[c].reminded <= day
      BY DEF DaysOK
    <2>1. CASE UNCHANGED <<unsent, named>>
      BY <1>2, <1>3, <2>1 DEF IInv, DaysOK
    <2>2. CASE r.enrolled /\ ~row[b].enrolled /\ ReadForMail(b)
      <3>1. b \notin unsent /\ confirmed[b] = None
        BY <2>2 DEF IInv, DaysOK
      <3>2. b \in unsent' => named'[b] # None
        BY <2>2, <3>1, ReadTyped DEF IInv
      <3>3. c # b => (c \in unsent' => c \in unsent) /\ named'[c] = named[c] /\ row'[c] = row[c]
        BY <1>2, <2>2, ReadTyped DEF IInv
      <3>4. CASE c = b
        BY <1>2, <1>3, <2>2, <3>1, <3>2, <3>4 DEF IInv, DaysOK
      <3>5. CASE c # b
        BY <3>3, <3>5 DEF IInv, DaysOK
      <3> QED BY <3>4, <3>5
    <2> QED BY <2>1, <2>2
  <1> QED BY <1>1, <1>4, <1>5, <1>6 DEF IInv

LEMMA BookKeepsIInv ==
  ASSUME IInv, NEW b \in Ids, Book(b) PROVE IInv'
  <1> USE DEF Book
  <1>1. PICK seat \in BOOLEAN :
          /\ row' = [row EXCEPT ![b] = [created |-> day, enrolled |-> seat, canceled |-> FALSE,
                                        paid |-> FALSE, reminded |-> None]]
          /\ IF seat THEN ReadForMail(b) ELSE UNCHANGED <<unsent, named>>
    OBVIOUS
  <1> DEFINE r == [created |-> day, enrolled |-> seat, canceled |-> FALSE, paid |-> FALSE, reminded |-> None]
  <1>2. r \in Row /\ r.created = day /\ r.reminded = None /\ r.enrolled = seat
    BY RowTyped DEF IInv, TypeOK
  <1>3. row' = [row EXCEPT ![b] = r]
    BY <1>1
  <1> HIDE DEF r
  <1>4. \A c \in Ids : row'[c] = IF c = b THEN r ELSE row[c]
    BY <1>3 DEF IInv, TypeOK
  <1>5. r # None /\ row[b] = None
    BY <1>2, NoRow
  <1>6. day \in Int
    BY DaysAreInts DEF IInv, TypeOK
  <1>7. TypeOK'
    <2>1. unsent' \subseteq Ids /\ named' \in [Ids -> Deadlines \cup {None}]
      BY <1>1, ReadTyped DEF IInv, TypeOK
    <2>2. row' \in [Ids -> Row \cup {None}]
      BY <1>2, <1>3 DEF IInv, TypeOK
    <2> QED BY <2>1, <2>2 DEF IInv, TypeOK
  <1>8. RemindersMarked'
    BY <1>4, <1>5 DEF IInv, RemindersMarked, DaysOK
  <1>9. ListsOK'
    <2> SUFFICES ASSUME NEW p \in Workers, NEW c \in list[p]
                 PROVE  /\ row'[c] # None /\ seen[p] # None
                        /\ Payday(seen[p], row'[c].created) < day
                        /\ c \in doubtful \cup sent[p] \/ Base(row'[c]) + 1 < day
      BY DEF IInv, ListsOK, Base
    <2>1. c \in Ids /\ c # b
      BY <1>5 DEF IInv, TypeOK, ListsOK
    <2>2. row'[c] = row[c]
      BY <1>4, <2>1
    <2> QED BY <2>2 DEF IInv, ListsOK
  <1>10. DaysOK'
    <2> SUFFICES ASSUME NEW c \in Ids PROVE
          /\ row'[c] = None => mails[c] = None
          /\ c \in unsent' \/ confirmed[c] # None => row'[c] # None /\ row'[c].enrolled /\ named'[c] # None
          /\ mails[c] # None => mails[c] <= day
          /\ row'[c] # None =>
               /\ row'[c].created <= day
               /\ confirmed[c] # None => row'[c].created <= confirmed[c]
               /\ row'[c].reminded # None => row'[c].created <= row'[c].reminded /\ row'[c].reminded <= day
      BY DEF DaysOK
    <2>1. CASE c = b
      <3>1. row'[c] = r /\ r # None /\ r.created = day /\ r.reminded = None /\ day <= day
        BY <1>2, <1>4, <1>5, <1>6, <2>1
      <3>2. mails[c] = None /\ confirmed[c] = None /\ c \notin unsent
        BY <1>5, <2>1 DEF IInv, DaysOK
      <3>3. c \in unsent' => r.enrolled /\ named'[c] # None
        BY <1>1, <1>2, <2>1, <3>2, ReadTyped DEF IInv
      <3> QED BY <3>1, <3>2, <3>3
    <2>2. CASE c # b
      <3>1. row'[c] = row[c] /\ (c \in unsent' => c \in unsent) /\ named'[c] = named[c]
        BY <1>1, <1>4, <2>2, ReadTyped DEF IInv
      <3> QED BY <3>1 DEF IInv, DaysOK
    <2> QED BY <2>1, <2>2
  <1> QED BY <1>7, <1>8, <1>9, <1>10 DEF IInv

LEMMA CancelKeepsIInv ==
  ASSUME IInv, NEW b \in Ids, Cancel(b) PROVE IInv'
  <1> DEFINE r == [row[b] EXCEPT !.canceled = TRUE]
  <1>1. row[b] \in Row /\ row[b] # None
    BY DEF IInv, TypeOK, Cancel
  <1>3. r \in Row /\ r.created = row[b].created /\ r.reminded = row[b].reminded /\ r.enrolled = row[b].enrolled
    BY <1>1, CanceledRow
  <1>4. row' = [row EXCEPT ![b] = r]
    BY <1>1 DEF Cancel, IInv, TypeOK
  <1> HIDE DEF r
  <1> QED BY <1>1, <1>3, <1>4, TouchKeepsIInv DEF Cancel, reading

LEMMA MoveUpKeepsIInv ==
  ASSUME IInv, NEW b \in Ids, MoveUp(b) PROVE IInv'
  <1> DEFINE r == [row[b] EXCEPT !.enrolled = TRUE]
  <1>1. row[b] \in Row /\ row[b] # None
    BY DEF IInv, TypeOK, MoveUp, Waiting
  <1>3. r \in Row /\ r.created = row[b].created /\ r.reminded = row[b].reminded /\ r.enrolled
    BY <1>1, EnrolledRow
  <1>4. row' = [row EXCEPT ![b] = r]
    BY <1>1 DEF MoveUp, IInv, TypeOK
  <1> HIDE DEF r
  <1> QED BY <1>1, <1>3, <1>4, TouchKeepsIInv DEF MoveUp, Waiting

LEMMA SetPaidKeepsIInv ==
  ASSUME IInv, NEW b \in Ids, SetPaid(b) PROVE IInv'
  <1> DEFINE v == ~row[b].paid
             r == [row[b] EXCEPT !.paid = v]
  <1>1. row[b] \in Row /\ row[b] # None
    BY DEF IInv, TypeOK, SetPaid
  <1>2. v \in BOOLEAN
    OBVIOUS
  <1>3. r \in Row /\ r.created = row[b].created /\ r.reminded = row[b].reminded /\ r.enrolled = row[b].enrolled
    <2> HIDE DEF v
    <2> QED BY <1>1, <1>2, PaidRow
  <1>4. row' = [row EXCEPT ![b] = r]
    BY <1>1 DEF SetPaid, IInv, TypeOK
  <1> HIDE DEF r
  <1> QED BY <1>1, <1>3, <1>4, TouchKeepsIInv DEF SetPaid, reading

LEMMA ConfirmKeepsIInv ==
  ASSUME IInv, NEW b \in Ids, Confirm(b) PROVE IInv'
  <1> USE DEF Confirm, reading
  <1>1. TypeOK'
    BY DEF IInv, TypeOK
  <1>2. RemindersMarked'
    BY DEF IInv, RemindersMarked
  <1>3. ListsOK'
    BY DEF IInv, ListsOK, Base
  <1>4. DaysOK'
    <2>1. \A c \in Ids : confirmed'[c] = IF c = b THEN day ELSE confirmed[c]
      BY DEF IInv, TypeOK
    <2>2. row[b] # None
      BY DEF IInv, DaysOK
    <2> QED BY <2>1, <2>2 DEF IInv, DaysOK
  <1> QED BY <1>1, <1>2, <1>3, <1>4 DEF IInv

LEMMA BeginKeepsIInv ==
  ASSUME IInv, NEW p \in Workers, Begin(p) PROVE IInv'
  <1> USE DEF Begin
  <1>1. \A q \in Workers : list'[q] = IF q = p THEN Overdue ELSE list[q]
    BY DEF IInv, TypeOK
  <1>2. Overdue \subseteq Ids
    BY DEF Overdue
  <1>a. deadline \in Deadlines
    BY DEF Overdue, IInv, TypeOK
  <1>b. \A q \in Workers : seen'[q] = IF q = p THEN deadline ELSE seen[q]
    BY DEF IInv, TypeOK
  <1>3. TypeOK'
    BY <1>2 DEF IInv, TypeOK
  <1>4. RemindersMarked'
    BY DEF IInv, RemindersMarked
  <1>5. sent[p] = {}
    BY DEF IInv, ListsOK, Running
  <1>6. ListsOK'
    <2>1. ASSUME NEW q \in Workers PROVE sent[q] \subseteq list'[q]
      BY <1>1, <1>5 DEF IInv, ListsOK
    <2>2. ASSUME NEW q \in Workers, NEW s \in Workers, q # s
          PROVE  list'[q] \cap list'[s] \subseteq doubtful'
      <3>1. \A t \in Workers : t # p => list[t] \subseteq ListedByOthers(p)
        BY DEF ListedByOthers
      <3>2. CASE q = p
        BY <1>1, <2>2, <3>1, <3>2
      <3>3. CASE s = p
        BY <1>1, <2>2, <3>1, <3>3
      <3>4. CASE q # p /\ s # p
        BY <1>1, <2>2, <3>4 DEF IInv, ListsOK
      <3> QED BY <3>2, <3>3, <3>4
    <2>3. ASSUME NEW q \in Workers, NEW b \in list'[q]
          PROVE  /\ row[b] # None /\ seen'[q] # None
                 /\ Payday(seen'[q], row[b].created) < day
                 /\ b \in doubtful' \cup sent[q] \/ Base(row[b]) + 1 < day
      <3>1. CASE q = p
        <4> b \in Overdue
          BY <1>1, <3>1
        <4>1. b \in Ids /\ row[b] # None /\ DueInDays(row[b]) < 0 /\ deadline # None
          BY DEF Overdue, Unpaid
        <4>2. row[b] \in Row /\ day \in Days
          BY <4>1 DEF IInv, TypeOK
        <4>3. Payday(deadline, row[b].created) < day /\ Base(row[b]) + 1 < day
          BY <1>a, <4>1, <4>2, OverdueListed DEF IInv, DaysOK
        <4> QED BY <1>b, <3>1, <4>1, <4>3
      <3>2. CASE q # p
        BY <1>1, <1>b, <3>2 DEF IInv, ListsOK
      <3> QED BY <3>1, <3>2
    <2> QED BY <2>1, <2>2, <2>3 DEF ListsOK, Base
  <1>7. DaysOK'
    BY DEF IInv, DaysOK
  <1> QED BY <1>3, <1>4, <1>6, <1>7 DEF IInv

LEMMA SendKeepsIInv ==
  ASSUME IInv, NEW p \in Workers, NEW b \in Ids, Send(p, b) PROVE IInv'
  <1> USE DEF Send, reading
  <1>1. \A q \in Workers : sent'[q] = IF q = p THEN sent[p] \cup {b} ELSE sent[q]
    BY DEF IInv, TypeOK
  <1>2. \A c \in Ids : mails'[c] = IF c = b THEN day ELSE mails[c]
    BY DEF IInv, TypeOK
  <1>3. TypeOK'
    BY DEF IInv, TypeOK
  <1>4. RemindersMarked'
    <2> SUFFICES ASSUME NEW c \in Ids, mails'[c] # None, c \notin doubtful
                 PROVE  \/ row[c].reminded # None /\ mails'[c] <= row[c].reminded
                        \/ \E q \in Workers : c \in sent'[q]
      BY DEF RemindersMarked
    <2>1. CASE c = b
      BY <1>1, <2>1
    <2>2. CASE c # b
      BY <1>1, <1>2, <2>2 DEF IInv, RemindersMarked
    <2> QED BY <2>1, <2>2
  <1>5. ListsOK'
    <2>1. \A q \in Workers : sent'[q] \subseteq list[q] /\ sent[q] \subseteq sent'[q]
      BY <1>1 DEF IInv, ListsOK
    <2> QED BY <2>1 DEF IInv, ListsOK, Base
  <1>6. DaysOK'
    <2>1. row[b] # None /\ day <= day
      BY DaysAreInts DEF IInv, ListsOK, TypeOK
    <2> QED BY <1>2, <2>1 DEF IInv, DaysOK
  <1> QED BY <1>3, <1>4, <1>5, <1>6 DEF IInv

\* Marking ends the list of one request; what it shares with others is doubtful.
LEMMA MarkKeepsIInv ==
  ASSUME IInv, NEW p \in Workers, Mark(p) PROVE IInv'
  <1> DEFINE R(c) == [row[c] EXCEPT !.reminded = day]
  <1>1. UNCHANGED <<day, deadline, unsent, named, confirmed, mails>>
    BY DEF Mark
  <1>a. /\ list' = [list EXCEPT ![p] = {}] /\ list \in [Workers -> SUBSET Ids]
        /\ sent' = [sent EXCEPT ![p] = {}] /\ sent \in [Workers -> SUBSET Ids]
        /\ seen' = [seen EXCEPT ![p] = None] /\ seen \in [Workers -> Deadlines \cup {None}]
    BY DEF Mark, Done, IInv, TypeOK
  <1>b. \A q \in Workers : list'[q] = IF q = p THEN {} ELSE list[q]
    BY <1>a
  <1>c. \A q \in Workers : /\ sent'[q] = IF q = p THEN {} ELSE sent[q]
                           /\ seen'[q] = IF q = p THEN None ELSE seen[q]
    BY <1>a
  <1>2. \A c \in list[p] : c \in Ids /\ row[c] \in Row /\ row[c] # None
    BY DEF IInv, TypeOK, ListsOK
  <1>3. \A c \in Ids : row'[c] = IF c \in list[p] THEN R(c) ELSE row[c]
    BY DEF Mark, Marked
  <1>d. doubtful' = doubtful \ (list[p] \ ListedByOthers(p))
    BY DEF Mark
  <1>4. day \in Days /\ day \in Int /\ day # None
    BY DaysAreInts DEF IInv, TypeOK
  <1>5. ASSUME NEW c \in list[p]
        PROVE  /\ R(c) \in Row /\ R(c) # None /\ R(c).created = row[c].created /\ R(c).reminded = day
               /\ R(c).enrolled = row[c].enrolled
    BY <1>2, <1>4, MarkedRow, NoRow
  <1> HIDE DEF R
  <1>6. TypeOK'
    <2>1. row' \in [Ids -> Row \cup {None}]
      BY <1>3, <1>5 DEF IInv, TypeOK, R, Mark, Marked
    <2>2. doubtful' \subseteq Ids
      BY <1>d DEF IInv, TypeOK
    <2> QED BY <1>1, <1>a, <2>1, <2>2 DEF IInv, TypeOK
  <1>7. RemindersMarked'
    <2> SUFFICES ASSUME NEW c \in Ids, mails[c] # None, c \notin doubtful'
                 PROVE  \/ row'[c].reminded # None /\ mails[c] <= row'[c].reminded
                        \/ \E q \in Workers : c \in sent'[q]
      BY <1>1 DEF RemindersMarked
    <2>1. CASE c \in list[p]
      BY <1>2, <1>3, <1>4, <1>5, <2>1 DEF IInv, DaysOK
    <2>2. CASE c \notin list[p]
      <3>1. c \notin doubtful /\ c \notin sent[p]
        BY <1>d, <2>2 DEF IInv, ListsOK
      <3>2. \A q \in Workers : c \in sent[q] => c \in sent'[q]
        BY <1>c, <3>1
      <3> QED BY <1>3, <2>2, <3>1, <3>2 DEF IInv, RemindersMarked
    <2> QED BY <2>1, <2>2
  <1>8. ListsOK'
    <2>1. ASSUME NEW q \in Workers PROVE sent'[q] \subseteq list'[q]
      BY <1>b, <1>c DEF IInv, ListsOK
    <2>2. \A q \in Workers : q # p => list[q] \subseteq ListedByOthers(p)
      BY DEF ListedByOthers
    <2>3. ASSUME NEW q \in Workers, NEW s \in Workers, q # s
          PROVE  list'[q] \cap list'[s] \subseteq doubtful'
      <3>1. CASE q = p \/ s = p
        BY <1>b, <3>1
      <3>2. CASE q # p /\ s # p
        <4>1. list[q] \cap list[s] \subseteq doubtful
          BY <2>3 DEF IInv, ListsOK
        <4>2. list[q] \subseteq ListedByOthers(p)
          BY <2>2, <3>2
        <4> QED BY <1>b, <1>d, <3>2, <4>1, <4>2
      <3> QED BY <3>1, <3>2
    <2>4. ASSUME NEW q \in Workers, NEW c \in list'[q]
          PROVE  /\ row'[c] # None /\ seen'[q] # None
                 /\ Payday(seen'[q], row'[c].created) < day
                 /\ c \in doubtful' \cup sent'[q] \/ Base(row'[c]) + 1 < day
      <3>1. q # p /\ c \in list[q] /\ c \in Ids
        BY <1>b DEF IInv, TypeOK
      <3>2. /\ row[c] # None /\ seen[q] # None /\ seen'[q] = seen[q]
            /\ Payday(seen[q], row[c].created) < day
            /\ c \in doubtful \cup sent[q] \/ Base(row[c]) + 1 < day
        BY <1>c, <3>1 DEF IInv, ListsOK
      <3>3. c \in doubtful => c \in doubtful'
        BY <1>d, <2>2, <3>1
      <3>4. CASE c \in list[p]
        <4>1. c \in doubtful
          BY <3>1, <3>4 DEF IInv, ListsOK
        <4> QED BY <1>3, <1>5, <3>1, <3>2, <3>3, <3>4, <4>1
      <3>5. CASE c \notin list[p]
        <4>1. row'[c] = row[c]
          BY <1>3, <3>1, <3>5
        <4> QED BY <1>c, <3>1, <3>2, <3>3, <4>1
      <3> QED BY <3>4, <3>5
    <2> QED BY <1>1, <2>1, <2>3, <2>4 DEF ListsOK, Base
  <1>9. DaysOK'
    <2> SUFFICES ASSUME NEW c \in Ids PROVE
          /\ row'[c] = None => mails[c] = None
          /\ c \in unsent \/ confirmed[c] # None => row'[c] # None /\ row'[c].enrolled /\ named[c] # None
          /\ mails[c] # None => mails[c] <= day
          /\ row'[c] # None =>
               /\ row'[c].created <= day
               /\ confirmed[c] # None => row'[c].created <= confirmed[c]
               /\ row'[c].reminded # None => row'[c].created <= row'[c].reminded /\ row'[c].reminded <= day
      BY <1>1 DEF DaysOK
    <2>1. CASE c \in list[p]
      <3>1. row'[c] # None /\ row'[c].created = row[c].created /\ row'[c].reminded = day /\ row[c] # None
            /\ row'[c].enrolled = row[c].enrolled
        BY <1>2, <1>3, <1>5, <2>1
      <3>2. day <= day
        BY <1>4
      <3> QED BY <3>1, <3>2 DEF IInv, DaysOK
    <2>2. CASE c \notin list[p]
      <3>1. row'[c] = row[c]
        BY <1>3, <2>2
      <3> QED BY <3>1 DEF IInv, DaysOK
    <2> QED BY <2>1, <2>2
  <1> QED BY <1>6, <1>7, <1>8, <1>9 DEF IInv

LEMMA FailKeepsIInv ==
  ASSUME IInv, NEW p \in Workers, Fail(p) PROVE IInv'
  <1>1. UNCHANGED <<day, deadline, unsent, named, confirmed, mails, row>>
    BY DEF Fail
  <1>a. /\ list' = [list EXCEPT ![p] = {}] /\ list \in [Workers -> SUBSET Ids]
        /\ sent' = [sent EXCEPT ![p] = {}] /\ sent \in [Workers -> SUBSET Ids]
        /\ seen' = [seen EXCEPT ![p] = None] /\ seen \in [Workers -> Deadlines \cup {None}]
    BY DEF Fail, Done, IInv, TypeOK
  <1>b. \A q \in Workers : list'[q] = IF q = p THEN {} ELSE list[q]
    BY <1>a
  <1>c. \A q \in Workers : /\ sent'[q] = IF q = p THEN {} ELSE sent[q]
                           /\ seen'[q] = IF q = p THEN None ELSE seen[q]
    BY <1>a
  <1>d. doubtful' = doubtful \cup sent[p]
    BY DEF Fail
  <1>2. TypeOK'
    BY <1>1, <1>a, <1>d DEF IInv, TypeOK
  <1>3. RemindersMarked'
    BY <1>1, <1>c, <1>d DEF IInv, RemindersMarked
  <1>4. ListsOK'
    <2>2. ASSUME NEW q \in Workers PROVE sent'[q] \subseteq list'[q]
      BY <1>b, <1>c DEF IInv, ListsOK
    <2>3. ASSUME NEW q \in Workers, NEW s \in Workers, q # s
          PROVE  list'[q] \cap list'[s] \subseteq doubtful'
      BY <1>b, <1>d, <2>3 DEF IInv, ListsOK
    <2>4. ASSUME NEW q \in Workers, NEW c \in list'[q]
          PROVE  /\ row[c] # None /\ seen'[q] # None
                 /\ Payday(seen'[q], row[c].created) < day
                 /\ c \in doubtful' \cup sent'[q] \/ Base(row[c]) + 1 < day
      <3>1. q # p /\ c \in list[q]
        BY <1>b
      <3> QED BY <1>c, <1>d, <3>1 DEF IInv, ListsOK
    <2> QED BY <1>1, <2>2, <2>3, <2>4 DEF ListsOK, Base
  <1>5. DaysOK'
    BY <1>1 DEF IInv, DaysOK
  <1> QED BY <1>2, <1>3, <1>4, <1>5 DEF IInv

LEMMA NextKeepsIInv == IInv /\ [Next]_vars => IInv'
  <1> SUFFICES ASSUME IInv, [Next]_vars PROVE IInv'
    OBVIOUS
  <1>1. CASE NextDay \/ UpdateEvent
    BY <1>1, NextDayKeepsIInv, UpdateEventKeepsIInv
  <1>2. ASSUME NEW b \in Ids, Book(b) \/ Cancel(b) \/ MoveUp(b) \/ Confirm(b) \/ SetPaid(b) PROVE IInv'
    BY <1>2, BookKeepsIInv, CancelKeepsIInv, MoveUpKeepsIInv, ConfirmKeepsIInv, SetPaidKeepsIInv
  <1>3. ASSUME NEW p \in Workers, Begin(p) \/ Mark(p) \/ Fail(p) PROVE IInv'
    BY <1>3, BeginKeepsIInv, MarkKeepsIInv, FailKeepsIInv
  <1>4. ASSUME NEW p \in Workers, NEW b \in Ids, Send(p, b) PROVE IInv'
    BY <1>4, SendKeepsIInv
  <1>5. CASE UNCHANGED vars
    BY <1>5 DEF vars, IInv, TypeOK, RemindersMarked, ListsOK, Base, DaysOK
  <1> QED BY <1>1, <1>2, <1>3, <1>4, <1>5 DEF Next

-----------------------------------------------------------------------------
(* The theorems                                                             *)

\* A reminder is marked or doubtful, a listed booking was due, no two lists overlap
\* but in doubtful bookings: the invariant the other two theorems rest on.
THEOREM IInvariant == Spec => []IInv
  BY InitIInv, NextKeepsIInv, PTL DEF Spec

\* Two reminders of a booking are five days apart at least, as long as no request has
\* failed between sending and marking and no two had the booking on their lists.
THEOREM RemindersApart == Spec => SpacingKept
  <1>1. ASSUME IInv, NEW b \in Ids, NEW p \in Workers, Send(p, b), mails[b] # None, b \notin doubtful
        PROVE  mails'[b] >= mails[b] + 5
    <2>1. mails'[b] = day /\ day \in Int /\ mails[b] \in Int
      BY <1>1, DaysAreInts DEF Send, IInv, TypeOK
    <2>2. b \in list[p] /\ b \notin sent[p]
      BY <1>1 DEF Send
    <2>3. \A q \in Workers : b \notin sent[q]
      BY <1>1, <2>2 DEF IInv, ListsOK
    <2>4. row[b].reminded # None /\ mails[b] <= row[b].reminded
      BY <1>1, <2>3 DEF IInv, RemindersMarked
    <2>5. row[b] \in Row /\ Base(row[b]) + 1 < day
      BY <1>1, <2>2 DEF IInv, ListsOK, TypeOK
    <2>6. row[b].reminded \in Int /\ Base(row[b]) = row[b].reminded + 3
      BY <2>4, <2>5, RowFields, DaysAreInts DEF Base
    <2> QED BY <2>1, <2>4, <2>5, <2>6
  <1>2. ASSUME IInv, [Next]_vars
        PROVE  [\A b \in Ids, p \in Workers :
                  Send(p, b) /\ mails[b] # None /\ b \notin doubtful => mails'[b] >= mails[b] + 5]_vars
    BY <1>1, <1>2
  <1> QED BY <1>2, IInvariant, PTL DEF Spec, SpacingKept

\* A reminder comes before the payday the booking's mail has named by no more than the
\* days that lie between the booking and that mail, and those by which the event, or the
\* payday of its template, was brought forward between the reads of the mail and of the
\* reminder; whatever else is changed, and however often.
THEOREM EarlyOnlyByTheWait == Spec => EarlyByTheWait
  <1> DEFINE Late(b, p) == mails'[b] > Payday(named[b], confirmed[b]) - (confirmed[b] - row[b].created)
                                         - BroughtForward(p, b)
  <1>1. ASSUME IInv, NEW b \in Ids, NEW p \in Workers, Send(p, b), confirmed[b] # None
        PROVE  Late(b, p)
    <2>1. mails'[b] = day /\ day \in Int /\ confirmed[b] \in Int
      BY <1>1, DaysAreInts DEF Send, IInv, TypeOK
    <2>2. row[b] \in Row /\ row[b] # None /\ seen[p] # None /\ Payday(seen[p], row[b].created) < day
      BY <1>1 DEF Send, IInv, ListsOK, TypeOK
    <2>3. row[b].created \in Int /\ row[b].created <= confirmed[b]
      BY <1>1, <2>2, RowFields, DaysAreInts DEF IInv, DaysOK
    <2>4. seen[p] \in Int /\ named[b] \in Int
      BY <1>1, <2>2, DaysAssumption DEF IInv, TypeOK, DaysOK
    <2>5. Payday(seen[p], row[b].created) \in Int /\ Payday(seen[p], row[b].created) >= row[b].created + 1
          /\ Payday(seen[p], row[b].created) >= seen[p]
      BY <2>3, <2>4, PaydayBounds
    <2>6. Payday(named[b], confirmed[b]) = confirmed[b] + 1 \/ Payday(named[b], confirmed[b]) = named[b]
      BY <2>1, <2>4, PaydayBounds
    <2>7. BroughtForward(p, b) \in Int /\ BroughtForward(p, b) >= 0 /\ BroughtForward(p, b) >= named[b] - seen[p]
      BY <2>4 DEF BroughtForward
    <2> QED BY <2>1, <2>2, <2>3, <2>4, <2>5, <2>6, <2>7
  <1>2. ASSUME IInv, [Next]_vars
        PROVE  [\A b \in Ids, p \in Workers : Send(p, b) /\ confirmed[b] # None => Late(b, p)]_vars
    BY <1>1, <1>2
  <1> QED BY <1>2, IInvariant, PTL DEF Spec, EarlyByTheWait
=============================================================================
