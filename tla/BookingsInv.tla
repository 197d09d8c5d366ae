----------------------------- MODULE BookingsInv -----------------------------
(***************************************************************************)
(* The inductive invariant behind the theorems about Bookings: what the    *)
(* locals of a request, the versions of a row and the row locks say about  *)
(* each other between two statements.                                      *)
(***************************************************************************)
EXTENDS Bookings

InBooking(p) == pc[p] \in {"enroll", "subscriber", "duplicate", "insert"}
InCancel(p) == pc[p] \in {"cancel", "waiter", "promote"}
HasWritten(p) == pc[p] \in {"waiter", "promote", "commit"}

\* What kind of request runs which statements, and with which ids.
LocalsOK ==
  \A p \in Workers :
    /\ InBooking(p) => tx[p].op \in Bookings
    /\ InCancel(p) => tx[p].op = "cancel"
    /\ pc[p] = "commit" => tx[p].op \in Bookings \cup {"cancel"}
    /\ pc[p] # "idle" /\ pc[p] # "reply" => tx[p].id \in Ids
    /\ pc[p] = "idle" => tx[p] = NoTx
    /\ tx[p].op = "prebook" \/ pc[p] \in {"duplicate", "insert"} => tx[p].sub \in Subs
    /\ pc[p] = "subscriber" => tx[p].op = "book"
    /\ pc[p] = "promote" => tx[p].first \in Ids
    /\ tx[p].op \in Bookings => tx[p].first = 0 /\ tx[p].id <= clock

\* A row nobody has locked has one version; an open transaction changes a
\* committed row only the way HistoryKept allows; ids are handed out in order.
VersionsOK ==
  \A b \in Ids :
    /\ lock[b] = None => version[b] = committed[b]
    /\ committed[b] # None => HistoryKept(committed[b], version[b])
    /\ version[b] # None => b <= clock

\* The unique keys hold among the newest versions, committed or not.
KeysOK ==
  \A b, c \in Ids :
    b # c /\ version[b] # None /\ version[c] # None
      => version[b].sub # version[c].sub /\ version[b].pid # version[c].pid

\* A row lock belongs to a transaction that has written the row.
LocksOK ==
  \A b \in Ids : lock[b] # None =>
    LET p == lock[b] IN
      /\ HasWritten(p)
      /\ b = tx[p].id \/ (tx[p].op = "cancel" /\ b = tx[p].first)

\* The row of a booking belongs to its transaction alone until it is committed.
BookingsOK ==
  \A p \in Workers : tx[p].op \in Bookings /\ pc[p] \notin {"idle", "reply"} =>
    /\ committed[tx[p].id] = None
    /\ IF pc[p] = "commit"
         THEN lock[tx[p].id] = p /\ version[tx[p].id] = NewRow(p)
         ELSE version[tx[p].id] = None
    /\ \A q \in Workers : tx[q].op \in Bookings /\ tx[q].id = tx[p].id => q = p

\* A cancelation works on committed rows, and holds the one it cancels.
CancelsOK ==
  \A p \in Workers : tx[p].op = "cancel" =>
    /\ tx[p].id \in Ids /\ committed[tx[p].id] # None
    /\ HasWritten(p) => lock[tx[p].id] = p /\ version[tx[p].id].canceled
    /\ tx[p].first # 0 => tx[p].first \in Ids /\ committed[tx[p].first] # None /\ tx[p].first # tx[p].id
    /\ pc[p] \in {"cancel", "waiter"} => tx[p].first = 0

IInv == TypeOK /\ LocalsOK /\ VersionsOK /\ KeysOK /\ LocksOK /\ BookingsOK /\ CancelsOK

-----------------------------------------------------------------------------
(* On top of IInv: why no two cancelations wait for each other, why answers *)
(* stay true, and what bounds the seats and places given away.              *)

\* A cancelation that promotes somebody cancels an attendee, does not hold the
\* chosen booking until it promotes it, and promotes it without canceling it.
PromotionsOK ==
  \A p \in Workers : tx[p].op = "cancel" =>
    /\ pc[p] = "waiter" \/ tx[p].first # 0 => committed[tx[p].id].enrolled
    /\ HasWritten(p) => version[tx[p].id].enrolled = committed[tx[p].id].enrolled
    /\ pc[p] = "promote" => lock[tx[p].first] # p
    /\ tx[p].first # 0 /\ lock[tx[p].first] = p
         => version[tx[p].first].canceled = committed[tx[p].first].canceled

\* Whoever chose last chose a booking that was still waiting, so nobody else
\* who is about to promote was canceling it: the choices form no circle.
ChoicesAcyclic ==
  \A S \in (SUBSET Workers) \ {{}} :
    (\A p \in S : pc[p] = "promote") => \E p \in S : \A q \in S : tx[p].first # tx[q].id

LInv == PromotionsOK /\ ChoicesAcyclic

\* A subscriber row is committed together with the booking it was made for, and
\* a request that failed has left no version of a row behind.
RefusalsOK ==
  /\ \A b \in Ids : committed[b] = None => person[b] = None
  /\ \A p \in Workers :
       /\ tx[p].new => tx[p].op \in Bookings
       /\ pc[p] = "commit" /\ tx[p].op \in Bookings => version[tx[p].id] # None
       /\ pc[p] = "reply" =>
            CASE tx[p].out \in {"booked", "waiting"} -> tx[p].id \in Ids
              [] tx[p].out = "canceled" -> tx[p].op = "cancel"
              [] OTHER -> tx[p].op \in Bookings /\ (tx[p].id # 0 => version[tx[p].id] = None)

AInv == AnswersAreTrue /\ RefusalsOK

\* The bookings that were given a seat, or a waiting place, and are not committed yet.
Deciding == {"subscriber", "duplicate", "insert", "commit"}

SeatTakers  == {p \in Workers : tx[p].op \in Bookings /\ pc[p] \in Deciding /\ tx[p].enrolled}
PlaceTakers == {p \in Workers : tx[p].op \in Bookings /\ pc[p] \in Deciding /\ ~tx[p].enrolled}

SeatsOK ==
  (\A l \in Limits : l.max # Unlimited)
    => Cardinality(Enrolled(committed)) + Cardinality(SeatTakers) <= MaxSeats + Cardinality(Workers) - 1

PlacesOK == Cardinality(Waiting(committed)) + Cardinality(PlaceTakers) <= MaxQueue + Cardinality(Workers) - 1

\* When each cancelation is asked for once, its booking is active until it commits.
CancelsOnce ==
  \A p \in Workers : tx[p].op = "cancel" /\ pc[p] # "reply" =>
    /\ ~committed[tx[p].id].canceled
    /\ \A q \in Workers : tx[q].op = "cancel" /\ tx[q].id = tx[p].id => q = p

-----------------------------------------------------------------------------
(* One worker: the seats of the event, read off its committed rows.         *)

Abstract == INSTANCE Seats WITH
  limit  <- [max |-> event.max, wait |-> event.wait],
  seated <- Enrolled(committed),
  queue  <- Waiting(committed),
  seen   <- {b \in Ids : committed[b] # None}

\* With one worker at a time the statements of the code implement the seats and
\* the waiting list of Seats: the limits hold exactly, a cancelation hands the
\* seat to the first in line in the same step, nobody is overtaken.
ImplementsSeats == Abstract!Spec

\* What a booking has read is still so when it commits, and its id is the last one.
DecisionsOK ==
  \A p \in Workers : tx[p].op \in Bookings /\ pc[p] \notin {"idle", "reply"} =>
    /\ tx[p].id = clock
    /\ pc[p] \in Deciding /\ tx[p].enrolled => SeatFree(Cardinality(Enrolled(committed)))
    /\ pc[p] \in Deciding /\ ~tx[p].enrolled =>
         ~SeatFree(Cardinality(Enrolled(committed))) /\ PlaceFree(Cardinality(Waiting(committed)))

\* A cancelation of an attendee has chosen the first who waits, unless nobody does.
CancelationsOK ==
  \A p \in Workers : tx[p].op = "cancel" /\ pc[p] # "reply" =>
    /\ ~committed[tx[p].id].canceled
    /\ pc[p] \in {"waiter", "promote"} => committed[tx[p].id].enrolled
    /\ pc[p] = "promote" => tx[p].first \in FirstWaiting(committed)
    /\ pc[p] = "commit" =>
         IF committed[tx[p].id].enrolled /\ Waiting(committed) # {}
           THEN /\ tx[p].first \in FirstWaiting(committed)
                /\ lock[tx[p].first] = p /\ version[tx[p].first].enrolled
           ELSE tx[p].first = 0

SerialOK == DecisionsOK /\ CancelationsOK

\* A person has one subscriber row, and every booking has one, if forms carry the flag.
PersonsOK ==
  /\ \A s, t \in Subs : person[s] # None /\ person[s] = person[t] => s = t
  /\ \A b \in Ids : committed[b] # None => person[committed[b].sub] # None
  /\ \A p \in Workers : tx[p].op \in Bookings =>
       /\ tx[p].member
       /\ tx[p].op = "book" => tx[p].person # None
       /\ tx[p].new => tx[p].sub = tx[p].id /\ pc[p] \in {"duplicate", "insert", "commit", "reply"}
       /\ tx[p].op = "prebook" => ~tx[p].new
       /\ pc[p] \in {"duplicate", "insert", "commit"} =>
            IF tx[p].new THEN \A s \in Subs : person[s] # tx[p].person ELSE person[tx[p].sub] # None
       /\ tx[p].op = "prebook" => person[tx[p].sub] # None
=============================================================================
