------------------------------- MODULE Seats --------------------------------
(***************************************************************************)
(* What the bookings of an event promise: a limited number of seats, a     *)
(* limited waiting list served first come, first served, and a seat that   *)
(* becomes free goes to the head of the list in the same step. Bookings    *)
(* are numbers: whoever comes later has the larger one.                    *)
(***************************************************************************)
EXTENDS Integers, FiniteSets

CONSTANTS Ids, Limits

VARIABLES limit, seated, queue, seen

svars == <<limit, seated, queue, seen>>

HasSeat == limit.max = -1 \/ Cardinality(seated) < limit.max

\* Who has waited longest, if anybody waits.
Head == {b \in queue : \A c \in queue : b <= c}

Init == limit \in Limits /\ seated = {} /\ queue = {} /\ seen = {}

\* A booking takes a free seat ...
TakeSeat(b) ==
  /\ HasSeat
  /\ seated' = seated \cup {b}
  /\ UNCHANGED queue

\* ... or the last place of the waiting list.
Enqueue(b) ==
  /\ ~HasSeat /\ Cardinality(queue) < limit.wait
  /\ queue' = queue \cup {b}
  /\ UNCHANGED seated

Book(b) ==
  /\ \A c \in seen : c < b
  /\ seen' = seen \cup {b}
  /\ TakeSeat(b) \/ Enqueue(b)
  /\ UNCHANGED limit

\* An attendee leaves and the first of the waiting list gets the seat.
GiveUpSeat(b) ==
  /\ b \in seated
  /\ seated' = (seated \ {b}) \cup Head
  /\ queue' = queue \ Head
  /\ UNCHANGED <<limit, seen>>

LeaveQueue(b) ==
  /\ b \in queue
  /\ queue' = queue \ {b}
  /\ UNCHANGED <<limit, seated, seen>>

ChangeLimits ==
  /\ limit' \in Limits
  /\ UNCHANGED <<seated, queue, seen>>

Next ==
  \/ \E b \in Ids : Book(b) \/ GiveUpSeat(b) \/ LeaveQueue(b)
  \/ ChangeLimits

Spec == Init /\ [][Next]_svars
=============================================================================
