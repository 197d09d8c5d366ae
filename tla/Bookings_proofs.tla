--------------------------- MODULE Bookings_proofs ---------------------------
(***************************************************************************)
(* Theorems about Bookings for any people, limits and bounds: the          *)
(* inductive invariant, requests that race, and one worker at a time.      *)
(***************************************************************************)
EXTENDS BookingsInv, FiniteSetTheorems, TLAPS

\* NoTx, a request and its locals are well typed.
LEMMA NoTxType == NoTx \in TxType
  BY BoundsAssumption DEF NoTx, TxType, Bookings, Pids, Outs

LEMMA NextPidType ==
  ASSUME seq \in Pids \cup {0} PROVE NextPid \in Pids
  BY BoundsAssumption DEF Pids, NextPid

\* Every version a transaction can see of a row is a row or None.
LEMMA ViewType ==
  ASSUME TypeOK, NEW p \in Workers
  PROVE  View(p) \in [Ids -> Row \cup {None}]
  BY DEF View, TypeOK

\* The request a booking transaction begins with.
LEMMA BeginBookingType ==
  ASSUME TypeOK, NEW p \in Workers, NEW r \in TxType, BeginBooking(p, r)
  PROVE  TypeOK'
  <1>1. CASE event.bookable
    <2>1. clock + 1 \in Ids /\ clock + 1 \in 0..MaxBookings
      BY <1>1, BoundsAssumption DEF TypeOK, BeginBooking, Ids
    <2>2. [r EXCEPT !.id = clock + 1] \in TxType
      BY <2>1 DEF TxType
    <2>3. tx' \in [Workers -> TxType]
      BY <1>1, <2>2 DEF TypeOK, BeginBooking
    <2>4. pc' \in [Workers -> PCs] /\ clock' \in 0..MaxBookings
      BY <1>1, <2>1 DEF TypeOK, BeginBooking, PCs
    <2>5. QED
      BY <2>3, <2>4 DEF TypeOK, BeginBooking
  <1>2. CASE ~event.bookable
    <2>1. [r EXCEPT !.out = "notBookable"] \in TxType
      BY DEF TxType, Outs
    <2>2. tx' \in [Workers -> TxType]
      BY <1>2, <2>1 DEF TypeOK, BeginBooking
    <2>3. pc' \in [Workers -> PCs] /\ clock' = clock
      BY <1>2 DEF TypeOK, BeginBooking, PCs
    <2>4. QED
      BY <2>2, <2>3 DEF TypeOK, BeginBooking
  <1>3. QED
    BY <1>1, <1>2

LEMMA RollbackType ==
  ASSUME TypeOK, NEW p \in Workers, Rollback(p)
  PROVE  /\ version' \in [Ids -> Row \cup {None}]
         /\ lock' \in [Ids -> Workers \cup {None}]
  BY DEF TypeOK, Rollback, ReleasedLocks

LEMMA WriteType ==
  ASSUME TypeOK, NEW p \in Workers, NEW b \in Ids, NEW row \in Row, Write(p, b, row)
  PROVE  /\ version' \in [Ids -> Row \cup {None}]
         /\ lock' \in [Ids -> Workers \cup {None}]
  BY DEF TypeOK, Write

\* A booking begins with an id that no row and no other request has.
LEMMA BeginBookingStep ==
  ASSUME IInv, NEW p \in Workers, NEW r \in TxType, BeginBooking(p, r),
         r.op \in Bookings, r.first = 0, r.op = "prebook" => r.sub \in Subs, r.id = 0
  PROVE  IInv'
  <1>1. TypeOK'
    BY BeginBookingType DEF IInv
  <1>2. /\ tx' = [tx EXCEPT ![p] = tx'[p]] /\ tx'[p].op = r.op /\ tx'[p].first = 0
        /\ tx'[p].sub = r.sub
        /\ pc' = [pc EXCEPT ![p] = pc'[p]] /\ pc'[p] \in {"enroll", "reply"}
        /\ pc'[p] = "enroll" => clock' = clock + 1 /\ tx'[p].id = clock + 1 /\ tx'[p].id \in Ids
        /\ clock' \in {clock, clock + 1} /\ (pc'[p] = "reply" => tx'[p].id = 0)
        /\ pc[p] = "idle" /\ clock \in Nat
    BY BoundsAssumption DEF IInv, TypeOK, TxType, BeginBooking, Ids
  <1>3. LocalsOK'
    <2>1. \A o \in Workers : tx[o].id \in Nat
      BY BoundsAssumption DEF IInv, TypeOK, TxType, Ids
    <2>2. QED
      BY <1>2, <2>1 DEF IInv, TypeOK, LocalsOK, InBooking, InCancel, Bookings
  <1>4. UNCHANGED <<committed, version, lock>>
    BY DEF BeginBooking
  <1>5. VersionsOK'
    BY <1>2, <1>4, BoundsAssumption DEF IInv, TypeOK, VersionsOK, HistoryKept, Ids
  <1>6. KeysOK'
    BY <1>4 DEF IInv, KeysOK
  <1>7. LocksOK'
    BY <1>2, <1>4 DEF IInv, TypeOK, LocksOK, HasWritten
  <1>8. BookingsOK'
    <2> SUFFICES ASSUME NEW q \in Workers, tx'[q].op \in Bookings, pc'[q] \notin {"idle", "reply"}
                 PROVE  /\ committed'[tx'[q].id] = None
                        /\ IF pc'[q] = "commit"
                             THEN lock'[tx'[q].id] = q /\ version'[tx'[q].id] = NewRow(q)'
                             ELSE version'[tx'[q].id] = None
                        /\ \A o \in Workers : tx'[o].op \in Bookings /\ tx'[o].id = tx'[q].id => o = q
      BY DEF BookingsOK
    <2>1. \A o \in Workers : o # p => tx'[o] = tx[o] /\ pc'[o] = pc[o]
      BY <1>2 DEF IInv, TypeOK
    <2>2. \A o \in Workers : tx[o].op \in Bookings => tx[o].id <= clock /\ tx[o].id \in Ids \cup {0}
      BY DEF IInv, LocalsOK, TypeOK, TxType
    <2>3. CASE q = p
      <3>1. tx'[q].id = clock + 1 /\ pc'[q] = "enroll" /\ clock \in Nat /\ clock + 1 \in Ids
        BY <1>2, <2>3, BoundsAssumption DEF IInv, TypeOK
      <3>2. version[clock + 1] = None /\ committed[clock + 1] = None
        BY <3>1 DEF IInv, VersionsOK, HistoryKept
      <3>3. \A o \in Workers : o # p /\ tx'[o].op \in Bookings => tx'[o].id # clock + 1
        BY <2>1, <2>2, <3>1 DEF Ids
      <3>4. QED
        BY <1>4, <2>3, <3>1, <3>2, <3>3
    <2>4. CASE q # p
      <3>1. tx'[q] = tx[q] /\ pc'[q] = pc[q] /\ tx[q].id \in Ids /\ tx[q].id <= clock
        BY <2>1, <2>2, <2>4 DEF IInv, LocalsOK
      <3>2. tx'[p].id # tx[q].id
        BY <1>2, <2>2, <3>1, BoundsAssumption DEF IInv, TypeOK, BeginBooking, NoTx, Ids
      <3>3. NewRow(q)' = NewRow(q)
        BY <3>1 DEF NewRow
      <3>4. QED
        BY <1>4, <2>1, <3>1, <3>2, <3>3 DEF IInv, BookingsOK
    <2>5. QED
      BY <2>3, <2>4
  <1>9. CancelsOK'
    <2>1. \A o \in Workers : tx'[o].op = "cancel" => tx'[o] = tx[o] /\ pc'[o] = pc[o]
      BY <1>2 DEF IInv, TypeOK, Bookings
    <2>2. QED
      BY <2>1, <1>4 DEF IInv, CancelsOK, HasWritten
  <1>10. QED
    BY <1>1, <1>3, <1>5, <1>6, <1>7, <1>8, <1>9 DEF IInv

\* A step before the INSERT changes nothing but the request's own locals.
LEMMA BookingReadStep ==
  ASSUME IInv, TypeOK', NEW p \in Workers, InBooking(p),
         UNCHANGED <<committed, version, lock, clock>>,
         NEW t, tx' = [tx EXCEPT ![p] = t],
         NEW to \in {"subscriber", "duplicate", "insert", "reply"}, pc' = [pc EXCEPT ![p] = to],
         t.op = tx[p].op, t.id = tx[p].id, t.first = tx[p].first,
         t.op = "prebook" \/ to \in {"duplicate", "insert"} => t.sub \in Subs,
         to = "subscriber" => t.op = "book"
  PROVE  IInv'
  <1>1. /\ pc[p] # "idle" /\ pc[p] # "reply" /\ ~HasWritten(p)
        /\ tx[p].op \in Bookings /\ tx[p].id \in Ids /\ tx[p].first = 0
    BY DEF IInv, LocalsOK, InBooking, HasWritten
  <1>2. /\ tx'[p] = t /\ pc'[p] = to
        /\ \A o \in Workers : o # p => tx'[o] = tx[o] /\ pc'[o] = pc[o]
    BY DEF IInv, TypeOK
  <1>3. LocalsOK'
    BY <1>1, <1>2 DEF IInv, LocalsOK, InBooking, InCancel, Bookings
  <1>4. VersionsOK' /\ KeysOK'
    BY DEF IInv, VersionsOK, KeysOK
  <1>5. LocksOK'
    BY <1>1, <1>2 DEF IInv, TypeOK, LocksOK, HasWritten
  <1>6. BookingsOK'
    <2> SUFFICES ASSUME NEW q \in Workers, tx'[q].op \in Bookings, pc'[q] \notin {"idle", "reply"}
                 PROVE  /\ committed'[tx'[q].id] = None
                        /\ IF pc'[q] = "commit"
                             THEN lock'[tx'[q].id] = q /\ version'[tx'[q].id] = NewRow(q)'
                             ELSE version'[tx'[q].id] = None
                        /\ \A o \in Workers : tx'[o].op \in Bookings /\ tx'[o].id = tx'[q].id => o = q
      BY DEF BookingsOK
    <2>1. /\ tx[q].op \in Bookings /\ pc[q] \notin {"idle", "reply"} /\ tx'[q].id = tx[q].id
          /\ pc'[q] = "commit" <=> pc[q] = "commit"
          /\ pc'[q] = "commit" => tx'[q] = tx[q]
      BY <1>1, <1>2 DEF InBooking
    <2>2. \A o \in Workers : tx'[o].op = tx[o].op /\ tx'[o].id = tx[o].id
      BY <1>2
    <2>3. pc'[q] = "commit" => NewRow(q)' = NewRow(q)
      BY <2>1 DEF NewRow
    <2>4. QED
      BY <2>1, <2>2, <2>3 DEF IInv, BookingsOK
  <1>7. CancelsOK'
    <2>1. \A o \in Workers : tx'[o].op = "cancel" => tx'[o] = tx[o] /\ pc'[o] = pc[o]
      BY <1>1, <1>2 DEF Bookings
    <2>2. QED
      BY <2>1 DEF IInv, CancelsOK, HasWritten
  <1>8. QED
    BY <1>3, <1>4, <1>5, <1>6, <1>7 DEF IInv

LEMMA ReadCountersStep ==
  ASSUME IInv, NEW p \in Workers, ReadCounters(p) PROVE IInv'
  <1>1. /\ InBooking(p) /\ tx[p] \in TxType /\ tx[p].op \in Bookings
        /\ UNCHANGED <<event, person, committed, version, lock, clock, seq>>
        /\ tx[p].op = "prebook" => tx[p].sub \in Subs
    BY DEF IInv, TypeOK, LocalsOK, ReadCounters, InBooking
  <1>2. CASE pc' = [pc EXCEPT ![p] = "reply"] /\ Answer(p, "bookedOut")
    <2> DEFINE t == [tx[p] EXCEPT !.out = "bookedOut"]
    <2>1. /\ t \in TxType /\ t.op = tx[p].op /\ t.id = tx[p].id
          /\ t.first = tx[p].first /\ t.sub = tx[p].sub
      BY <1>1 DEF TxType, Outs
    <2>2. tx' = [tx EXCEPT ![p] = t]
      BY <1>2 DEF IInv, TypeOK, Answer
    <2> HIDE DEF t
    <2>3. TypeOK'
      BY <1>1, <1>2, <2>1, <2>2 DEF IInv, TypeOK, PCs
    <2>4. QED
      BY <1>1, <1>2, <2>1, <2>2, <2>3, BookingReadStep
  <1>3. ASSUME NEW e \in BOOLEAN, tx' = [tx EXCEPT ![p].enrolled = e],
               pc' = [pc EXCEPT ![p] = IF tx[p].op = "book" THEN "subscriber" ELSE "duplicate"]
        PROVE  IInv'
    <2> DEFINE t == [tx[p] EXCEPT !.enrolled = e]
               to == IF tx[p].op = "book" THEN "subscriber" ELSE "duplicate"
    <2>1. /\ t \in TxType /\ t.op = tx[p].op /\ t.id = tx[p].id
          /\ t.first = tx[p].first /\ t.sub = tx[p].sub
      BY <1>1 DEF TxType
    <2>2. tx' = [tx EXCEPT ![p] = t]
      BY <1>3 DEF IInv, TypeOK
    <2>3. /\ pc' = [pc EXCEPT ![p] = to] /\ to \in {"subscriber", "duplicate"}
          /\ to = "duplicate" => tx[p].op = "prebook"
          /\ to = "subscriber" => tx[p].op = "book"
      BY <1>1, <1>3 DEF Bookings
    <2> HIDE DEF t, to
    <2>4. TypeOK'
      BY <1>1, <2>1, <2>2, <2>3 DEF IInv, TypeOK, PCs
    <2>5. QED
      BY <1>1, <2>1, <2>2, <2>3, <2>4, BookingReadStep
  <1>4. QED
    BY <1>2, <1>3 DEF ReadCounters

LEMMA InsertEventSubscriberStep ==
  ASSUME IInv, NEW p \in Workers, InsertEventSubscriber(p) PROVE IInv'
  <1>1. /\ InBooking(p) /\ tx[p] \in TxType /\ tx[p].id \in Ids
        /\ UNCHANGED <<event, person, committed, version, lock, clock, seq>>
        /\ pc' = [pc EXCEPT ![p] = "duplicate"]
    BY DEF IInv, TypeOK, LocalsOK, InsertEventSubscriber, InBooking, Step
  <1>2. PICK s \in Subs, n \in BOOLEAN :
          tx' = [tx EXCEPT ![p] = [tx[p] EXCEPT !.sub = s, !.new = n]]
    <2>1. CASE \E s \in Matching(p) : tx' = [tx EXCEPT ![p].sub = s]
      <3>1. PICK s \in Matching(p) : tx' = [tx EXCEPT ![p].sub = s]
        BY <2>1
      <3>2. [tx[p] EXCEPT !.sub = s] = [tx[p] EXCEPT !.sub = s, !.new = tx[p].new]
        BY <1>1 DEF TxType
      <3>3. QED
        BY <1>1, <3>1, <3>2 DEF IInv, TypeOK, TxType, Matching
    <2>2. CASE tx' = [tx EXCEPT ![p].sub = tx[p].id, ![p].new = TRUE]
      <3>1. tx' = [tx EXCEPT ![p] = [tx[p] EXCEPT !.sub = tx[p].id, !.new = TRUE]]
        BY <2>2 DEF IInv, TypeOK
      <3>2. QED
        BY <1>1, <3>1 DEF Subs
    <2>3. QED
      BY <2>1, <2>2 DEF InsertEventSubscriber
  <1> DEFINE t == [tx[p] EXCEPT !.sub = s, !.new = n]
  <1>3. /\ t \in TxType /\ t.op = tx[p].op /\ t.id = tx[p].id
        /\ t.first = tx[p].first /\ t.sub = s
    BY <1>1 DEF TxType
  <1>4. tx' = [tx EXCEPT ![p] = t]
    BY <1>2
  <1> HIDE DEF t
  <1>5. TypeOK'
    BY <1>1, <1>3, <1>4 DEF IInv, TypeOK, PCs
  <1>6. QED
    BY <1>1, <1>3, <1>4, <1>5, BookingReadStep

LEMMA CheckDuplicateStep ==
  ASSUME IInv, NEW p \in Workers, CheckDuplicate(p) PROVE IInv'
  <1>1. /\ InBooking(p) /\ tx[p] \in TxType /\ tx[p].sub \in Subs /\ NextPid \in Pids
        /\ UNCHANGED <<event, person, committed, version, lock, clock>>
    BY NextPidType DEF IInv, TypeOK, LocalsOK, CheckDuplicate, InBooking
  <1>2. CASE /\ pc' = [pc EXCEPT ![p] = "reply"] /\ UNCHANGED seq
             /\ Answer(p, "duplicate")
    <2> DEFINE t == [tx[p] EXCEPT !.out = "duplicate"]
    <2>1. /\ t \in TxType /\ t.op = tx[p].op /\ t.id = tx[p].id
          /\ t.first = tx[p].first /\ t.sub = tx[p].sub
      BY <1>1 DEF TxType, Outs
    <2>2. tx' = [tx EXCEPT ![p] = t]
      BY <1>2 DEF IInv, TypeOK, Answer
    <2> HIDE DEF t
    <2>3. TypeOK'
      BY <1>1, <1>2, <2>1, <2>2 DEF IInv, TypeOK, PCs
    <2>4. QED
      BY <1>1, <1>2, <2>1, <2>2, <2>3, BookingReadStep
  <1>3. CASE /\ pc' = [pc EXCEPT ![p] = "insert"] /\ seq' = NextPid
             /\ tx' = [tx EXCEPT ![p].pid = NextPid]
    <2> DEFINE t == [tx[p] EXCEPT !.pid = NextPid]
    <2>1. /\ t \in TxType /\ t.op = tx[p].op /\ t.id = tx[p].id
          /\ t.first = tx[p].first /\ t.sub = tx[p].sub
      BY <1>1 DEF TxType
    <2>2. tx' = [tx EXCEPT ![p] = t]
      BY <1>3 DEF IInv, TypeOK
    <2> HIDE DEF t
    <2>3. TypeOK'
      BY <1>1, <1>3, <2>1, <2>2 DEF IInv, TypeOK, PCs
    <2>4. QED
      BY <1>1, <1>3, <2>1, <2>2, <2>3, BookingReadStep
  <1>4. QED
    BY <1>2, <1>3 DEF CheckDuplicate

\* A transaction that is dropped gives its rows back as they were committed.
LEMMA RollbackStep ==
  ASSUME IInv, TypeOK', NEW p \in Workers, pc[p] \notin {"idle", "reply"}, Rollback(p),
         UNCHANGED <<committed, clock>>,
         NEW t, tx' = [tx EXCEPT ![p] = t], t.op # "cancel",
         NEW to \in {"idle", "reply"}, pc' = [pc EXCEPT ![p] = to],
         to = "idle" => t = NoTx,
         t.op \in Bookings => /\ t.op = tx[p].op /\ t.id = tx[p].id
                              /\ t.sub = tx[p].sub /\ t.first = tx[p].first
  PROVE  IInv'
  <1>1. /\ tx'[p] = t /\ pc'[p] = to
        /\ \A o \in Workers : o # p => tx'[o] = tx[o] /\ pc'[o] = pc[o]
    BY DEF IInv, TypeOK
  <1>2. \A b \in Ids : /\ lock[b] = p => lock'[b] = None /\ version'[b] = committed[b]
                       /\ lock[b] # p => lock'[b] = lock[b] /\ version'[b] = version[b]
    BY DEF IInv, TypeOK, Rollback, ReleasedLocks
  <1>3. LocalsOK'
    <2>1. to = "idle" => t.op = "none"
      BY DEF NoTx
    <2>2. QED
      BY <1>1, <2>1 DEF IInv, LocalsOK, InBooking, InCancel, Bookings
  <1>4. VersionsOK'
    BY <1>2 DEF IInv, VersionsOK, HistoryKept
  <1>5. KeysOK'
    <2>1. \A b \in Ids : version'[b] # None =>
            version[b] # None /\ version'[b].sub = version[b].sub /\ version'[b].pid = version[b].pid
      BY <1>2 DEF IInv, VersionsOK, HistoryKept
    <2>2. QED
      BY <2>1 DEF IInv, KeysOK
  <1>6. LocksOK'
    BY <1>1, <1>2 DEF IInv, TypeOK, LocksOK, HasWritten
  <1>7. BookingsOK'
    <2> SUFFICES ASSUME NEW q \in Workers, tx'[q].op \in Bookings, pc'[q] \notin {"idle", "reply"}
                 PROVE  /\ committed'[tx'[q].id] = None
                        /\ IF pc'[q] = "commit"
                             THEN lock'[tx'[q].id] = q /\ version'[tx'[q].id] = NewRow(q)'
                             ELSE version'[tx'[q].id] = None
                        /\ \A o \in Workers : tx'[o].op \in Bookings /\ tx'[o].id = tx'[q].id => o = q
      BY DEF BookingsOK
    <2>1. q # p /\ tx'[q] = tx[q] /\ pc'[q] = pc[q] /\ tx[q].id \in Ids
      BY <1>1 DEF IInv, LocalsOK
    <2>2. NewRow(q)' = NewRow(q)
      BY <2>1 DEF NewRow
    <2>3. \A o \in Workers : tx'[o].op \in Bookings => tx'[o].op = tx[o].op /\ tx'[o].id = tx[o].id
      BY <1>1
    <2>4. QED
      BY <1>2, <2>1, <2>2, <2>3 DEF IInv, BookingsOK
  <1>8. CancelsOK'
    <2>1. \A o \in Workers : tx'[o].op = "cancel" => o # p /\ tx'[o] = tx[o] /\ pc'[o] = pc[o]
      BY <1>1
    <2>2. QED
      BY <1>2, <2>1 DEF IInv, CancelsOK, HasWritten
  <1>9. QED
    BY <1>3, <1>4, <1>5, <1>6, <1>7, <1>8 DEF IInv

\* A cancelation updates a committed row that no other transaction holds.
LEMMA UpdateRowStep ==
  ASSUME IInv, TypeOK', NEW p \in Workers, InCancel(p), UNCHANGED <<committed, clock, tx>>,
         NEW b \in Ids, b = tx[p].id \/ b = tx[p].first, committed[b] # None,
         ~LockedByOther(p, b), NEW row \in Row, HistoryKept(version[b], row), Write(p, b, row),
         NEW to \in {"waiter", "commit"}, pc' = [pc EXCEPT ![p] = to],
         to = "waiter" => b = tx[p].id /\ pc[p] = "cancel",
         IF b = tx[p].id THEN row.canceled ELSE HasWritten(p)
  PROVE  IInv'
  <1>1. /\ tx[p].op = "cancel" /\ pc'[p] = to /\ pc[p] # "idle" /\ pc[p] # "reply"
        /\ \A o \in Workers : o # p => pc'[o] = pc[o]
    BY DEF IInv, TypeOK, LocalsOK, InCancel
  <1>2. /\ lock'[b] = p /\ version'[b] = row /\ p # None /\ row # None
        /\ \A c \in Ids : c # b => lock'[c] = lock[c] /\ version'[c] = version[c]
    BY WorkersAssumption, NoneAssumption DEF IInv, TypeOK, Write
  <1>3. LocalsOK'
    BY <1>1 DEF IInv, LocalsOK, InBooking, InCancel, Bookings
  <1>4. VersionsOK'
    BY <1>2 DEF IInv, VersionsOK, HistoryKept
  <1>5. KeysOK'
    <2>1. version[b] # None /\ row.sub = version[b].sub /\ row.pid = version[b].pid
      BY DEF IInv, VersionsOK, HistoryKept
    <2>2. QED
      BY <1>2, <2>1 DEF IInv, KeysOK
  <1>6. LocksOK'
    <2>1. HasWritten(p)'
      BY <1>1 DEF HasWritten
    <2>2. \A o \in Workers : HasWritten(o) => HasWritten(o)'
      BY <1>1, <2>1 DEF HasWritten
    <2>3. QED
      BY <1>1, <1>2, <2>1, <2>2 DEF IInv, TypeOK, LocksOK
  <1>7. BookingsOK'
    <2> SUFFICES ASSUME NEW q \in Workers, tx[q].op \in Bookings, pc'[q] \notin {"idle", "reply"}
                 PROVE  /\ committed[tx[q].id] = None
                        /\ IF pc'[q] = "commit"
                             THEN lock'[tx[q].id] = q /\ version'[tx[q].id] = NewRow(q)'
                             ELSE version'[tx[q].id] = None
                        /\ \A o \in Workers : tx[o].op \in Bookings /\ tx[o].id = tx[q].id => o = q
      BY DEF BookingsOK
    <2>1. q # p /\ pc'[q] = pc[q] /\ tx[q].id \in Ids /\ NewRow(q)' = NewRow(q)
      BY <1>1 DEF IInv, LocalsOK, NewRow, Bookings
    <2>2. QED
      BY <1>2, <2>1 DEF IInv, BookingsOK
  <1>8. CancelsOK'
    <2>1. \A o \in Workers : o # p /\ tx[o].op = "cancel" /\ HasWritten(o) => tx[o].id # b
      BY WorkersAssumption DEF IInv, CancelsOK, LockedByOther
    <2>2. HasWritten(p) => lock[tx[p].id] = p /\ version[tx[p].id].canceled
      BY <1>1 DEF IInv, CancelsOK
    <2>3. \A o \in Workers : o # p => (HasWritten(o)' <=> HasWritten(o))
      BY <1>1 DEF HasWritten
    <2>4. ASSUME NEW o \in Workers, tx[o].op = "cancel", HasWritten(o)'
          PROVE  lock'[tx[o].id] = o /\ version'[tx[o].id].canceled
      <3>1. CASE o # p
        BY <1>2, <2>1, <2>3, <2>4, <3>1 DEF IInv, CancelsOK
      <3>2. CASE o = p
        BY <1>1, <1>2, <2>2, <3>2 DEF IInv, CancelsOK
      <3>3. QED
        BY <3>1, <3>2
    <2>5. \A o \in Workers : tx[o].op = "cancel" /\ pc'[o] \in {"cancel", "waiter"} => tx[o].first = 0
      BY <1>1 DEF IInv, CancelsOK
    <2>6. QED
      BY <2>4, <2>5 DEF IInv, CancelsOK
  <1>9. QED
    BY <1>3, <1>4, <1>5, <1>6, <1>7, <1>8 DEF IInv

LEMMA InsertBookingStep ==
  ASSUME IInv, NEW p \in Workers, InsertBooking(p) PROVE IInv'
  <1> DEFINE id == tx[p].id
             s == tx[p].sub
             n == tx[p].pid
  <1>1. /\ pc[p] = "insert" /\ tx[p] \in TxType /\ tx[p].op \in Bookings /\ id \in Ids
        /\ s \in Subs /\ n \in Pids /\ tx[p].enrolled \in BOOLEAN
        /\ UNCHANGED <<event, person, committed, clock, seq>>
    BY DEF IInv, TypeOK, TxType, LocalsOK, InsertBooking, InBooking
  <1>2. CASE /\ pc' = [pc EXCEPT ![p] = "reply"] /\ Answer(p, "error") /\ Rollback(p)
    <2> DEFINE t == [tx[p] EXCEPT !.out = "error"]
    <2>1. /\ t \in TxType /\ t.op = tx[p].op /\ t.id = tx[p].id
          /\ t.first = tx[p].first /\ t.sub = tx[p].sub
      BY <1>1 DEF TxType, Outs
    <2>2. tx' = [tx EXCEPT ![p] = t]
      BY <1>2 DEF IInv, TypeOK, Answer
    <2>3. t.op # "cancel"
      BY <1>1, <2>1 DEF Bookings
    <2> HIDE DEF t
    <2>4. TypeOK'
      BY <1>1, <1>2, <2>1, <2>2, RollbackType DEF IInv, TypeOK, PCs
    <2>5. QED
      BY <1>1, <1>2, <2>1, <2>2, <2>3, <2>4, RollbackStep
  <1>3. CASE /\ Clashes(s, n) = {} /\ OpenClashes(p, s, n) = {}
             /\ pc' = [pc EXCEPT ![p] = "commit"] /\ Write(p, id, NewRow(p)) /\ UNCHANGED tx
    <2>1. /\ NewRow(p) \in Row /\ NewRow(p) # None /\ NewRow(p).sub = s /\ NewRow(p).pid = n
          /\ NewRow(p)' = NewRow(p)
      <3>1. NewRow(p) \in Row /\ NewRow(p).sub = s /\ NewRow(p).pid = n
        BY <1>1 DEF NewRow, Row
      <3>2. NewRow(p)' = NewRow(p)
        BY <1>3 DEF NewRow
      <3>3. QED
        BY <3>1, <3>2, NoneAssumption
    <2>2. /\ lock'[id] = p /\ version'[id] = NewRow(p) /\ p # None
          /\ \A c \in Ids : c # id => lock'[c] = lock[c] /\ version'[c] = version[c]
      BY <1>1, <1>3, WorkersAssumption DEF IInv, TypeOK, Write
    <2>3. pc'[p] = "commit" /\ \A o \in Workers : o # p => pc'[o] = pc[o]
      BY <1>3 DEF IInv, TypeOK
    <2>4. committed[id] = None /\ version[id] = None /\ id <= clock
      BY <1>1 DEF IInv, LocalsOK, BookingsOK
    <2>5. TypeOK'
      BY <1>1, <1>3, <2>1, WriteType DEF IInv, TypeOK, PCs
    <2>6. LocalsOK'
      BY <1>1, <1>3, <2>3 DEF IInv, LocalsOK, InBooking, InCancel, Bookings
    <2>7. VersionsOK'
      BY <1>1, <2>2, <2>4 DEF IInv, VersionsOK
    <2>8. KeysOK'
      <3>1. ASSUME NEW c \in Ids, c # id, version[c] # None
            PROVE  version[c].sub # s /\ version[c].pid # n
        <4>1. CASE committed[c] # None
          BY <1>3, <3>1, <4>1 DEF IInv, VersionsOK, HistoryKept, Clashes, SameKey
        <4>2. CASE committed[c] = None
          <5>1. lock[c] # None
            BY <3>1, <4>2 DEF IInv, VersionsOK
          <5>2. lock[c] # p
            BY <1>1, <5>1 DEF IInv, LocksOK, HasWritten
          <5>3. QED
            BY <1>3, <3>1, <4>2, <5>1, <5>2 DEF OpenClashes, SameKey
        <4>3. QED
          BY <4>1, <4>2
      <3>2. QED
        BY <1>1, <2>1, <2>2, <3>1 DEF IInv, KeysOK
    <2>9. LocksOK'
      <3>1. HasWritten(p)' /\ \A o \in Workers : HasWritten(o) => HasWritten(o)'
        BY <2>3 DEF HasWritten
      <3>2. QED
        BY <1>3, <2>2, <3>1 DEF IInv, TypeOK, LocksOK
    <2>10. BookingsOK'
      <3> SUFFICES ASSUME NEW q \in Workers, tx[q].op \in Bookings, pc'[q] \notin {"idle", "reply"}
                   PROVE  /\ committed[tx[q].id] = None
                          /\ IF pc'[q] = "commit"
                               THEN lock'[tx[q].id] = q /\ version'[tx[q].id] = NewRow(q)'
                               ELSE version'[tx[q].id] = None
                          /\ \A o \in Workers : tx[o].op \in Bookings /\ tx[o].id = tx[q].id => o = q
        BY <1>1, <1>3 DEF BookingsOK
      <3>1. CASE q = p
        BY <1>1, <2>1, <2>2, <2>3, <2>4, <3>1 DEF IInv, BookingsOK
      <3>2. CASE q # p
        <4>1. pc'[q] = pc[q] /\ tx[q].id \in Ids /\ NewRow(q)' = NewRow(q)
          BY <1>3, <2>3, <3>2 DEF IInv, LocalsOK, NewRow
        <4>2. tx[q].id # id
          BY <1>1, <3>2, <4>1 DEF IInv, BookingsOK
        <4>3. QED
          BY <2>2, <4>1, <4>2 DEF IInv, BookingsOK
      <3>3. QED
        BY <3>1, <3>2
    <2>11. CancelsOK'
      <3>1. \A o \in Workers : tx[o].op = "cancel" => o # p /\ pc'[o] = pc[o] /\ tx[o].id # id
        BY <1>1, <2>3, <2>4 DEF IInv, CancelsOK, Bookings
      <3>2. QED
        BY <1>1, <1>3, <2>2, <3>1 DEF IInv, CancelsOK, HasWritten
    <2>12. QED
      BY <2>5, <2>6, <2>7, <2>8, <2>9, <2>10, <2>11 DEF IInv
  <1>4. QED
    BY <1>2, <1>3 DEF InsertBooking

LEMMA AbortStep ==
  ASSUME IInv, NEW p \in Workers, Abort(p) PROVE IInv'
  <1>1. TypeOK'
    BY NoTxType, RollbackType DEF IInv, TypeOK, Abort, PCs
  <1>2. NoTx.op = "none" /\ NoTx.op \notin Bookings
    BY DEF NoTx, Bookings
  <1>3. QED
    BY <1>1, <1>2, RollbackStep DEF Abort

LEMMA BeginCancelStep ==
  ASSUME IInv, NEW p \in Workers, BeginCancel(p) PROVE IInv'
  <1>1. PICK b \in Ids : /\ committed[b] # None
                         /\ tx' = [tx EXCEPT ![p] = [NoTx EXCEPT !.op = "cancel", !.id = b]]
    BY DEF BeginCancel
  <1> DEFINE t == [NoTx EXCEPT !.op = "cancel", !.id = b]
  <1>2. t \in TxType /\ t.op = "cancel" /\ t.id = b /\ t.first = 0
    <2>1. t \in TxType /\ t.op = "cancel" /\ t.id = b /\ t.first = NoTx.first
      BY NoTxType DEF TxType
    <2>2. NoTx.first = 0
      BY DEF NoTx
    <2>3. QED
      BY <2>1, <2>2
  <1> HIDE DEF t
  <1>3. /\ pc[p] = "idle" /\ pc' = [pc EXCEPT ![p] = "cancel"] /\ tx' = [tx EXCEPT ![p] = t]
        /\ UNCHANGED <<event, person, committed, version, lock, clock, seq>>
    BY <1>1 DEF BeginCancel, Step, t
  <1>4. /\ tx'[p] = t /\ pc'[p] = "cancel"
        /\ \A o \in Workers : o # p => tx'[o] = tx[o] /\ pc'[o] = pc[o]
    BY <1>3 DEF IInv, TypeOK
  <1>5. TypeOK'
    BY <1>2, <1>3 DEF IInv, TypeOK, PCs
  <1>6. LocalsOK'
    BY <1>2, <1>3, <1>4 DEF IInv, LocalsOK, InBooking, InCancel, Bookings
  <1>7. VersionsOK' /\ KeysOK'
    BY <1>3 DEF IInv, VersionsOK, KeysOK
  <1>8. LocksOK'
    BY <1>3, <1>4 DEF IInv, TypeOK, LocksOK, HasWritten
  <1>9. BookingsOK'
    <2>1. \A o \in Workers : tx'[o].op \in Bookings => o # p /\ tx'[o] = tx[o] /\ pc'[o] = pc[o]
      BY <1>2, <1>4 DEF Bookings
    <2>2. \A o \in Workers : tx'[o] = tx[o] => NewRow(o)' = NewRow(o)
      BY DEF NewRow
    <2>3. QED
      BY <1>3, <2>1, <2>2 DEF IInv, BookingsOK
  <1>10. CancelsOK'
    <2> SUFFICES ASSUME NEW o \in Workers, tx'[o].op = "cancel"
                 PROVE  /\ tx'[o].id \in Ids /\ committed'[tx'[o].id] # None
                        /\ HasWritten(o)' => lock'[tx'[o].id] = o /\ version'[tx'[o].id].canceled
                        /\ tx'[o].first # 0 => /\ tx'[o].first \in Ids /\ committed'[tx'[o].first] # None
                                              /\ tx'[o].first # tx'[o].id
                        /\ pc'[o] \in {"cancel", "waiter"} => tx'[o].first = 0
      BY DEF CancelsOK
    <2>1. CASE o = p
      BY <1>1, <1>2, <1>3, <1>4, <2>1 DEF HasWritten
    <2>2. CASE o # p
      <3>1. tx'[o] = tx[o] /\ pc'[o] = pc[o] /\ (HasWritten(o)' <=> HasWritten(o))
        BY <1>4, <2>2 DEF HasWritten
      <3>2. QED
        BY <1>3, <3>1 DEF IInv, CancelsOK
    <2>3. QED
      BY <2>1, <2>2
  <1>11. QED
    BY <1>5, <1>6, <1>7, <1>8, <1>9, <1>10 DEF IInv

LEMMA SetCanceledStep ==
  ASSUME IInv, NEW p \in Workers, SetCanceled(p) PROVE IInv'
  <1> DEFINE b == tx[p].id
             row == [committed[b] EXCEPT !.canceled = TRUE]
             to == AfterCancel(committed[b])
  <1>1. /\ pc[p] = "cancel" /\ InCancel(p) /\ b \in Ids /\ ~LockedByOther(p, b)
        /\ Write(p, b, row) /\ pc' = [pc EXCEPT ![p] = to]
        /\ UNCHANGED <<event, person, committed, clock, seq, tx>>
    BY DEF IInv, LocalsOK, SetCanceled, InCancel
  <1>2. committed[b] # None /\ committed[b] \in Row
    BY <1>1 DEF IInv, TypeOK, LocalsOK, CancelsOK, InCancel
  <1>3. row \in Row /\ row.canceled /\ HistoryKept(committed[b], row)
    BY <1>2, NoneAssumption DEF Row, HistoryKept
  <1>4. version[b] = committed[b]
    BY <1>1 DEF IInv, VersionsOK, LocksOK, HasWritten, LockedByOther
  <1>5. to \in {"waiter", "commit"}
    BY DEF AfterCancel
  <1> HIDE DEF row, to
  <1>6. TypeOK'
    BY <1>1, <1>3, <1>5, WriteType DEF IInv, TypeOK, PCs
  <1>7. QED
    BY <1>1, <1>2, <1>3, <1>4, <1>5, <1>6, UpdateRowStep

LEMMA PromoteStep ==
  ASSUME IInv, NEW p \in Workers, Promote(p) PROVE IInv'
  <1> DEFINE b == tx[p].first
             row == Promoted(View(p)[b])
  <1>1. /\ pc[p] = "promote" /\ InCancel(p) /\ HasWritten(p) /\ b \in Ids /\ ~LockedByOther(p, b)
        /\ Write(p, b, row) /\ pc' = [pc EXCEPT ![p] = "commit"]
        /\ UNCHANGED <<event, person, committed, clock, seq, tx>>
    BY DEF IInv, LocalsOK, Promote, Step, InCancel, HasWritten
  <1>2. committed[b] # None /\ b # tx[p].id
    BY <1>1 DEF IInv, LocalsOK, CancelsOK, InCancel, Ids
  <1>3. View(p)[b] = version[b] /\ version[b] \in Row
    BY <1>1, <1>2 DEF IInv, TypeOK, VersionsOK, HistoryKept, LockedByOther, View
  <1>4. row \in Row /\ HistoryKept(version[b], row)
    BY <1>3, NoneAssumption DEF Row, Promoted, HistoryKept
  <1> HIDE DEF row
  <1>5. TypeOK'
    BY <1>1, <1>4, WriteType DEF IInv, TypeOK, PCs
  <1>6. QED
    BY <1>1, <1>2, <1>4, <1>5, UpdateRowStep

\* The waiting booking chosen for promotion is not the one that was canceled.
LEMMA SelectWaiterStep ==
  ASSUME IInv, NEW p \in Workers, SelectWaiter(p) PROVE IInv'
  <1>1. /\ pc[p] = "waiter" /\ HasWritten(p) /\ tx[p].op = "cancel" /\ tx[p] \in TxType
        /\ tx[p].id \in Ids /\ tx[p].first = 0
        /\ lock[tx[p].id] = p /\ version[tx[p].id].canceled
        /\ UNCHANGED <<event, person, committed, version, lock, clock, seq>>
    BY DEF IInv, TypeOK, LocalsOK, CancelsOK, SelectWaiter, Step, InCancel, HasWritten
  <1>2. PICK to \in {"promote", "commit"}, first \in Ids \cup {0} :
          /\ pc' = [pc EXCEPT ![p] = to]
          /\ tx' = [tx EXCEPT ![p] = [tx[p] EXCEPT !.first = first]]
          /\ to = "promote" => first \in Waiting(View(p))
          /\ to = "commit" => first = 0
    <2>1. CASE \E b \in FirstWaiting(View(p)) : Step(p, "waiter", "promote") /\ tx' = [tx EXCEPT ![p].first = b]
      <3>1. PICK b \in FirstWaiting(View(p)) : Step(p, "waiter", "promote") /\ tx' = [tx EXCEPT ![p].first = b]
        BY <2>1
      <3>2. b \in Waiting(View(p)) /\ b \in Ids
        BY DEF FirstWaiting, Waiting, Active
      <3>3. tx' = [tx EXCEPT ![p] = [tx[p] EXCEPT !.first = b]]
        BY <3>1 DEF IInv, TypeOK
      <3>4. QED
        BY <3>1, <3>2, <3>3 DEF Step
    <2>2. CASE Step(p, "waiter", "commit") /\ UNCHANGED tx
      <3>1. [tx[p] EXCEPT !.first = 0] = tx[p]
        BY <1>1 DEF TxType
      <3>2. tx' = [tx EXCEPT ![p] = [tx[p] EXCEPT !.first = 0]]
        BY <2>2, <3>1 DEF IInv, TypeOK
      <3>3. QED
        BY <2>2, <3>2 DEF Step
    <2>3. QED
      BY <2>1, <2>2 DEF SelectWaiter
  <1> DEFINE t == [tx[p] EXCEPT !.first = first]
  <1>3. /\ t \in TxType /\ t.op = "cancel" /\ t.id = tx[p].id /\ t.first = first
    BY <1>1 DEF TxType
  <1>4. tx' = [tx EXCEPT ![p] = t]
    BY <1>2
  <1> HIDE DEF t
  <1>5. /\ tx'[p] = t /\ pc'[p] = to
        /\ \A o \in Workers : o # p => tx'[o] = tx[o] /\ pc'[o] = pc[o]
    BY <1>2, <1>4 DEF IInv, TypeOK
  <1>0. 0 \notin Ids
    BY BoundsAssumption DEF Ids
  <1>6. first # 0 => first \in Ids /\ committed[first] # None /\ first # tx[p].id
    <2> SUFFICES ASSUME first # 0
                 PROVE  first \in Ids /\ committed[first] # None /\ first # tx[p].id
      OBVIOUS
    <2>1. first \in Ids /\ View(p)[first] # None /\ ~View(p)[first].canceled
      BY <1>2 DEF Waiting, Active
    <2>2. first # tx[p].id
      BY <1>1, <2>1 DEF View
    <2>3. lock[first] # p
      BY <1>0, <1>1, <2>1, <2>2, WorkersAssumption DEF IInv, LocksOK
    <2>4. QED
      BY <2>1, <2>2, <2>3 DEF View
  <1>7. TypeOK'
    BY <1>1, <1>2, <1>3, <1>4 DEF IInv, TypeOK, PCs
  <1>8. LocalsOK'
    BY <1>1, <1>2, <1>3, <1>5, <1>6 DEF IInv, LocalsOK, InBooking, InCancel, Bookings, Waiting, Active
  <1>9. VersionsOK' /\ KeysOK'
    BY <1>1 DEF IInv, VersionsOK, KeysOK
  <1>10. LocksOK'
    <2>1. \A o \in Workers : HasWritten(o) => HasWritten(o)'
      BY <1>1, <1>5 DEF HasWritten
    <2>2. \A b \in Ids : lock[b] = p => b = tx[p].id
      BY <1>0, <1>1, WorkersAssumption DEF IInv, LocksOK
    <2>3. QED
      BY <1>1, <1>3, <1>5, <2>1, <2>2 DEF IInv, TypeOK, LocksOK
  <1>11. BookingsOK'
    <2>1. \A o \in Workers : tx'[o].op \in Bookings => o # p /\ tx'[o] = tx[o] /\ pc'[o] = pc[o]
      BY <1>3, <1>5 DEF Bookings
    <2>2. \A o \in Workers : tx'[o] = tx[o] => NewRow(o)' = NewRow(o)
      BY DEF NewRow
    <2>3. QED
      BY <1>1, <2>1, <2>2 DEF IInv, BookingsOK
  <1>12. CancelsOK'
    <2> SUFFICES ASSUME NEW o \in Workers, tx'[o].op = "cancel"
                 PROVE  /\ tx'[o].id \in Ids /\ committed'[tx'[o].id] # None
                        /\ HasWritten(o)' => lock'[tx'[o].id] = o /\ version'[tx'[o].id].canceled
                        /\ tx'[o].first # 0 => /\ tx'[o].first \in Ids /\ committed'[tx'[o].first] # None
                                              /\ tx'[o].first # tx'[o].id
                        /\ pc'[o] \in {"cancel", "waiter"} => tx'[o].first = 0
      BY DEF CancelsOK
    <2>1. CASE o = p
      <3>1. committed[tx[p].id] # None
        BY <1>1 DEF IInv, CancelsOK
      <3>2. QED
        BY <1>1, <1>2, <1>3, <1>5, <1>6, <2>1, <3>1
    <2>2. CASE o # p
      <3>1. tx'[o] = tx[o] /\ pc'[o] = pc[o] /\ (HasWritten(o)' <=> HasWritten(o))
        BY <1>5, <2>2 DEF HasWritten
      <3>2. QED
        BY <1>1, <3>1 DEF IInv, CancelsOK
    <2>3. QED
      BY <2>1, <2>2
  <1>13. QED
    BY <1>7, <1>8, <1>9, <1>10, <1>11, <1>12 DEF IInv

\* A commit makes the transaction's versions the committed ones.
LEMMA CommitStep ==
  ASSUME IInv, NEW p \in Workers, Commit(p) PROVE IInv'
  <1> DEFINE t == [tx[p] EXCEPT !.out = Outcome(p)]
  <1>1. /\ pc[p] = "commit" /\ tx[p] \in TxType /\ tx[p].id \in Ids
        /\ pc' = [pc EXCEPT ![p] = "reply"] /\ UNCHANGED <<event, version, clock, seq>>
    BY DEF IInv, TypeOK, LocalsOK, Commit, Step
  <1>2. /\ t \in TxType /\ t.op = tx[p].op /\ t.id = tx[p].id
        /\ t.first = tx[p].first /\ t.sub = tx[p].sub
    <2>1. Outcome(p) \in Outs
      BY DEF Outcome, Outs
    <2>2. QED
      BY <1>1, <2>1 DEF TxType
  <1>3. tx' = [tx EXCEPT ![p] = t]
    BY DEF IInv, TypeOK, Commit, Answer
  <1> HIDE DEF t
  <1>4. /\ tx'[p] = t /\ pc'[p] = "reply"
        /\ \A o \in Workers : o # p => tx'[o] = tx[o] /\ pc'[o] = pc[o]
    BY <1>1, <1>3 DEF IInv, TypeOK
  <1>5. \A b \in Ids : /\ committed'[b] = IF lock[b] = p THEN version[b] ELSE committed[b]
                       /\ lock'[b] = IF lock[b] = p THEN None ELSE lock[b]
    BY DEF Commit, View, ReleasedLocks
  <1>6. TypeOK'
    <2>1. committed' \in [Ids -> Row \cup {None}] /\ lock' \in [Ids -> Workers \cup {None}]
      BY ViewType DEF IInv, TypeOK, Commit, ReleasedLocks
    <2>2. person' \in [Subs -> People \cup {None}]
      BY <1>1 DEF IInv, TypeOK, TxType, Commit, Subs
    <2>3. QED
      BY <1>1, <1>2, <1>3, <2>1, <2>2 DEF IInv, TypeOK, PCs
  <1>7. LocalsOK'
    BY <1>1, <1>2, <1>4 DEF IInv, LocalsOK, InBooking, InCancel
  <1>8. VersionsOK'
    BY <1>1, <1>5 DEF IInv, VersionsOK, HistoryKept
  <1>9. KeysOK'
    BY <1>1 DEF IInv, KeysOK
  <1>10. LocksOK'
    BY <1>4, <1>5 DEF IInv, TypeOK, LocksOK, HasWritten
  <1>11. BookingsOK'
    <2> SUFFICES ASSUME NEW q \in Workers, tx'[q].op \in Bookings, pc'[q] \notin {"idle", "reply"}
                 PROVE  /\ committed'[tx'[q].id] = None
                        /\ IF pc'[q] = "commit"
                             THEN lock'[tx'[q].id] = q /\ version'[tx'[q].id] = NewRow(q)'
                             ELSE version'[tx'[q].id] = None
                        /\ \A o \in Workers : tx'[o].op \in Bookings /\ tx'[o].id = tx'[q].id => o = q
      BY DEF BookingsOK
    <2>1. /\ q # p /\ tx'[q] = tx[q] /\ pc'[q] = pc[q] /\ tx[q].id \in Ids
          /\ NewRow(q)' = NewRow(q)
      BY <1>4 DEF IInv, LocalsOK, NewRow
    <2>2. \A o \in Workers : tx'[o].op = tx[o].op /\ tx'[o].id = tx[o].id
      BY <1>2, <1>4
    <2>3. QED
      BY <1>1, <1>5, <2>1, <2>2 DEF IInv, BookingsOK
  <1>12. CancelsOK'
    <2> SUFFICES ASSUME NEW o \in Workers, tx'[o].op = "cancel"
                 PROVE  /\ tx'[o].id \in Ids /\ committed'[tx'[o].id] # None
                        /\ HasWritten(o)' => lock'[tx'[o].id] = o /\ version'[tx'[o].id].canceled
                        /\ tx'[o].first # 0 => /\ tx'[o].first \in Ids /\ committed'[tx'[o].first] # None
                                              /\ tx'[o].first # tx'[o].id
                        /\ pc'[o] \in {"cancel", "waiter"} => tx'[o].first = 0
      BY DEF CancelsOK
    <2>1. \A b \in Ids : committed[b] # None => committed'[b] # None
      BY <1>5 DEF IInv, VersionsOK, HistoryKept
    <2>2. /\ tx'[o].op = tx[o].op /\ tx'[o].id = tx[o].id /\ tx'[o].first = tx[o].first
          /\ HasWritten(o)' => o # p /\ HasWritten(o)
          /\ pc'[o] \in {"cancel", "waiter"} => pc'[o] = pc[o]
      BY <1>2, <1>4 DEF HasWritten
    <2>3. QED
      BY <1>1, <1>5, <2>1, <2>2 DEF IInv, CancelsOK
  <1>13. QED
    BY <1>6, <1>7, <1>8, <1>9, <1>10, <1>11, <1>12 DEF IInv

LEMMA ReplyStep ==
  ASSUME IInv, NEW p \in Workers, Reply(p) PROVE IInv'
  <1>1. /\ pc[p] = "reply" /\ pc' = [pc EXCEPT ![p] = "idle"] /\ tx' = [tx EXCEPT ![p] = NoTx]
        /\ UNCHANGED <<event, person, committed, version, lock, clock, seq>>
    BY DEF Reply, Step
  <1>2. NoTx.op = "none" /\ NoTx.op \notin Bookings /\ NoTx.sub = None
    BY DEF NoTx, Bookings
  <1>3. /\ tx'[p] = NoTx /\ pc'[p] = "idle"
        /\ \A o \in Workers : o # p => tx'[o] = tx[o] /\ pc'[o] = pc[o]
    BY <1>1 DEF IInv, TypeOK
  <1>4. TypeOK'
    BY <1>1, NoTxType DEF IInv, TypeOK, PCs
  <1>5. LocalsOK'
    BY <1>1, <1>2, <1>3 DEF IInv, LocalsOK, InBooking, InCancel
  <1>6. VersionsOK' /\ KeysOK'
    BY <1>1 DEF IInv, VersionsOK, KeysOK
  <1>7. LocksOK'
    BY <1>1, <1>3 DEF IInv, TypeOK, LocksOK, HasWritten
  <1>8. BookingsOK'
    <2>1. \A o \in Workers : tx'[o].op \in Bookings => o # p /\ tx'[o] = tx[o] /\ pc'[o] = pc[o]
      BY <1>2, <1>3
    <2>2. \A o \in Workers : tx'[o] = tx[o] => NewRow(o)' = NewRow(o)
      BY DEF NewRow
    <2>3. QED
      BY <1>1, <2>1, <2>2 DEF IInv, BookingsOK
  <1>9. CancelsOK'
    <2>1. \A o \in Workers : tx'[o].op = "cancel" => o # p /\ tx'[o] = tx[o] /\ pc'[o] = pc[o]
      BY <1>2, <1>3
    <2>2. QED
      BY <1>1, <2>1 DEF IInv, CancelsOK, HasWritten
  <1>10. QED
    BY <1>4, <1>5, <1>6, <1>7, <1>8, <1>9 DEF IInv

LEMMA UpdateEventStep ==
  ASSUME IInv, NEW p \in Workers, UpdateEvent(p) PROVE IInv'
  <1>1. /\ UNCHANGED <<person, committed, version, lock, clock, seq, pc, tx>>
        /\ \E l \in Limits, bookable \in BOOLEAN :
             event' = [bookable |-> bookable, max |-> l.max, wait |-> l.wait]
    BY DEF UpdateEvent
  <1>2. event' \in [bookable : BOOLEAN, max : Int, wait : Nat] /\ [max |-> event'.max, wait |-> event'.wait] \in Limits
    BY <1>1, LimitsAssumption
  <1>3. TypeOK'
    BY <1>1, <1>2 DEF IInv, TypeOK
  <1>4. QED
    BY <1>1, <1>3 DEF IInv, LocalsOK, VersionsOK, KeysOK, LocksOK, BookingsOK, CancelsOK,
                      InBooking, InCancel, HasWritten, NewRow

-----------------------------------------------------------------------------
LEMMA InitInv == Init => IInv
  <1> SUFFICES ASSUME Init PROVE IInv
    OBVIOUS
  <1>1. /\ \A p \in Workers : pc[p] = "idle" /\ tx[p] = NoTx
        /\ \A b \in Ids : committed[b] = None /\ version[b] = None /\ lock[b] = None
    BY DEF Init
  <1>2. NoTx.op = "none" /\ NoTx.op \notin Bookings /\ NoTx.sub = None
    BY DEF NoTx, Bookings
  <1>3. TypeOK
    <2>1. event \in [bookable : BOOLEAN, max : Int, wait : Nat] /\ [max |-> event.max, wait |-> event.wait] \in Limits
      BY LimitsAssumption DEF Init
    <2>2. person \in [Subs -> People \cup {None}]
      BY PeopleAssumption DEF Init, Subs
    <2>3. QED
      BY <2>1, <2>2, NoTxType, BoundsAssumption DEF Init, TypeOK, PCs
  <1>4. QED
    BY <1>1, <1>2, <1>3 DEF IInv, LocalsOK, VersionsOK, KeysOK, LocksOK, BookingsOK, CancelsOK,
                            InBooking, InCancel, HasWritten

\* What a booking request starts from, by the form or by a link.
LEMMA BookingRequest ==
  ASSUME NEW p \in Workers, BookEvent(p) \/ PreBookEvent(p)
  PROVE  \E r \in TxType : /\ BeginBooking(p, r) /\ r.op \in Bookings /\ r.id = 0 /\ r.first = 0
                           /\ r.op = "prebook" => r.sub \in Subs
  <1>1. CASE BookEvent(p)
    <2>1. PICK who \in People, flag \in MemberFlags :
            BeginBooking(p, [NoTx EXCEPT !.op = "book", !.person = who, !.member = flag])
      BY <1>1 DEF BookEvent
    <2> DEFINE r == [NoTx EXCEPT !.op = "book", !.person = who, !.member = flag]
    <2>2. r \in TxType
      BY NoTxType, RequestsAssumption DEF TxType, Bookings
    <2>3. r.op = "book" /\ r.first = 0 /\ r.id = 0
      BY DEF NoTx
    <2>4. BeginBooking(p, r)
      BY <2>1
    <2> HIDE DEF r
    <2>5. QED
      BY <2>2, <2>3, <2>4 DEF Bookings
  <1>2. CASE PreBookEvent(p)
    <2>1. PICK s \in Subs : BeginBooking(p, [NoTx EXCEPT !.op = "prebook", !.sub = s])
      BY <1>2 DEF PreBookEvent
    <2> DEFINE r == [NoTx EXCEPT !.op = "prebook", !.sub = s]
    <2>2. r \in TxType
      BY NoTxType DEF TxType, Bookings
    <2>3. r.op = "prebook" /\ r.first = 0 /\ r.id = 0 /\ r.sub = s
      BY DEF NoTx
    <2>4. BeginBooking(p, r)
      BY <2>1
    <2> HIDE DEF r
    <2>5. QED
      BY <2>2, <2>3, <2>4 DEF Bookings
  <1>3. QED
    BY <1>1, <1>2

LEMMA NextInv == IInv /\ [Next]_vars => IInv'
  <1> SUFFICES ASSUME IInv, [Next]_vars PROVE IInv'
    OBVIOUS
  <1>1. ASSUME NEW p \in Workers, BookEvent(p) \/ PreBookEvent(p) PROVE IInv'
    <2>1. PICK r \in TxType : /\ BeginBooking(p, r) /\ r.op \in Bookings /\ r.id = 0 /\ r.first = 0
                              /\ r.op = "prebook" => r.sub \in Subs
      BY <1>1, BookingRequest
    <2>2. QED
      BY <2>1, BeginBookingStep
  <1>3. ASSUME NEW p \in Workers, Serve(p) PROVE IInv'
    BY <1>3, ReadCountersStep, InsertEventSubscriberStep, CheckDuplicateStep, InsertBookingStep,
       SetCanceledStep, SelectWaiterStep, PromoteStep, CommitStep, ReplyStep DEF Serve
  <1>4. CASE UNCHANGED vars
    BY <1>4 DEF vars, IInv, TypeOK, LocalsOK, VersionsOK, KeysOK, LocksOK, BookingsOK, CancelsOK,
                InBooking, InCancel, HasWritten, NewRow
  <1>5. QED
    BY <1>1, <1>3, <1>4, BeginCancelStep, UpdateEventStep, AbortStep DEF Next

\* Whatever the workers, persons, limits and requests are: the locals of a
\* request, the row versions and the row locks agree in every reachable state.
THEOREM IInvariant == Spec => []IInv
  <1>1. Init => IInv
    BY InitInv
  <1>2. IInv /\ [Next]_vars => IInv'
    BY NextInv
  <1>3. QED
    BY <1>1, <1>2, PTL DEF Spec

\* Type correctness: the tables, locks and locals hold values of their columns.
THEOREM TypeCorrect == Spec => []TypeOK
  <1>1. IInv => TypeOK
    BY DEF IInv
  <1>2. QED
    BY <1>1, IInvariant, PTL

\* insert_booking and its UNIQUE keys: a subscriber never holds two active
\* bookings of the event, however many requests race.
THEOREM OneBooking == Spec => []OneBookingPerSubscriber
  <1>1. IInv => OneBookingPerSubscriber
    BY DEF IInv, TypeOK, VersionsOK, KeysOK, HistoryKept, OneBookingPerSubscriber, Active
  <1>2. QED
    BY <1>1, IInvariant, PTL

\* The payment id names one booking even after the sequence has cycled.
THEOREM PaymentIds == Spec => []PaymentIdsDistinct
  <1>1. IInv => PaymentIdsDistinct
    BY DEF IInv, VersionsOK, KeysOK, HistoryKept, PaymentIdsDistinct
  <1>2. QED
    BY <1>1, IInvariant, PTL

\* Only a commit changes committed rows, and only the way HistoryKept allows.
LEMMA HistoryStep == IInv /\ [Next]_vars => [\A b \in Ids : committed[b] # None => HistoryKept(committed[b], committed'[b])]_vars
  <1> SUFFICES ASSUME IInv, Next, NEW b \in Ids, committed[b] # None
               PROVE  HistoryKept(committed[b], committed'[b])
    OBVIOUS
  <1>1. CASE committed' = committed
    BY <1>1 DEF HistoryKept
  <1>2. ASSUME NEW p \in Workers, Commit(p)
        PROVE  HistoryKept(committed[b], committed'[b])
    <2>1. committed'[b] = IF lock[b] = p THEN version[b] ELSE committed[b]
      BY <1>2 DEF Commit, View
    <2>2. QED
      BY <2>1 DEF IInv, VersionsOK, HistoryKept
  <1>3. QED
    BY <1>1, <1>2 DEF Next, Serve, BookEvent, PreBookEvent, BeginBooking, BeginCancel, UpdateEvent,
                      ReadCounters, InsertEventSubscriber, CheckDuplicate, InsertBooking,
                      SetCanceled, SelectWaiter, Promote, Reply, Abort

\* A committed booking stays, keeps its subscriber and payment id, and is
\* neither un-canceled nor sent back to the waiting list by any interleaving.
THEOREM History == Spec => HistoryIsKept
  <1>1. IInv /\ [Next]_vars => [\A b \in Ids : committed[b] # None => HistoryKept(committed[b], committed'[b])]_vars
    BY HistoryStep
  <1>2. QED
    BY <1>1, IInvariant, PTL DEF Spec, HistoryIsKept

-----------------------------------------------------------------------------
(* Requests that race: they never wait for each other in a circle, answers  *)
(* are what the database holds, the limits are exceeded by so much at most. *)


\* A step of p leaves the other requests alone, and the rows they have locked.
StepBy(p) ==
  /\ \A o \in Workers \ {p} : pc'[o] = pc[o] /\ tx'[o] = tx[o]
  /\ \A b \in Ids : lock'[b] \in {lock[b], None, p}
  /\ \A b \in Ids : lock[b] \notin {None, p} => version'[b] = version[b] /\ committed'[b] = committed[b]
  /\ \/ SetCanceled(p)
     \/ SelectWaiter(p)
     \/ Promote(p)
     \/ pc'[p] \notin {"waiter", "promote"} /\ Commit(p)
     \/ /\ pc'[p] \notin {"waiter", "promote", "commit"} \/ tx'[p].op \in Bookings
        /\ UNCHANGED committed
        /\ tx'[p].op = "cancel" => tx'[p].first = 0 /\ ~HasWritten(p)'

\* The id of an uncommitted booking is locked by nobody but its own request.
LEMMA OwnId ==
  ASSUME IInv, NEW p \in Workers, tx[p].op \in Bookings, pc[p] = "insert"
  PROVE  lock[tx[p].id] = None
  <1>1. tx[p].id \in Ids /\ committed[tx[p].id] = None /\ ~HasWritten(p)
    BY DEF IInv, LocalsOK, BookingsOK, HasWritten
  <1> SUFFICES ASSUME NEW q \in Workers, lock[tx[p].id] = q PROVE FALSE
    BY <1>1 DEF IInv, TypeOK
  <1>2. HasWritten(q) /\ (tx[q].id = tx[p].id \/ (tx[q].op = "cancel" /\ tx[q].first = tx[p].id))
    BY <1>1, WorkersAssumption DEF IInv, LocksOK
  <1>3. tx[q].op # "cancel"
    BY <1>1, <1>2, BoundsAssumption DEF IInv, CancelsOK, Ids
  <1>4. tx[q].op \in Bookings /\ q # p
    BY <1>1, <1>2, <1>3 DEF IInv, LocalsOK, InCancel, HasWritten
  <1>5. QED
    BY <1>2, <1>3, <1>4 DEF IInv, BookingsOK

\* The actions of Next, for one worker.
Acts(p) ==
  \/ BookEvent(p) \/ PreBookEvent(p) \/ BeginCancel(p) \/ UpdateEvent(p)
  \/ Serve(p)
  \/ Abort(p)

LEMMA StepOfWorker ==
  ASSUME IInv, NEW p \in Workers, Acts(p)
  PROVE  StepBy(p)
  <1>2. tx \in [Workers -> TxType] /\ pc \in [Workers -> PCs] /\ lock \in [Ids -> Workers \cup {None}]
    BY DEF IInv, TypeOK
  <1>3. CASE BookEvent(p) \/ PreBookEvent(p)
    <2>1. PICK r \in TxType : BeginBooking(p, r) /\ r.op \in Bookings
      BY <1>3, BookingRequest
    <2>2. /\ tx' = [tx EXCEPT ![p] = tx'[p]] /\ tx'[p].op \in Bookings
          /\ pc' = [pc EXCEPT ![p] = pc'[p]] /\ UNCHANGED <<committed, lock>>
      BY <1>2, <2>1 DEF BeginBooking, TxType
    <2>3. UNCHANGED version
      BY <2>1 DEF BeginBooking
    <2>4. QED
      BY <1>2, <2>2, <2>3 DEF StepBy, Bookings
  <1>4. CASE BeginCancel(p)
    <2>1. PICK b \in Ids : tx' = [tx EXCEPT ![p] = [NoTx EXCEPT !.op = "cancel", !.id = b]]
      BY <1>4 DEF BeginCancel
    <2>2. tx'[p].first = 0
      BY <1>2, <2>1 DEF NoTx
    <2>3. pc' = [pc EXCEPT ![p] = "cancel"] /\ UNCHANGED <<committed, version, lock>>
      BY <1>4 DEF BeginCancel, Step
    <2>4. QED
      BY <1>2, <2>1, <2>2, <2>3 DEF StepBy, HasWritten
  <1>5. CASE UpdateEvent(p)
    <2>1. pc[p] = "idle" /\ tx[p].op = "none"
      BY <1>5 DEF UpdateEvent, IInv, LocalsOK, NoTx
    <2>2. QED
      BY <1>5, <2>1 DEF StepBy, UpdateEvent
  <1>6. CASE Abort(p)
    BY <1>2, <1>6 DEF StepBy, Abort, NoTx, Rollback, ReleasedLocks, IInv, VersionsOK
  <1>7. CASE ReadCounters(p) \/ InsertEventSubscriber(p) \/ CheckDuplicate(p) \/ InsertBooking(p)
    <2>1. tx[p] \in TxType /\ tx[p].op \in Bookings
      BY <1>2, <1>7 DEF IInv, LocalsOK, InBooking, ReadCounters, InsertEventSubscriber, CheckDuplicate,
                        InsertBooking, Step
    <2>2. \A b \in Ids : lock'[b] \in {lock[b], None, p}
      BY <1>2, <1>7 DEF ReadCounters, InsertEventSubscriber, CheckDuplicate, InsertBooking, Write, Rollback,
                        ReleasedLocks
    <2>3. /\ \A o \in Workers \ {p} : pc'[o] = pc[o] /\ tx'[o] = tx[o]
          /\ tx'[p].op = tx[p].op /\ UNCHANGED committed
      BY <1>2, <1>7, <2>1 DEF ReadCounters, InsertEventSubscriber, CheckDuplicate, InsertBooking, Step, Answer,
                              TxType
    <2>4. \A b \in Ids : lock[b] \notin {None, p} => version'[b] = version[b]
      <3>1. CASE InsertBooking(p)
        <4>1. lock[tx[p].id] = None
          BY <2>1, <3>1, OwnId DEF InsertBooking
        <4>2. QED
          BY <3>1, <4>1 DEF InsertBooking, Write, Rollback, IInv, TypeOK
      <3>2. CASE UNCHANGED version
        BY <3>2
      <3>3. QED
        BY <1>7, <3>1, <3>2 DEF ReadCounters, InsertEventSubscriber, CheckDuplicate
    <2>5. QED
      BY <2>1, <2>2, <2>3, <2>4 DEF StepBy, Bookings
  <1>8. CASE SetCanceled(p)
    BY <1>2, <1>8 DEF StepBy, SetCanceled, Write, LockedByOther, IInv, TypeOK
  <1>9. CASE SelectWaiter(p)
    BY <1>2, <1>9 DEF StepBy, SelectWaiter, Step
  <1>10. CASE Promote(p)
    BY <1>2, <1>10 DEF StepBy, Promote, Step, Write, LockedByOther, IInv, TypeOK
  <1>11. CASE Commit(p)
    BY <1>2, <1>11 DEF StepBy, Commit, Step, Answer, ReleasedLocks, View
  <1>12. CASE Reply(p)
    BY <1>2, <1>12 DEF StepBy, Reply, Step, NoTx
  <1>13. QED
    BY <1>3, <1>4, <1>5, <1>6, <1>7, <1>8, <1>9, <1>10, <1>11, <1>12 DEF Acts, Serve

LEMMA StepOfOne ==
  ASSUME IInv, Next
  PROVE  \E p \in Workers : Acts(p) /\ StepBy(p)
  BY StepOfWorker DEF Next, Acts

-----------------------------------------------------------------------------
(* Deadlock                                                                 *)

\* What a committed booking is never loses: HistoryIsKept for one row.
LEMMA RowKept ==
  ASSUME IInv, Next, NEW b \in Ids, committed[b] # None
  PROVE  HistoryKept(committed[b], committed'[b])
  BY HistoryStep DEF vars, HistoryKept

\* The waiting booking a cancelation has just chosen is committed as waiting.
LEMMA ChosenIsWaiting ==
  ASSUME IInv, IInv', NEW p \in Workers, SelectWaiter(p), pc'[p] = "promote"
  PROVE  /\ tx'[p].first \in Ids /\ lock[tx'[p].first] # p
         /\ ~committed[tx'[p].first].enrolled
         /\ tx'[p].id = tx[p].id /\ tx'[p].first # tx[p].id
  <1>1. /\ pc[p] = "waiter" /\ HasWritten(p) /\ tx[p].op = "cancel" /\ tx[p].first = 0
        /\ tx[p] \in TxType /\ 0 \notin Ids /\ UNCHANGED <<committed, version, lock>>
    BY BoundsAssumption DEF SelectWaiter, Step, IInv, TypeOK, LocalsOK, CancelsOK, InCancel, HasWritten, Ids
  <1>2. PICK b \in FirstWaiting(View(p)) : tx' = [tx EXCEPT ![p].first = b]
    BY DEF SelectWaiter, Step, IInv, TypeOK
  <1>3. /\ b \in Ids /\ ~View(p)[b].enrolled
        /\ tx'[p].first = b /\ tx'[p].id = tx[p].id /\ tx'[p].op = "cancel"
    BY <1>1, <1>2 DEF FirstWaiting, Waiting, Active, IInv, TypeOK, TxType
  <1>4. b # tx[p].id
    BY <1>1, <1>3 DEF IInv, CancelsOK
  <1>5. lock[b] # p
    BY <1>1, <1>3, <1>4, WorkersAssumption DEF IInv, LocksOK
  <1>6. QED
    BY <1>3, <1>4, <1>5 DEF View

LEMMA PromotionsStep ==
  ASSUME IInv, IInv', LInv, Next PROVE PromotionsOK'
  <1>1. PICK p \in Workers : StepBy(p)
    BY StepOfOne
  <1> SUFFICES ASSUME NEW o \in Workers, tx'[o].op = "cancel"
               PROVE  /\ pc'[o] = "waiter" \/ tx'[o].first # 0 => committed'[tx'[o].id].enrolled
                      /\ HasWritten(o)' => version'[tx'[o].id].enrolled = committed'[tx'[o].id].enrolled
                      /\ pc'[o] = "promote" => lock'[tx'[o].first] # o
                      /\ tx'[o].first # 0 /\ lock'[tx'[o].first] = o
                           => version'[tx'[o].first].canceled = committed'[tx'[o].first].canceled
    BY DEF PromotionsOK
  <1>2. /\ tx'[o].id \in Ids /\ committed'[tx'[o].id] # None
        /\ HasWritten(o)' => lock'[tx'[o].id] = o
        /\ pc'[o] = "promote" => tx'[o].first \in Ids
    BY DEF IInv, CancelsOK, LocalsOK
  <1>3. CASE o # p
    <2>1. tx'[o] = tx[o] /\ pc'[o] = pc[o] /\ (HasWritten(o)' <=> HasWritten(o))
      BY <1>1, <1>3 DEF StepBy, HasWritten
    <2>2. committed[tx[o].id] # None /\ HistoryKept(committed[tx[o].id], committed'[tx[o].id])
      BY <1>2, <2>1, RowKept DEF IInv, CancelsOK
    <2>3. pc'[o] = "promote" => lock'[tx'[o].first] # o
      BY <1>1, <1>2, <1>3, <2>1, WorkersAssumption DEF StepBy, LInv, PromotionsOK
    <2>4. pc'[o] = "waiter" \/ tx'[o].first # 0 => committed'[tx'[o].id].enrolled
      BY <2>1, <2>2 DEF LInv, PromotionsOK, HistoryKept
    <2>5. ASSUME HasWritten(o)' PROVE version'[tx[o].id].enrolled = committed'[tx[o].id].enrolled
      <3>1. lock[tx[o].id] = o /\ version[tx[o].id].enrolled = committed[tx[o].id].enrolled
        BY <2>1, <2>5 DEF IInv, CancelsOK, LInv, PromotionsOK
      <3>2. version'[tx[o].id] = version[tx[o].id] /\ committed'[tx[o].id] = committed[tx[o].id]
        BY <1>1, <1>2, <1>3, <2>1, <3>1, WorkersAssumption DEF StepBy
      <3>3. QED
        BY <3>1, <3>2
    <2>6. ASSUME tx[o].first # 0, lock'[tx[o].first] = o
          PROVE  version'[tx[o].first].canceled = committed'[tx[o].first].canceled
      <3>1. tx[o].first \in Ids
        BY <2>1, <2>6 DEF IInv, CancelsOK
      <3>2. lock[tx[o].first] = o
        BY <1>1, <1>3, <2>6, <3>1, WorkersAssumption DEF StepBy
      <3>3. /\ version'[tx[o].first] = version[tx[o].first]
            /\ committed'[tx[o].first] = committed[tx[o].first]
        BY <1>1, <1>3, <3>1, <3>2, WorkersAssumption DEF StepBy
      <3>4. QED
        BY <2>1, <2>6, <3>2, <3>3 DEF LInv, PromotionsOK
    <2>7. QED
      BY <2>1, <2>3, <2>4, <2>5, <2>6
  <1>4. CASE o = p
    <2>1. CASE SetCanceled(p)
      <3>0. tx' = tx /\ committed' = committed /\ pc[p] = "cancel"
        BY <2>1 DEF SetCanceled
      <3>1. /\ tx' = tx /\ committed' = committed /\ tx[p].first = 0 /\ tx[p].id \in Ids
            /\ pc'[p] = AfterCancel(committed[tx[p].id])
            /\ version'[tx[p].id] = [committed[tx[p].id] EXCEPT !.canceled = TRUE]
            /\ committed[tx[p].id] \in Row
        <4>1. tx[p].first = 0 /\ tx[p].id \in Ids /\ committed[tx[p].id] \in Row
          BY <1>2, <1>4, <3>0 DEF IInv, TypeOK, CancelsOK
        <4>2. QED
          BY <2>1, <3>0, <4>1 DEF SetCanceled, Write, IInv, TypeOK
      <3>2. version'[tx[p].id].enrolled = committed[tx[p].id].enrolled
        BY <3>1 DEF Row
      <3>3. QED
        BY <1>4, <3>1, <3>2 DEF AfterCancel
    <2>2. CASE SelectWaiter(p)
      <3>1. /\ UNCHANGED <<committed, version, lock>> /\ pc[p] = "waiter" /\ tx[p].op = "cancel"
            /\ HasWritten(p) /\ tx'[p].id = tx[p].id
        BY <2>2 DEF SelectWaiter, Step, IInv, TypeOK, TxType, LocalsOK, InCancel, HasWritten
      <3>2. committed[tx[p].id].enrolled /\ version[tx[p].id].enrolled = committed[tx[p].id].enrolled
        BY <3>1 DEF LInv, PromotionsOK
      <3>3. pc'[p] = "promote" \/ tx'[p].first = 0
        BY <2>2, <3>1 DEF SelectWaiter, Step, IInv, TypeOK, CancelsOK
      <3>4. QED
        BY <1>4, <2>2, <3>1, <3>2, <3>3, ChosenIsWaiting
    <2>3. CASE Promote(p)
      <3>1. /\ tx' = tx /\ committed' = committed /\ pc[p] = "promote" /\ HasWritten(p) /\ pc'[p] = "commit"
            /\ tx[p].first \in Ids /\ 0 \notin Ids /\ tx[p].first # tx[p].id
            /\ version'[tx[p].id] = version[tx[p].id]
        BY <1>2, <1>4, <2>3, BoundsAssumption
           DEF Promote, Step, Write, IInv, TypeOK, LocalsOK, CancelsOK, HasWritten, Ids
      <3>2. committed[tx[p].first] \in Row /\ lock[tx[p].first] = None
        BY <1>4, <2>3, <3>1 DEF Promote, LockedByOther, LInv, PromotionsOK, IInv, TypeOK, CancelsOK
      <3>3. version'[tx[p].first] = Promoted(committed[tx[p].first])
        BY <2>3, <3>1, <3>2, WorkersAssumption DEF Promote, Write, View, IInv, TypeOK
      <3>4. version'[tx[p].first].canceled = committed[tx[p].first].canceled
        BY <3>2, <3>3 DEF Promoted, Row
      <3>5. QED
        BY <1>4, <3>1, <3>4 DEF LInv, PromotionsOK
    <2>4. CASE Commit(p) /\ pc'[p] \notin {"waiter", "promote"}
      <3>1. /\ tx[p].op = "cancel" /\ tx'[p].id = tx[p].id /\ tx'[p].first = tx[p].first /\ pc'[p] = "reply"
        BY <1>4, <2>4 DEF Commit, Step, Answer, IInv, TypeOK, TxType
      <3>2. HistoryKept(committed[tx[p].id], committed'[tx[p].id])
        BY <1>2, <1>4, <3>1, RowKept DEF IInv, CancelsOK
      <3>3. tx[p].first # 0 => lock'[tx[p].first] # p
        BY <1>4, <2>4, <3>1, WorkersAssumption DEF Commit, ReleasedLocks, IInv, CancelsOK
      <3>4. QED
        BY <1>4, <3>1, <3>2, <3>3 DEF LInv, PromotionsOK, HistoryKept, HasWritten
    <2>5. CASE /\ pc'[p] \notin {"waiter", "promote", "commit"} \/ tx'[p].op \in Bookings
               /\ tx'[p].op = "cancel" => tx'[p].first = 0 /\ ~HasWritten(p)'
      BY <1>4, <2>5 DEF Bookings, HasWritten
    <2>6. QED
      BY <1>1, <2>1, <2>2, <2>3, <2>4, <2>5 DEF StepBy
  <1>5. QED
    BY <1>3, <1>4

LEMMA ChoicesStep ==
  ASSUME IInv, IInv', LInv, Next PROVE ChoicesAcyclic'
  <1>1. PICK p \in Workers : StepBy(p)
    BY StepOfOne
  <1> SUFFICES ASSUME NEW S \in (SUBSET Workers) \ {{}}, \A q \in S : pc'[q] = "promote"
               PROVE  \E r \in S : \A q \in S : tx'[r].first # tx'[q].id
    BY DEF ChoicesAcyclic
  <1>2. CASE p \in S
    <2>1. pc'[p] = "promote" /\ tx'[p].op = "cancel"
      BY <1>2 DEF IInv, LocalsOK, InCancel
    <2>2. SelectWaiter(p)
      BY <1>1, <2>1 DEF StepBy, SetCanceled, AfterCancel, Promote, Step, Bookings, IInv, TypeOK
    <2>3. /\ tx'[p].first \in Ids /\ ~committed[tx'[p].first].enrolled
          /\ tx'[p].id = tx[p].id /\ tx'[p].first # tx[p].id
      BY <2>1, <2>2, ChosenIsWaiting
    <2>4. ASSUME NEW q \in S, q # p PROVE tx'[p].first # tx'[q].id
      <3>1. pc[q] = "promote" /\ tx'[q].id = tx[q].id
        BY <1>1, <2>4 DEF StepBy
      <3>2. tx[q].op = "cancel" /\ tx[q].first \in Ids /\ tx[q].first # 0
        BY <3>1, BoundsAssumption DEF IInv, LocalsOK, InCancel, Ids
      <3>3. committed[tx[q].id].enrolled
        BY <3>2 DEF LInv, PromotionsOK
      <3>4. QED
        BY <2>3, <3>1, <3>3
    <2>5. QED
      BY <1>2, <2>3, <2>4
  <1>3. CASE p \notin S
    <2>1. \A q \in S : pc'[q] = pc[q] /\ tx'[q] = tx[q]
      BY <1>1, <1>3 DEF StepBy
    <2>2. QED
      BY <2>1 DEF LInv, ChoicesAcyclic
  <1>4. QED
    BY <1>2, <1>3

LEMMA LInvariant == Spec => []LInv
  <1>1. Init => LInv
    <2>1. Init => \A p \in Workers : pc[p] = "idle" /\ tx[p].op = "none"
      BY DEF Init, NoTx
    <2>2. (\A p \in Workers : pc[p] = "idle" /\ tx[p].op = "none") => PromotionsOK
      BY DEF PromotionsOK
    <2>3. (\A p \in Workers : pc[p] = "idle" /\ tx[p].op = "none") => ChoicesAcyclic
      <3> SUFFICES ASSUME NEW S \in (SUBSET Workers) \ {{}}, \A p \in S : pc[p] = "idle"
                   PROVE  ~\A p \in S : pc[p] = "promote"
        BY DEF ChoicesAcyclic
      <3>1. PICK p \in S : TRUE
        OBVIOUS
      <3>2. QED
        BY <3>1
    <2>4. QED
      BY <2>1, <2>2, <2>3 DEF LInv
  <1>2. IInv /\ IInv' /\ LInv /\ [Next]_vars => LInv'
    <2>1. CASE UNCHANGED vars
      BY <2>1 DEF vars, LInv, PromotionsOK, ChoicesAcyclic, HasWritten
    <2>2. QED
      BY <2>1, PromotionsStep, ChoicesStep DEF LInv
  <1>3. QED
    BY <1>1, <1>2, IInvariant, PTL DEF Spec

\* However many workers cancel and promote, and whatever row they pick: their
\* transactions never wait for each other in a circle.
THEOREM NoDeadlock == Spec => []NoLockCycle
  <1>1. IInv /\ LInv => NoLockCycle
    <2> SUFFICES ASSUME IInv, LInv, NEW S \in (SUBSET Workers) \ {{}}
                 PROVE  \E p \in S : WaitsFor(p) \cap S = {}
      BY DEF NoLockCycle
    <2> DEFINE P == {p \in S : pc[p] = "promote"}
    <2>1. ASSUME NEW p \in S, NEW b \in Ids, lock[b] = p PROVE HasWritten(p)
      BY <2>1, WorkersAssumption DEF IInv, LocksOK
    <2>2. CASE \E p \in S : pc[p] \notin {"cancel", "promote", "insert"}
      BY <2>2 DEF WaitsFor
    <2>3. CASE P = {} /\ \A p \in S : pc[p] \in {"cancel", "promote", "insert"}
      <3>1. PICK p \in S : TRUE
        OBVIOUS
      <3>2. \A q \in S : ~HasWritten(q)
        <4>1. \A q \in S : pc[q] # "promote" /\ pc[q] \in {"cancel", "promote", "insert"}
          BY <2>3
        <4>2. QED
          BY <4>1 DEF HasWritten
      <3>3. pc[p] = "cancel" => tx[p].id \in Ids
        BY DEF IInv, LocalsOK
      <3>4. WaitsFor(p) \cap S = {}
        BY <2>1, <2>3, <3>2, <3>3 DEF WaitsFor, OpenClashes
      <3>5. QED
        BY <3>4
    <2>4. CASE P # {} /\ \A p \in S : pc[p] \in {"cancel", "promote", "insert"}
      <3>1. PICK p \in P : \A q \in P : tx[p].first # tx[q].id
        BY <2>4 DEF LInv, ChoicesAcyclic
      <3>2. pc[p] = "promote" /\ tx[p].op = "cancel" /\ tx[p].first \in Ids
        BY <3>1 DEF IInv, LocalsOK, InCancel
      <3>3. ASSUME NEW q \in S, lock[tx[p].first] = q, q # p PROVE FALSE
        <4>1. HasWritten(q) /\ (tx[q].id = tx[p].first \/ (tx[q].op = "cancel" /\ tx[q].first = tx[p].first))
          BY <3>2, <3>3, WorkersAssumption DEF IInv, LocksOK
        <4>2. pc[q] = "promote" /\ q \in P /\ tx[q].op = "cancel"
          BY <2>4, <4>1 DEF HasWritten, IInv, LocalsOK, InCancel
        <4>3. lock[tx[q].first] # q
          BY <4>2 DEF LInv, PromotionsOK
        <4>4. QED
          BY <3>1, <3>3, <4>1, <4>2, <4>3
      <3>4. WaitsFor(p) \cap S = {}
        BY <3>2, <3>3 DEF WaitsFor
      <3>5. QED
        BY <3>1, <3>4
    <2>5. QED
      BY <2>2, <2>3, <2>4
  <1>2. QED
    BY <1>1, IInvariant, LInvariant, PTL

-----------------------------------------------------------------------------
(* Answers                                                                  *)


\* A new version of a row is that of p's own new booking, or of a committed row,
\* or what a rollback leaves.
LEMMA VersionStep ==
  ASSUME IInv, NEW p \in Workers, NEW b \in Ids, version[b] = None, committed[b] = None, Acts(p)
  PROVE  \/ version'[b] = None
         \/ InsertBooking(p) /\ tx[p].id = b
  <1>1. CASE InsertBooking(p)
    BY <1>1 DEF InsertBooking, Write, Rollback, IInv, TypeOK
  <1>2. CASE Abort(p)
    BY <1>2 DEF Abort, Rollback
  <1>3. CASE SetCanceled(p)
    <2>1. tx[p].id \in Ids /\ committed[tx[p].id] # None
      BY <1>3 DEF SetCanceled, IInv, LocalsOK, CancelsOK, InCancel
    <2>2. QED
      BY <1>3, <2>1 DEF SetCanceled, Write, IInv, TypeOK
  <1>4. CASE Promote(p)
    <2>1. tx[p].first \in Ids /\ committed[tx[p].first] # None
      BY <1>4, BoundsAssumption DEF Promote, Step, IInv, LocalsOK, CancelsOK, InCancel, Ids
    <2>2. QED
      BY <1>4, <2>1 DEF Promote, Write, IInv, TypeOK
  <1>5. CASE UNCHANGED version
    BY <1>5
  <1>6. QED
    BY <1>1, <1>2, <1>3, <1>4, <1>5
       DEF Acts, Serve, BookEvent, PreBookEvent, BeginBooking, BeginCancel, UpdateEvent, ReadCounters,
           InsertEventSubscriber, CheckDuplicate, SelectWaiter, Commit, Reply

\* A subscriber row is stored by the commit that stores its booking.
LEMMA PersonsStep ==
  ASSUME IInv, AInv, Next, NEW b \in Ids, committed'[b] = None PROVE person'[b] = None
  <1>1. committed[b] = None /\ person[b] = None
    BY RowKept DEF HistoryKept, AInv, RefusalsOK
  <1>2. CASE UNCHANGED person
    BY <1>1, <1>2
  <1>3. ASSUME NEW p \in Workers, Commit(p), tx[p].new PROVE person'[b] = None
    <2>1. tx[p].op \in Bookings /\ tx[p].id \in Ids /\ version[tx[p].id] # None /\ lock[tx[p].id] = p
      BY <1>3 DEF Commit, Step, AInv, RefusalsOK, IInv, LocalsOK, BookingsOK
    <2>2. committed'[tx[p].id] # None
      BY <1>3, <2>1 DEF Commit, View
    <2>3. QED
      BY <1>1, <1>3, <2>2 DEF Commit, IInv, TypeOK
  <1>4. QED
    BY <1>2, <1>3 DEF Next, Serve, BookEvent, PreBookEvent, BeginBooking, BeginCancel, UpdateEvent,
                      ReadCounters, InsertEventSubscriber, CheckDuplicate, InsertBooking,
                      SetCanceled, SelectWaiter, Promote, Commit, Reply, Abort

\* What holds of one worker in AInv.
Told(o) ==
  /\ tx[o].new => tx[o].op \in Bookings
  /\ pc[o] = "commit" /\ tx[o].op \in Bookings => version[tx[o].id] # None
  /\ pc[o] = "reply" =>
       \/ /\ tx[o].out = "booked" /\ tx[o].id \in Ids
          /\ committed[tx[o].id] # None /\ committed[tx[o].id].enrolled
       \/ /\ tx[o].out = "waiting" /\ tx[o].id \in Ids
          /\ committed[tx[o].id] # None /\ ~tx[o].enrolled
       \/ tx[o].out = "canceled" /\ tx[o].op = "cancel" /\ committed[tx[o].id].canceled
       \/ /\ tx[o].out \notin {"booked", "waiting", "canceled"} /\ tx[o].op \in Bookings
          /\ tx[o].id # 0 => version[tx[o].id] = None

LEMMA ToldIsAnswer ==
  ASSUME IInv', \A b \in Ids : committed'[b] = None => person'[b] = None,
         \A o \in Workers : Told(o)'
  PROVE  AInv'
  <1>1. \A o \in Workers : tx'[o].id # 0 /\ version'[tx'[o].id] = None =>
          committed'[tx'[o].id] = None /\ person'[tx'[o].id] = None
    BY DEF IInv, TypeOK, TxType, VersionsOK, HistoryKept
  <1>2. RefusalsOK'
    BY DEF RefusalsOK, Told
  <1>3. AnswersAreTrue'
    BY <1>1 DEF AnswersAreTrue, Told
  <1>4. QED
    BY <1>2, <1>3 DEF AInv

LEMMA AnswerIsTold ==
  ASSUME IInv, AInv, NEW o \in Workers PROVE Told(o)
  BY DEF Told, AInv, RefusalsOK, AnswersAreTrue

\* The other requests are told what they were told before.
LEMMA OthersStep ==
  ASSUME IInv, IInv', AInv, NEW p \in Workers, Acts(p), NEW o \in Workers, o # p
  PROVE  Told(o)'
  <1>1. tx'[o] = tx[o] /\ pc'[o] = pc[o] /\ Told(o) /\ Next
    BY StepOfWorker, AnswerIsTold DEF StepBy, Acts, Next
  <1>2. ASSUME tx[o].id \in Ids, committed[tx[o].id] # None
        PROVE  HistoryKept(committed[tx[o].id], committed'[tx[o].id])
    BY <1>1, <1>2, RowKept
  <1>3. ASSUME pc[o] = "commit", tx[o].op \in Bookings PROVE version'[tx[o].id] # None
    <2>1. lock[tx[o].id] = o /\ tx[o].id \in Ids
      BY <1>3 DEF IInv, BookingsOK, LocalsOK
    <2>2. version'[tx[o].id] = version[tx[o].id]
      BY <2>1, StepOfWorker, WorkersAssumption DEF StepBy
    <2>3. QED
      BY <1>1, <1>3, <2>2 DEF Told
  <1>4. ASSUME pc[o] = "reply", tx[o].op \in Bookings, tx[o].id # 0, version[tx[o].id] = None
        PROVE  version'[tx[o].id] = None
    <2>1. tx[o].id \in Ids /\ committed[tx[o].id] = None
      BY <1>4 DEF IInv, TypeOK, TxType, VersionsOK, HistoryKept
    <2>2. ~(InsertBooking(p) /\ tx[p].id = tx[o].id)
      BY <1>4 DEF InsertBooking, IInv, LocalsOK, BookingsOK, InBooking
    <2>3. QED
      BY <1>4, <2>1, <2>2, VersionStep
  <1>5. tx[o].op = "cancel" => tx[o].id \in Ids /\ committed[tx[o].id] # None
    BY DEF IInv, CancelsOK
  <1>6. QED
    BY <1>1, <1>2, <1>3, <1>4, <1>5 DEF Told, HistoryKept

\* A request is told what its last step has done.
LEMMA OwnStep ==
  ASSUME IInv, IInv', AInv, NEW p \in Workers, Acts(p)
  PROVE  Told(p)'
  <1>1. Told(p) /\ tx[p] \in TxType /\ tx \in [Workers -> TxType] /\ pc \in [Workers -> PCs]
    BY AnswerIsTold DEF IInv, TypeOK
  <1>2. CASE BookEvent(p) \/ PreBookEvent(p)
    <2>1. PICK r \in TxType : BeginBooking(p, r) /\ r.op \in Bookings /\ r.id = 0
      BY <1>2, BookingRequest
    <2>2. /\ tx'[p].op \in Bookings /\ pc'[p] \in {"enroll", "reply"}
          /\ pc'[p] = "reply" => tx'[p].out = "notBookable" /\ tx'[p].id = 0
      BY <1>1, <2>1 DEF BeginBooking, TxType
    <2>3. QED
      BY <2>2 DEF Told
  <1>3. CASE BeginCancel(p)
    <2>1. tx'[p].new = FALSE /\ pc'[p] = "cancel"
      BY <1>1, <1>3 DEF BeginCancel, Step, NoTx
    <2>2. QED
      BY <2>1 DEF Told
  <1>4. CASE UpdateEvent(p)
    BY <1>1, <1>4 DEF UpdateEvent, Told
  <1>5. CASE Abort(p) \/ Reply(p)
    <2>1. tx'[p].new = FALSE /\ pc'[p] = "idle"
      BY <1>1, <1>5 DEF Abort, Reply, Step, NoTx
    <2>2. QED
      BY <2>1 DEF Told
  <1>6. CASE ReadCounters(p) \/ InsertEventSubscriber(p) \/ CheckDuplicate(p)
    <2>1. /\ tx[p].op \in Bookings /\ version[tx[p].id] = None /\ version' = version
          /\ tx'[p].op = tx[p].op /\ tx'[p].id = tx[p].id
          /\ pc'[p] # "commit"
      BY <1>1, <1>6 DEF IInv, LocalsOK, InBooking, BookingsOK, ReadCounters, InsertEventSubscriber, CheckDuplicate,
                        Step, Answer, TxType
    <2>2. pc'[p] = "reply" => tx'[p].out \in {"bookedOut", "duplicate"}
      BY <1>1, <1>6 DEF ReadCounters, InsertEventSubscriber, CheckDuplicate, Step, Answer, TxType
    <2>3. QED
      BY <2>1, <2>2 DEF Told
  <1>7. CASE InsertBooking(p)
    <2>1. /\ tx[p].op \in Bookings /\ tx[p].id \in Ids /\ tx[p].sub \in Subs /\ tx[p].pid \in Pids
          /\ committed[tx[p].id] = None /\ version[tx[p].id] = None /\ tx[p].enrolled \in BOOLEAN
      BY <1>1, <1>7 DEF IInv, LocalsOK, InBooking, BookingsOK, InsertBooking, TxType
    <2>2. NewRow(p) # None
      <3>1. NewRow(p) \in Row
        BY <2>1 DEF NewRow, Row
      <3>2. QED
        BY <3>1, NoneAssumption
    <2>3. CASE pc' = [pc EXCEPT ![p] = "reply"] /\ Answer(p, "error") /\ Rollback(p)
      <3>1. version'[tx[p].id] = None
        BY <2>1, <2>3 DEF Rollback
      <3>2. tx'[p].op = tx[p].op /\ tx'[p].id = tx[p].id /\ tx'[p].out = "error" /\ pc'[p] = "reply"
        BY <1>1, <2>3 DEF Answer, TxType
      <3>3. QED
        BY <2>1, <3>1, <3>2 DEF Told
    <2>4. CASE pc' = [pc EXCEPT ![p] = "commit"] /\ Write(p, tx[p].id, NewRow(p)) /\ UNCHANGED tx
      <3>1. version'[tx[p].id] = NewRow(p)
        BY <2>1, <2>4 DEF Write, IInv, TypeOK
      <3>2. QED
        BY <1>1, <2>1, <2>2, <2>4, <3>1 DEF Told
    <2>5. QED
      BY <1>7, <2>3, <2>4 DEF InsertBooking
  <1>8. CASE SetCanceled(p) \/ SelectWaiter(p) \/ Promote(p)
    <2>1. /\ tx[p].op = "cancel" /\ tx'[p].op = "cancel" /\ tx'[p].new = tx[p].new
          /\ pc'[p] \in {"waiter", "promote", "commit"}
      BY <1>1, <1>8 DEF IInv, LocalsOK, InCancel, SetCanceled, SelectWaiter, Promote, Step, AfterCancel, TxType
    <2>2. QED
      BY <1>1, <2>1 DEF Told, Bookings
  <1>9. CASE Commit(p)
    <2>1. /\ pc[p] = "commit" /\ pc'[p] = "reply" /\ tx[p].id \in Ids /\ tx[p].op \in Bookings \cup {"cancel"}
          /\ tx'[p].out = Outcome(p)
          /\ tx'[p].op = tx[p].op /\ tx'[p].id = tx[p].id /\ tx'[p].new = tx[p].new
          /\ tx'[p].enrolled = tx[p].enrolled
      BY <1>1, <1>9 DEF Commit, Step, Answer, TxType, IInv, LocalsOK
    <2>2. lock[tx[p].id] = p
      BY <2>1 DEF IInv, BookingsOK, CancelsOK, HasWritten
    <2>3. committed'[tx[p].id] = version[tx[p].id]
      BY <1>9, <2>1, <2>2 DEF Commit, View
    <2>4. CASE tx[p].op = "cancel"
      <3>1. version[tx[p].id].canceled /\ Outcome(p) = "canceled"
        BY <2>1, <2>4 DEF IInv, CancelsOK, HasWritten, Outcome
      <3>2. QED
        BY <1>1, <2>1, <2>3, <2>4, <3>1 DEF Told, Bookings
    <2>5. CASE tx[p].op \in Bookings
      <3>1. version[tx[p].id] # None /\ version[tx[p].id].enrolled = tx[p].enrolled
        <4>1. version[tx[p].id] = NewRow(p) /\ version[tx[p].id] # None
          BY <1>1, <2>1, <2>5 DEF IInv, BookingsOK, Told
        <4>2. NewRow(p).enrolled = tx[p].enrolled
          BY DEF NewRow
        <4>3. QED
          BY <4>1, <4>2
      <3>2. Outcome(p) = IF tx[p].enrolled THEN "booked" ELSE "waiting"
        <4>1. tx[p].op # "cancel" /\ tx[p].enrolled \in BOOLEAN
          BY <1>1, <2>5 DEF Bookings, TxType
        <4>2. QED
          BY <4>1 DEF Outcome
      <3>3. QED
        BY <1>1, <2>1, <2>3, <2>5, <3>1, <3>2 DEF Told
    <2>6. QED
      BY <2>1, <2>4, <2>5
  <1>10. QED
    BY <1>2, <1>3, <1>4, <1>5, <1>6, <1>7, <1>8, <1>9 DEF Acts, Serve

LEMMA AInvariant == Spec => []AInv
  <1>1. Init => AInv
    <2>1. Init => \A p \in Workers : pc[p] = "idle" /\ ~tx[p].new
      BY DEF Init, NoTx
    <2>2. Init => \A b \in Ids : person[b] = None
      BY IdsAssumption DEF Init, Subs
    <2>3. QED
      BY <2>1, <2>2 DEF AInv, AnswersAreTrue, RefusalsOK
  <1>2. IInv /\ IInv' /\ AInv /\ [Next]_vars => AInv'
    <2>1. CASE UNCHANGED vars
      BY <2>1 DEF vars, AInv, AnswersAreTrue, RefusalsOK
    <2>2. ASSUME IInv, IInv', AInv, Next PROVE AInv'
      <3>1. PICK p \in Workers : Acts(p)
        BY <2>2, StepOfOne
      <3>2. \A o \in Workers : Told(o)'
        BY <2>2, <3>1, OthersStep, OwnStep
      <3>3. \A b \in Ids : committed'[b] = None => person'[b] = None
        BY <2>2, PersonsStep
      <3>4. QED
        BY <2>2, <3>2, <3>3, ToldIsAnswer
    <2>3. QED
      BY <2>1, <2>2
  <1>3. QED
    BY <1>1, <1>2, IInvariant, PTL DEF Spec

\* A booking that was answered as booked or waiting is stored, a canceled one is
\* canceled, a refused or failed request has left nothing behind.
THEOREM TrueAnswers == Spec => []AnswersAreTrue
  <1>1. AInv => AnswersAreTrue
    BY DEF AInv
  <1>2. QED
    BY <1>1, AInvariant, PTL


-----------------------------------------------------------------------------
(* Counting                                                                 *)

LEMMA IdsFinite ==
  /\ IsFiniteSet(Ids)
  /\ \A A \in SUBSET Ids : IsFiniteSet(A) /\ Cardinality(A) \in Nat
  /\ \A B \in SUBSET Workers : IsFiniteSet(B) /\ Cardinality(B) \in Nat /\ Cardinality(B) <= Cardinality(Workers)
  /\ Cardinality(Workers) \in Nat \ {0}
  <1>1. IsFiniteSet(Ids)
    BY FS_Interval, BoundsAssumption DEF Ids
  <1>2. IsFiniteSet(Workers) /\ Workers # {}
    BY WorkersAssumption
  <1>3. Cardinality(Workers) \in Nat \ {0}
    BY <1>2, FS_EmptySet, FS_CardinalityType
  <1>4. \A A \in SUBSET Ids : IsFiniteSet(A) /\ Cardinality(A) \in Nat
    BY <1>1, FS_Subset, FS_CardinalityType
  <1>5. \A B \in SUBSET Workers : IsFiniteSet(B) /\ Cardinality(B) \in Nat /\ Cardinality(B) <= Cardinality(Workers)
    BY <1>2, FS_Subset, FS_CardinalityType
  <1>6. QED
    BY <1>1, <1>3, <1>4, <1>5

\* Both counts shrink or stay.
LEMMA CountsShrink ==
  ASSUME NEW A \in SUBSET Ids, NEW A2 \in SUBSET A, NEW B \in SUBSET Workers, NEW B2 \in SUBSET B
  PROVE  Cardinality(A2) + Cardinality(B2) <= Cardinality(A) + Cardinality(B)
  <1>1. IsFiniteSet(A) /\ IsFiniteSet(B)
    BY IdsFinite
  <1>2. Cardinality(A2) <= Cardinality(A) /\ Cardinality(B2) <= Cardinality(B)
    BY <1>1, FS_Subset
  <1>3. /\ Cardinality(A) \in Nat /\ Cardinality(A2) \in Nat
        /\ Cardinality(B) \in Nat /\ Cardinality(B2) \in Nat
    BY IdsFinite
  <1>4. QED
    BY <1>2, <1>3

\* A taker turns into a row.
LEMMA TakerCommits ==
  ASSUME NEW A \in SUBSET Ids, NEW x \in Ids, NEW A2 \in SUBSET (A \cup {x}),
         NEW B \in SUBSET Workers, NEW p \in B, NEW B2 \in SUBSET (B \ {p})
  PROVE  Cardinality(A2) + Cardinality(B2) <= Cardinality(A) + Cardinality(B)
  <1>1. IsFiniteSet(A) /\ IsFiniteSet(B) /\ IsFiniteSet(A \cup {x}) /\ IsFiniteSet(B \ {p})
    BY IdsFinite
  <1>2. Cardinality(A2) <= Cardinality(A \cup {x}) /\ Cardinality(B2) <= Cardinality(B \ {p})
    BY <1>1, FS_Subset
  <1>3. Cardinality(A \cup {x}) = IF x \in A THEN Cardinality(A) ELSE Cardinality(A) + 1
    BY <1>1, FS_AddElement
  <1>4. Cardinality(B \ {p}) = Cardinality(B) - 1
    BY <1>1, FS_RemoveElement
  <1>5. /\ Cardinality(A) \in Nat /\ Cardinality(A2) \in Nat
        /\ Cardinality(B) \in Nat /\ Cardinality(B2) \in Nat
    BY IdsFinite
  <1>6. QED
    BY <1>2, <1>3, <1>4, <1>5

\* One row leaves and at most one comes.
LEMMA RowReplaced ==
  ASSUME NEW A \in SUBSET Ids, NEW x \in A, NEW y \in Ids, NEW A2 \in SUBSET ((A \ {x}) \cup {y})
  PROVE  Cardinality(A2) <= Cardinality(A)
  <1>1. IsFiniteSet(A) /\ IsFiniteSet(A \ {x}) /\ IsFiniteSet((A \ {x}) \cup {y})
    BY IdsFinite
  <1>2. Cardinality(A2) <= Cardinality((A \ {x}) \cup {y})
    BY <1>1, FS_Subset
  <1>3. Cardinality(A \ {x}) = Cardinality(A) - 1
    BY <1>1, FS_RemoveElement
  <1>4. Cardinality((A \ {x}) \cup {y}) = IF y \in A \ {x} THEN Cardinality(A \ {x}) ELSE Cardinality(A \ {x}) + 1
    BY <1>1, FS_AddElement
  <1>5. Cardinality(A) \in Nat /\ Cardinality(A2) \in Nat
    BY IdsFinite
  <1>6. QED
    BY <1>2, <1>3, <1>4, <1>5

-----------------------------------------------------------------------------
(* The steps                                                                *)

\* Only a look at the counters makes a worker a taker, a commit ends it.
LEMMA TakersStep ==
  ASSUME IInv, NEW p \in Workers, Acts(p), ~ReadCounters(p)
  PROVE  /\ SeatTakers' \subseteq SeatTakers /\ PlaceTakers' \subseteq PlaceTakers
         /\ Commit(p) => p \notin SeatTakers' /\ p \notin PlaceTakers'
  <1>1. \A o \in Workers : o # p => tx'[o] = tx[o] /\ pc'[o] = pc[o]
    BY StepOfWorker DEF StepBy
  <1>2. tx[p] \in TxType /\ tx \in [Workers -> TxType] /\ pc \in [Workers -> PCs]
    BY DEF IInv, TypeOK
  <1>3. Commit(p) => pc'[p] = "reply"
    BY <1>2 DEF Commit, Step
  <1>4. tx'[p].op \in Bookings /\ pc'[p] \in Deciding =>
          tx[p].op \in Bookings /\ pc[p] \in Deciding /\ tx'[p].enrolled = tx[p].enrolled
    <2>1. CASE BookEvent(p) \/ PreBookEvent(p)
      <3>1. PICK r \in TxType : BeginBooking(p, r)
        BY <2>1, BookingRequest
      <3>2. pc'[p] \in {"enroll", "reply"}
        BY <1>2, <3>1 DEF BeginBooking
      <3>3. QED
        BY <3>2 DEF Deciding
    <2>2. CASE BeginCancel(p) \/ Abort(p) \/ Reply(p) \/ Commit(p)
      <3>1. pc'[p] \in {"cancel", "idle", "reply"}
        BY <1>2, <2>2 DEF BeginCancel, Abort, Reply, Commit, Step
      <3>2. QED
        BY <3>1 DEF Deciding
    <2>3. CASE UpdateEvent(p)
      BY <2>3 DEF UpdateEvent
    <2>4. CASE InsertEventSubscriber(p) \/ CheckDuplicate(p) \/ InsertBooking(p)
      <3>1. pc[p] \in {"subscriber", "duplicate", "insert"} /\ tx[p].op \in Bookings
        BY <2>4 DEF InsertEventSubscriber, CheckDuplicate, InsertBooking, Step, IInv, LocalsOK, InBooking
      <3>2. tx'[p].enrolled = tx[p].enrolled
        BY <1>2, <2>4 DEF InsertEventSubscriber, CheckDuplicate, InsertBooking, Step, Answer, TxType
      <3>3. QED
        BY <3>1, <3>2 DEF Deciding
    <2>5. CASE SetCanceled(p) \/ SelectWaiter(p) \/ Promote(p)
      <3>1. tx[p].op = "cancel" /\ tx'[p].op = tx[p].op
        BY <1>2, <2>5 DEF SetCanceled, SelectWaiter, Promote, Step, IInv, LocalsOK, InCancel, TxType
      <3>2. QED
        BY <3>1 DEF Bookings
    <2>6. QED
      BY <2>1, <2>2, <2>3, <2>4, <2>5 DEF Acts, Serve
  <1>5. QED
    BY <1>1, <1>3, <1>4 DEF SeatTakers, PlaceTakers, Deciding

\* Nothing but a commit changes what is committed, and it changes its rows only.
LEMMA CommittedStep ==
  ASSUME IInv, NEW p \in Workers, Acts(p)
  PROVE  /\ ~Commit(p) => committed' = committed
         /\ \A b \in Ids : committed'[b] # committed[b] =>
              /\ lock[b] = p /\ committed'[b] = version[b]
              /\ b = tx[p].id \/ (tx[p].op = "cancel" /\ b = tx[p].first)
  <1>1. ~Commit(p) => committed' = committed
    BY StepOfWorker DEF StepBy, SetCanceled, SelectWaiter, Promote
  <1>2. ASSUME Commit(p), NEW b \in Ids, committed'[b] # committed[b]
        PROVE  /\ lock[b] = p /\ committed'[b] = version[b]
               /\ b = tx[p].id \/ (tx[p].op = "cancel" /\ b = tx[p].first)
    BY <1>2, WorkersAssumption DEF Commit, View, IInv, LocksOK
  <1>3. QED
    BY <1>1, <1>2

\* Before its first write a transaction sees what is committed.
LEMMA ReadsCommitted ==
  ASSUME IInv, NEW p \in Workers, ~HasWritten(p)
  PROVE  View(p) = committed
  <1>1. \A b \in Ids : lock[b] # p
    BY WorkersAssumption DEF IInv, LocksOK
  <1>2. QED
    BY <1>1 DEF View, IInv, TypeOK

\* Commit of a booking: at most its own row is new, and enrolled as it was told.
LEMMA BookingCommits ==
  ASSUME IInv, NEW p \in Workers, Commit(p), tx[p].op \in Bookings
  PROVE  /\ pc[p] = "commit" /\ tx[p].id \in Ids
         /\ Enrolled(committed') \subseteq Enrolled(committed) \cup {tx[p].id}
         /\ Waiting(committed') \subseteq Waiting(committed) \cup {tx[p].id}
         /\ ~tx[p].enrolled => Enrolled(committed') \subseteq Enrolled(committed)
         /\ tx[p].enrolled => Waiting(committed') \subseteq Waiting(committed)
  <1>1. pc[p] = "commit" /\ tx[p].id \in Ids /\ lock[tx[p].id] = p /\ version[tx[p].id] = NewRow(p)
    BY DEF Commit, Step, IInv, LocalsOK, BookingsOK
  <1>2. \A b \in Ids : b # tx[p].id => committed'[b] = committed[b]
    BY CommittedStep DEF Acts, Serve, Bookings
  <1>3. committed'[tx[p].id] = version[tx[p].id]
    BY <1>1 DEF Commit, View
  <1>4. committed'[tx[p].id].enrolled = tx[p].enrolled
    BY <1>1, <1>3 DEF NewRow
  <1>5. QED
    BY <1>1, <1>2, <1>4 DEF Enrolled, Waiting, Active

\* Commit of a cancelation: nobody starts to wait, and somebody gets a seat only
\* from the booking that is canceled.
LEMMA CancelCommits ==
  ASSUME IInv, LInv, NEW p \in Workers, Commit(p), tx[p].op = "cancel"
  PROVE  /\ Waiting(committed') \subseteq Waiting(committed)
         /\ tx[p].first = 0 => Enrolled(committed') \subseteq Enrolled(committed)
         /\ tx[p].first # 0 =>
              /\ tx[p].first \in Ids /\ committed[tx[p].id].enrolled
              /\ Enrolled(committed') \subseteq (Enrolled(committed) \ {tx[p].id}) \cup {tx[p].first}
  <1>1. pc[p] = "commit" /\ HasWritten(p)
    BY DEF Commit, Step, HasWritten
  <1>2. /\ tx[p].id \in Ids /\ committed[tx[p].id] # None
        /\ lock[tx[p].id] = p /\ version[tx[p].id].canceled
        /\ tx[p].first # 0 => tx[p].first \in Ids /\ committed[tx[p].first] # None
    BY <1>1 DEF IInv, CancelsOK
  <1>3. committed'[tx[p].id].canceled
    BY <1>2 DEF Commit, View
  <1>4. \A b \in Ids : committed'[b] # committed[b] => b = tx[p].id \/ b = tx[p].first
    BY CommittedStep DEF Acts, Serve
  <1>5. \A b \in Ids : committed[b] # None => HistoryKept(committed[b], committed'[b])
    BY RowKept DEF Next, Serve
  <1>6. \A b \in Ids : committed[b] = None => committed'[b] = None
    BY <1>2, <1>4, BoundsAssumption DEF Ids
  <1>7. Waiting(committed') \subseteq Waiting(committed)
    BY <1>5, <1>6 DEF Waiting, Active, HistoryKept
  <1>8. Enrolled(committed') \subseteq (Enrolled(committed) \ {tx[p].id}) \cup {tx[p].first}
    BY <1>3, <1>4 DEF Enrolled, Active
  <1>9. Enrolled(committed') \subseteq Ids
    BY DEF Enrolled, Active
  <1>10. 0 \notin Ids
    BY BoundsAssumption DEF Ids
  <1>11. tx[p].first # 0 => committed[tx[p].id].enrolled
    BY DEF LInv, PromotionsOK
  <1>12. QED
    BY <1>2, <1>7, <1>8, <1>9, <1>10, <1>11

\* A look at the counters gives a place away only if one is free.
LEMMA CountersStep ==
  ASSUME IInv, NEW p \in Workers, ReadCounters(p)
  PROVE  /\ committed' = committed
         /\ \/ SeatTakers' \subseteq SeatTakers
            \/ SeatFree(Cardinality(Enrolled(committed)))
         /\ \/ PlaceTakers' \subseteq PlaceTakers
            \/ Cardinality(Waiting(committed)) < MaxQueue
  <1> DEFINE status == CalcEnrollStatus(Cardinality(Enrolled(View(p))), Cardinality(Waiting(View(p))))
  <1>1. View(p) = committed
    BY ReadsCommitted DEF ReadCounters, HasWritten
  <1>2. tx[p] \in TxType /\ tx \in [Workers -> TxType] /\ pc \in [Workers -> PCs] /\ pc[p] = "enroll"
    BY DEF IInv, TypeOK, ReadCounters
  <1>3. \A o \in Workers : o # p => tx'[o] = tx[o] /\ pc'[o] = pc[o]
    BY <1>2 DEF ReadCounters, Answer
  <1>4. event.wait <= MaxQueue /\ event.wait \in Nat
    BY LimitsAssumption DEF IInv, TypeOK
  <1>5. Waiting(committed) \in SUBSET Ids
    BY DEF Waiting, Active
  <1>6. CASE status = "bookedOut"
    <2>1. pc'[p] = "reply"
      BY <1>2, <1>6 DEF ReadCounters
    <2>2. QED
      BY <1>3, <2>1 DEF SeatTakers, PlaceTakers, Deciding, ReadCounters
  <1>7. CASE status = "enrolled"
    <2>1. SeatFree(Cardinality(Enrolled(committed)))
      BY <1>1, <1>7 DEF CalcEnrollStatus
    <2>2. tx'[p].enrolled
      BY <1>2, <1>7 DEF ReadCounters, TxType
    <2>3. QED
      BY <1>3, <2>1, <2>2 DEF PlaceTakers, ReadCounters
  <1>8. CASE status = "waiting"
    <2>1. PlaceFree(Cardinality(Waiting(committed)))
      BY <1>1, <1>8 DEF CalcEnrollStatus
    <2>2. tx'[p].enrolled = FALSE
      BY <1>2, <1>8 DEF ReadCounters, TxType
    <2>3. Cardinality(Waiting(committed)) < MaxQueue
      BY <1>4, <1>5, <2>1, IdsFinite, LimitsAssumption DEF PlaceFree
    <2>4. QED
      BY <1>3, <2>2, <2>3 DEF SeatTakers, ReadCounters
  <1>9. QED
    BY <1>6, <1>7, <1>8 DEF CalcEnrollStatus

\* The tables and the takers as sets that can be counted.
LEMMA TakersType ==
  /\ SeatTakers \in SUBSET Workers /\ PlaceTakers \in SUBSET Workers
  /\ \A rows : Enrolled(rows) \in SUBSET Ids /\ Waiting(rows) \in SUBSET Ids
  BY DEF SeatTakers, PlaceTakers, Enrolled, Waiting, Active

-----------------------------------------------------------------------------
(* The waiting list                                                         *)

LEMMA PlacesStep ==
  ASSUME IInv, LInv, PlacesOK, Next PROVE PlacesOK'
  <1>1. PICK p \in Workers : Acts(p)
    BY StepOfOne
  <1>2. /\ SeatTakers' \in SUBSET Workers /\ PlaceTakers' \in SUBSET Workers
        /\ Enrolled(committed') \in SUBSET Ids /\ Waiting(committed') \in SUBSET Ids
    BY DEF SeatTakers, PlaceTakers, Enrolled, Waiting, Active
  <1>3. /\ Cardinality(Waiting(committed)) \in Nat /\ Cardinality(PlaceTakers) \in Nat
        /\ Cardinality(Waiting(committed')) \in Nat /\ Cardinality(PlaceTakers') \in Nat
        /\ Cardinality(PlaceTakers') <= Cardinality(Workers)
        /\ Cardinality(Workers) \in Nat /\ MaxQueue \in Nat
    BY <1>2, TakersType, IdsFinite, LimitsAssumption
  <1> SUFFICES \/ Cardinality(Waiting(committed')) + Cardinality(PlaceTakers')
                    <= Cardinality(Waiting(committed)) + Cardinality(PlaceTakers)
               \/ Cardinality(Waiting(committed')) < MaxQueue
    BY <1>3 DEF PlacesOK
  <1>4. CASE ReadCounters(p)
    <2>1. committed' = committed
      BY <1>4, CountersStep
    <2>2. CASE PlaceTakers' \subseteq PlaceTakers
      BY <2>1, <2>2, TakersType, CountsShrink
    <2>3. QED
      BY <1>4, <2>1, <2>2, CountersStep
  <1>5. CASE Commit(p) /\ tx[p].op \in Bookings
    <2>1. PlaceTakers' \in SUBSET PlaceTakers /\ p \notin PlaceTakers'
      BY <1>1, <1>5, TakersStep DEF Commit, Step, ReadCounters
    <2>2. CASE tx[p].enrolled
      <3>1. Waiting(committed') \in SUBSET Waiting(committed)
        BY <1>5, <2>2, BookingCommits
      <3>2. QED
        BY <2>1, <3>1, TakersType, CountsShrink
    <2>3. CASE ~tx[p].enrolled
      <3>1. p \in PlaceTakers /\ tx[p].id \in Ids
        BY <1>5, <2>3, BookingCommits DEF PlaceTakers, Deciding
      <3>2. Waiting(committed') \in SUBSET (Waiting(committed) \cup {tx[p].id})
        BY <1>5, BookingCommits
      <3>3. PlaceTakers' \in SUBSET (PlaceTakers \ {p})
        BY <2>1
      <3>4. QED
        BY <3>1, <3>2, <3>3, TakersType, TakerCommits
    <2>4. QED
      BY <2>2, <2>3
  <1>6. CASE Commit(p) /\ tx[p].op = "cancel"
    <2>1. PlaceTakers' \in SUBSET PlaceTakers
      BY <1>1, <1>6, TakersStep DEF Commit, Step, ReadCounters
    <2>2. Waiting(committed') \in SUBSET Waiting(committed)
      BY <1>6, CancelCommits
    <2>3. QED
      BY <2>1, <2>2, TakersType, CountsShrink
  <1>7. CASE ~ReadCounters(p) /\ ~Commit(p)
    <2>1. PlaceTakers' \in SUBSET PlaceTakers /\ committed' = committed
      BY <1>1, <1>7, TakersStep, CommittedStep
    <2>2. QED
      BY <2>1, TakersType, CountsShrink
  <1>8. Commit(p) => tx[p].op \in Bookings \cup {"cancel"}
    BY DEF Commit, Step, IInv, LocalsOK
  <1>9. QED
    BY <1>4, <1>5, <1>6, <1>7, <1>8

\* However many requests race, the waiting list is exceeded by at most one
\* booking per further worker, also while the event's limits change.
THEOREM QueueLimit == Spec => []QueueBounded
  <1>1. Init => PlacesOK
    <2> SUFFICES ASSUME Init PROVE PlacesOK
      OBVIOUS
    <2>1. Waiting(committed) = {} /\ PlaceTakers = {}
      BY DEF Init, Waiting, Active, PlaceTakers, NoTx, Bookings
    <2>2. QED
      BY <2>1, FS_EmptySet, IdsFinite, LimitsAssumption DEF PlacesOK
  <1>2. IInv /\ LInv /\ PlacesOK /\ [Next]_vars => PlacesOK'
    <2>1. CASE UNCHANGED vars
      BY <2>1 DEF vars, PlacesOK, Waiting, Active, PlaceTakers
    <2>2. QED
      BY <2>1, PlacesStep
  <1>3. PlacesOK => QueueBounded
    BY TakersType, IdsFinite, LimitsAssumption DEF PlacesOK, QueueBounded
  <1>4. QED
    BY <1>1, <1>2, <1>3, IInvariant, LInvariant, PTL DEF Spec

-----------------------------------------------------------------------------
(* The seats, when every cancelation is asked for once                      *)

\* A cancelation that is under way was so before, unless it begins now.
LEMMA CancelUnderWay ==
  ASSUME IInv, NEW p \in Workers, Acts(p), ~BeginCancel(p),
         NEW o \in Workers, tx'[o].op = "cancel"
  PROVE  /\ tx[o].op = "cancel" /\ tx'[o].id = tx[o].id
         /\ pc'[o] # "reply" => pc[o] # "reply"
  <1>1. \A q \in Workers : q # p => tx'[q] = tx[q] /\ pc'[q] = pc[q]
    BY StepOfWorker DEF StepBy
  <1>2. tx[p] \in TxType /\ tx \in [Workers -> TxType] /\ pc \in [Workers -> PCs]
    BY DEF IInv, TypeOK
  <1>3. CASE o # p
    BY <1>1, <1>3
  <1>4. CASE o = p
    <2>1. CASE BookEvent(p) \/ PreBookEvent(p)
      <3>1. PICK r \in TxType : BeginBooking(p, r) /\ r.op \in Bookings
        BY <2>1, BookingRequest
      <3>2. tx'[p].op \in Bookings
        BY <1>2, <3>1 DEF BeginBooking, TxType
      <3>3. QED
        BY <1>4, <3>2 DEF Bookings
    <2>2. CASE UpdateEvent(p)
      BY <1>4, <2>2 DEF UpdateEvent
    <2>3. CASE Abort(p) \/ Reply(p)
      BY <1>2, <1>4, <2>3 DEF Abort, Reply, NoTx
    <2>4. CASE ReadCounters(p) \/ InsertEventSubscriber(p) \/ CheckDuplicate(p) \/ InsertBooking(p)
      <3>1. tx[p].op \in Bookings
        BY <2>4 DEF ReadCounters, InsertEventSubscriber, CheckDuplicate, InsertBooking, Step, IInv, LocalsOK,
                    InBooking
      <3>2. tx'[p].op = tx[p].op
        BY <1>2, <2>4 DEF ReadCounters, InsertEventSubscriber, CheckDuplicate, InsertBooking, Step, Answer, TxType
      <3>3. QED
        BY <1>4, <3>1, <3>2 DEF Bookings
    <2>5. CASE SetCanceled(p) \/ SelectWaiter(p) \/ Promote(p) \/ Commit(p)
      <3>1. tx'[p].op = tx[p].op /\ tx'[p].id = tx[p].id
        BY <1>2, <2>5 DEF SetCanceled, SelectWaiter, Promote, Commit, Step, Answer, TxType
      <3>2. pc[p] # "reply"
        BY <2>5 DEF SetCanceled, SelectWaiter, Promote, Commit, Step
      <3>3. QED
        BY <1>4, <3>1, <3>2
    <2>6. QED
      BY <2>1, <2>2, <2>3, <2>4, <2>5 DEF Acts, Serve
  <1>5. QED
    BY <1>3, <1>4

LEMMA CancelsOnceStep ==
  ASSUME "recancel" \notin Requests, IInv, IInv', LInv, CancelsOnce, Next
  PROVE  CancelsOnce'
  <1>1. PICK p \in Workers : Acts(p) /\ StepBy(p)
    BY StepOfOne
  <1> SUFFICES ASSUME NEW o \in Workers, tx'[o].op = "cancel", pc'[o] # "reply"
               PROVE  /\ ~committed'[tx'[o].id].canceled
                      /\ \A q \in Workers : tx'[q].op = "cancel" /\ tx'[q].id = tx'[o].id => q = o
    BY DEF CancelsOnce
  <1>2. CASE BeginCancel(p)
    <2>1. PICK b \in Ids : /\ FirstCancelOf(b)
                           /\ tx' = [tx EXCEPT ![p] = [NoTx EXCEPT !.op = "cancel", !.id = b]]
      BY <1>2 DEF BeginCancel
    <2>2. /\ tx'[p].id = b /\ committed' = committed /\ pc[p] = "idle"
          /\ \A q \in Workers : q # p => tx'[q] = tx[q] /\ pc'[q] = pc[q]
      <3>1. tx'[p] = [NoTx EXCEPT !.op = "cancel", !.id = b]
        BY <2>1 DEF IInv, TypeOK
      <3>2. tx'[p].id = b
        BY <3>1 DEF NoTx
      <3>3. QED
        BY <1>1, <1>2, <3>2 DEF BeginCancel, Step, StepBy
    <2>3. ~committed[b].canceled /\ \A q \in Workers : q # p /\ tx[q].op = "cancel" => tx[q].id # b
      BY <2>1 DEF FirstCancelOf
    <2>4. CASE o = p
      BY <2>2, <2>3, <2>4
    <2>5. CASE o # p
      BY <2>2, <2>3, <2>5 DEF CancelsOnce
    <2>6. QED
      BY <2>4, <2>5
  <1>3. CASE ~BeginCancel(p)
    <2>1. /\ tx[o].op = "cancel" /\ tx'[o].id = tx[o].id /\ pc[o] # "reply"
          /\ \A q \in Workers : tx'[q].op = "cancel" => tx[q].op = "cancel" /\ tx'[q].id = tx[q].id
      BY <1>1, <1>3, CancelUnderWay
    <2>2. /\ ~committed[tx[o].id].canceled
          /\ \A q \in Workers : tx[q].op = "cancel" /\ tx[q].id = tx[o].id => q = o
      BY <2>1 DEF CancelsOnce
    <2>3. ASSUME committed'[tx[o].id] # committed[tx[o].id] PROVE ~committed'[tx[o].id].canceled
      <3>1. tx[o].id \in Ids /\ committed[tx[o].id] # None
        BY <2>1 DEF IInv, CancelsOK
      <3>2. /\ Commit(p) /\ lock[tx[o].id] = p /\ committed'[tx[o].id] = version[tx[o].id]
            /\ tx[o].id = tx[p].id \/ (tx[p].op = "cancel" /\ tx[o].id = tx[p].first)
        BY <1>1, <2>3, <3>1, CommittedStep
      <3>3. o # p
        BY <3>2 DEF Commit, Step, IInv, TypeOK
      <3>4. tx[p].op = "cancel" /\ pc[p] = "commit"
        BY <3>1, <3>2 DEF Commit, Step, IInv, LocalsOK, BookingsOK
      <3>5. tx[o].id = tx[p].first /\ tx[p].first # 0
        BY <2>2, <3>1, <3>2, <3>3, <3>4, BoundsAssumption DEF Ids
      <3>6. QED
        BY <2>2, <3>2, <3>4, <3>5 DEF LInv, PromotionsOK
    <2>4. ~committed'[tx[o].id].canceled
      BY <2>2, <2>3
    <2>5. QED
      BY <2>1, <2>2, <2>4
  <1>4. QED
    BY <1>2, <1>3

LEMMA CancelsOnceInvariant ==
  ASSUME "recancel" \notin Requests PROVE Spec => []CancelsOnce
  <1>1. Init => CancelsOnce
    BY DEF Init, NoTx, CancelsOnce
  <1>2. IInv /\ IInv' /\ LInv /\ CancelsOnce /\ [Next]_vars => CancelsOnce'
    <2>1. CASE UNCHANGED vars
      BY <2>1 DEF vars, CancelsOnce
    <2>2. QED
      BY <2>1, CancelsOnceStep
  <1>3. QED
    BY <1>1, <1>2, IInvariant, LInvariant, PTL DEF Spec

LEMMA SeatsStep ==
  ASSUME IInv, LInv, CancelsOnce, SeatsOK, Next, \A l \in Limits : l.max # Unlimited
  PROVE  SeatsOK'
  <1>1. PICK p \in Workers : Acts(p)
    BY StepOfOne
  <1>2. /\ SeatTakers' \in SUBSET Workers /\ Enrolled(committed') \in SUBSET Ids
    BY DEF SeatTakers, Enrolled, Active
  <1>3. /\ Cardinality(Enrolled(committed)) \in Nat /\ Cardinality(SeatTakers) \in Nat
        /\ Cardinality(Enrolled(committed')) \in Nat /\ Cardinality(SeatTakers') \in Nat
        /\ Cardinality(SeatTakers') <= Cardinality(Workers)
        /\ Cardinality(Workers) \in Nat /\ MaxSeats \in Nat
    BY <1>2, TakersType, IdsFinite, LimitsAssumption
  <1> SUFFICES \/ Cardinality(Enrolled(committed')) + Cardinality(SeatTakers')
                    <= Cardinality(Enrolled(committed)) + Cardinality(SeatTakers)
               \/ Cardinality(Enrolled(committed')) < MaxSeats
    BY <1>3 DEF SeatsOK
  <1>4. CASE ReadCounters(p)
    <2>1. committed' = committed
      BY <1>4, CountersStep
    <2>2. CASE SeatTakers' \subseteq SeatTakers
      BY <2>1, <2>2, TakersType, CountsShrink
    <2>3. CASE SeatFree(Cardinality(Enrolled(committed)))
      <3>1. [max |-> event.max, wait |-> event.wait] \in Limits
        BY DEF IInv, TypeOK
      <3>2. event.max # Unlimited /\ event.max <= MaxSeats /\ event.max \in Int
        BY <3>1, LimitsAssumption
      <3>3. QED
        BY <1>3, <2>1, <2>3, <3>2 DEF SeatFree
    <2>4. QED
      BY <1>4, <2>2, <2>3, CountersStep
  <1>5. CASE Commit(p) /\ tx[p].op \in Bookings
    <2>1. SeatTakers' \in SUBSET SeatTakers /\ p \notin SeatTakers'
      BY <1>1, <1>5, TakersStep DEF Commit, Step, ReadCounters
    <2>2. CASE ~tx[p].enrolled
      <3>1. Enrolled(committed') \in SUBSET Enrolled(committed)
        BY <1>5, <2>2, BookingCommits
      <3>2. QED
        BY <2>1, <3>1, TakersType, CountsShrink
    <2>3. CASE tx[p].enrolled
      <3>1. p \in SeatTakers /\ tx[p].id \in Ids
        BY <1>5, <2>3, BookingCommits DEF SeatTakers, Deciding
      <3>2. Enrolled(committed') \in SUBSET (Enrolled(committed) \cup {tx[p].id})
        BY <1>5, BookingCommits
      <3>3. SeatTakers' \in SUBSET (SeatTakers \ {p})
        BY <2>1
      <3>4. QED
        BY <3>1, <3>2, <3>3, TakersType, TakerCommits
    <2>4. QED
      BY <2>2, <2>3
  <1>6. CASE Commit(p) /\ tx[p].op = "cancel"
    <2>1. SeatTakers' \in SUBSET SeatTakers
      BY <1>1, <1>6, TakersStep DEF Commit, Step, ReadCounters
    <2>2. CASE tx[p].first = 0
      <3>1. Enrolled(committed') \in SUBSET Enrolled(committed)
        BY <1>6, <2>2, CancelCommits
      <3>2. QED
        BY <2>1, <3>1, TakersType, CountsShrink
    <2>3. CASE tx[p].first # 0
      <3>1. /\ tx[p].first \in Ids /\ committed[tx[p].id].enrolled
            /\ Enrolled(committed') \in SUBSET ((Enrolled(committed) \ {tx[p].id}) \cup {tx[p].first})
        BY <1>6, <2>3, CancelCommits
      <3>2. tx[p].id \in Enrolled(committed)
        BY <1>6, <3>1 DEF Enrolled, Active, CancelsOnce, IInv, CancelsOK, Commit, Step
      <3>3. Cardinality(Enrolled(committed')) <= Cardinality(Enrolled(committed))
        BY <3>1, <3>2, TakersType, RowReplaced
      <3>4. Cardinality({}) + Cardinality(SeatTakers') <= Cardinality({}) + Cardinality(SeatTakers)
        BY <2>1, TakersType, CountsShrink
      <3>5. Cardinality(SeatTakers') <= Cardinality(SeatTakers)
        BY <1>3, <3>4, FS_EmptySet
      <3>6. QED
        BY <1>3, <3>3, <3>5
    <2>4. QED
      BY <2>2, <2>3
  <1>7. CASE ~ReadCounters(p) /\ ~Commit(p)
    <2>1. SeatTakers' \in SUBSET SeatTakers /\ committed' = committed
      BY <1>1, <1>7, TakersStep, CommittedStep
    <2>2. QED
      BY <2>1, TakersType, CountsShrink
  <1>8. Commit(p) => tx[p].op \in Bookings \cup {"cancel"}
    BY DEF Commit, Step, IInv, LocalsOK
  <1>9. QED
    BY <1>4, <1>5, <1>6, <1>7, <1>8

\* However many requests race, an event with a limit has at most one attendee
\* too many per further worker, if no cancelation is asked for twice.
THEOREM SeatLimit ==
  ASSUME "recancel" \notin Requests PROVE Spec => []OverbookingBounded
  <1>1. Init => SeatsOK
    <2> SUFFICES ASSUME Init PROVE SeatsOK
      OBVIOUS
    <2>1. Enrolled(committed) = {} /\ SeatTakers = {}
      BY DEF Init, Enrolled, Active, SeatTakers, NoTx, Bookings
    <2>2. QED
      BY <2>1, FS_EmptySet, IdsFinite, LimitsAssumption DEF SeatsOK
  <1>2. IInv /\ LInv /\ CancelsOnce /\ SeatsOK /\ [Next]_vars => SeatsOK'
    <2>1. CASE UNCHANGED vars
      BY <2>1 DEF vars, SeatsOK, Enrolled, Active, SeatTakers
    <2>2. CASE (\A l \in Limits : l.max # Unlimited) /\ Next
      BY <2>2, SeatsStep
    <2>3. CASE ~\A l \in Limits : l.max # Unlimited
      BY <2>3 DEF SeatsOK
    <2>4. QED
      BY <2>1, <2>2, <2>3
  <1>3. SeatsOK => OverbookingBounded
    BY TakersType, IdsFinite, LimitsAssumption DEF SeatsOK, OverbookingBounded
  <1>4. QED
    BY <1>1, <1>2, <1>3, IInvariant, LInvariant, CancelsOnceInvariant, PTL DEF Spec

\* Both limits together.
THEOREM LimitsHold ==
  ASSUME "recancel" \notin Requests PROVE Spec => []LimitsBounded
  <1>1. OverbookingBounded /\ QueueBounded => LimitsBounded
    BY DEF LimitsBounded
  <1>2. QED
    BY <1>1, SeatLimit, QueueLimit, PTL

\* Who moves up takes the seat that the same commit sets free, if no cancelation
\* is asked for twice.
THEOREM PromotionsFillSeats ==
  ASSUME "recancel" \notin Requests PROVE Spec => PromotionFillsFreedSeat
  <1> DEFINE Filled == \A b \in Ids : PromotedIn(b) => \E c \in Ids : c # b /\ FreedIn(c)
  <1>1. IInv /\ LInv /\ CancelsOnce /\ Next => Filled
    <2> SUFFICES ASSUME IInv, LInv, CancelsOnce, Next, NEW b \in Ids, PromotedIn(b)
                 PROVE  \E c \in Ids : c # b /\ FreedIn(c)
      OBVIOUS
    <2>1. PICK p \in Workers : Acts(p)
      BY StepOfOne
    <2>2. /\ Commit(p) /\ committed'[b] = version[b]
          /\ b = tx[p].id \/ (tx[p].op = "cancel" /\ b = tx[p].first)
      BY <2>1, CommittedStep DEF PromotedIn
    <2>3. tx[p].op = "cancel" /\ pc[p] = "commit" /\ HasWritten(p)
      BY <2>2 DEF Commit, Step, IInv, LocalsOK, BookingsOK, PromotedIn, HasWritten
    <2>4. b = tx[p].first /\ b # tx[p].id /\ tx[p].first # 0
      BY <2>2, <2>3, BoundsAssumption DEF LInv, PromotionsOK, PromotedIn, IInv, CancelsOK, Ids
    <2>5. /\ tx[p].id \in Ids /\ committed[tx[p].id] # None /\ committed[tx[p].id].enrolled
          /\ ~committed[tx[p].id].canceled /\ lock[tx[p].id] = p /\ version[tx[p].id].canceled
      BY <2>3, <2>4 DEF LInv, PromotionsOK, IInv, CancelsOK, CancelsOnce
    <2>6. committed'[tx[p].id].canceled
      BY <2>2, <2>5 DEF Commit, View
    <2>7. FreedIn(tx[p].id)
      BY <2>5, <2>6 DEF FreedIn, Enrolled, Active
    <2>8. QED
      BY <2>4, <2>5, <2>7
  <1>2. IInv /\ LInv /\ CancelsOnce /\ [Next]_vars => [Filled]_vars
    BY <1>1
  <1>3. QED
    BY <1>2, IInvariant, LInvariant, CancelsOnceInvariant, PTL DEF Spec, PromotionFillsFreedSeat

-----------------------------------------------------------------------------
(* One worker: Bookings implements Seats                                    *)

\* The only worker holds what is locked, before it has written it sees what is committed.
LEMMA OnlyWorker ==
  ASSUME IInv, NEW w, Workers = {w}
  PROVE  /\ w \in Workers
         /\ \A b \in Ids : lock[b] \in {None, w} /\ ~LockedByOther(w, b)
         /\ \A b \in Ids : lock[b] = w => b = tx[w].id \/ (tx[w].op = "cancel" /\ b = tx[w].first)
         /\ ~HasWritten(w) => View(w) = committed
  <1>1. \A b \in Ids : lock[b] \in {None, w} /\ ~LockedByOther(w, b)
    BY DEF IInv, TypeOK, LockedByOther
  <1>2. w \in Workers /\ w # None
    BY WorkersAssumption
  <1>3. \A b \in Ids : lock[b] = w => b = tx[w].id \/ (tx[w].op = "cancel" /\ b = tx[w].first)
    BY <1>2 DEF IInv, LocksOK
  <1>4. ~HasWritten(w) => View(w) = committed
    BY <1>2, ReadsCommitted
  <1>5. QED
    BY <1>1, <1>2, <1>3, <1>4

\* A cancelation that looks for who waits finds those who wait, though it has written.
LEMMA WaitingSeen ==
  ASSUME IInv, NEW w, Workers = {w}, SerialOK, pc[w] = "waiter"
  PROVE  /\ Waiting(View(w)) = Waiting(committed) /\ FirstWaiting(View(w)) = FirstWaiting(committed)
         /\ tx[w].op = "cancel" /\ tx[w].first = 0 /\ committed[tx[w].id].enrolled
         /\ tx[w].id \in Ids /\ ~committed[tx[w].id].canceled
  <1>1. /\ tx[w].op = "cancel" /\ tx[w].first = 0 /\ committed[tx[w].id].enrolled /\ tx[w].id \in Ids
        /\ lock[tx[w].id] = w /\ version[tx[w].id].canceled /\ ~committed[tx[w].id].canceled
    BY DEF IInv, LocalsOK, InCancel, CancelsOK, HasWritten, SerialOK, CancelationsOK
  <1>2. \A b \in Ids : b # tx[w].id => View(w)[b] = committed[b]
    BY <1>1, OnlyWorker, BoundsAssumption DEF View, Ids
  <1>3. View(w)[tx[w].id].canceled
    BY <1>1 DEF View
  <1>4. Waiting(View(w)) = Waiting(committed)
    BY <1>1, <1>2, <1>3 DEF Waiting, Active
  <1>5. QED
    BY <1>1, <1>4 DEF FirstWaiting

LEMMA SerialStep ==
  ASSUME IInv, IInv', LInv, NEW w, Workers = {w}, "recancel" \notin Requests, SerialOK, Next
  PROVE  SerialOK'
  <1>1. Acts(w)
    BY StepOfOne
  <1>2. /\ tx \in [Workers -> TxType] /\ pc \in [Workers -> PCs] /\ tx[w] \in TxType /\ w \in Workers
    BY DEF IInv, TypeOK
  <1> DEFINE DecisionOK ==
        tx[w].op \in Bookings /\ pc[w] \notin {"idle", "reply"} =>
          /\ tx[w].id = clock
          /\ pc[w] \in Deciding /\ tx[w].enrolled => SeatFree(Cardinality(Enrolled(committed)))
          /\ pc[w] \in Deciding /\ ~tx[w].enrolled =>
               ~SeatFree(Cardinality(Enrolled(committed))) /\ PlaceFree(Cardinality(Waiting(committed)))
  <1> DEFINE CancelationOK ==
        tx[w].op = "cancel" /\ pc[w] # "reply" =>
          /\ ~committed[tx[w].id].canceled
          /\ pc[w] \in {"waiter", "promote"} => committed[tx[w].id].enrolled
          /\ pc[w] = "promote" => tx[w].first \in FirstWaiting(committed)
          /\ pc[w] = "commit" =>
               IF committed[tx[w].id].enrolled /\ Waiting(committed) # {}
                 THEN /\ tx[w].first \in FirstWaiting(committed)
                      /\ lock[tx[w].first] = w /\ version[tx[w].first].enrolled
                 ELSE tx[w].first = 0
  <1>3. DecisionOK /\ CancelationOK
    BY <1>2 DEF SerialOK, DecisionsOK, CancelationsOK
  <1>4. DecisionOK' /\ CancelationOK' => SerialOK'
    BY DEF SerialOK, DecisionsOK, CancelationsOK
  <1> HIDE DEF DecisionOK, CancelationOK
  <1>5. CASE BookEvent(w) \/ PreBookEvent(w)
    <2>1. PICK r \in TxType : BeginBooking(w, r) /\ r.op \in Bookings
      BY <1>2, <1>5, BookingRequest
    <2>2. /\ tx'[w].op \in Bookings /\ pc'[w] \in {"enroll", "reply"}
          /\ pc'[w] = "enroll" => tx'[w].id = clock'
      BY <1>2, <2>1 DEF BeginBooking, TxType
    <2>3. QED
      BY <1>4, <2>2 DEF DecisionOK, CancelationOK, Deciding, Bookings
  <1>6. CASE BeginCancel(w)
    <2>1. PICK b \in Ids : FirstCancelOf(b) /\ tx' = [tx EXCEPT ![w] = [NoTx EXCEPT !.op = "cancel", !.id = b]]
      BY <1>6 DEF BeginCancel
    <2>2. /\ tx'[w].op = "cancel" /\ tx'[w].id = b /\ pc'[w] = "cancel" /\ committed' = committed
      BY <1>2, <1>6, <2>1 DEF BeginCancel, Step, NoTx
    <2>3. QED
      BY <1>4, <2>1, <2>2 DEF DecisionOK, CancelationOK, Bookings, FirstCancelOf
  <1>7. CASE UpdateEvent(w)
    <2>1. tx'[w] = NoTx /\ NoTx.op = "none"
      BY <1>2, <1>7 DEF UpdateEvent, IInv, LocalsOK, NoTx
    <2>2. QED
      BY <1>4, <2>1 DEF DecisionOK, CancelationOK, Bookings
  <1>8. CASE Abort(w) \/ Reply(w)
    <2>1. tx'[w] = NoTx /\ NoTx.op = "none"
      BY <1>2, <1>8 DEF Abort, Reply, NoTx
    <2>2. QED
      BY <1>4, <2>1 DEF DecisionOK, CancelationOK, Bookings
  <1>9. CASE ReadCounters(w)
    <2> DEFINE status == CalcEnrollStatus(Cardinality(Enrolled(committed)), Cardinality(Waiting(committed)))
    <2>1. View(w) = committed /\ tx[w].op \in Bookings
      BY <1>2, <1>9, OnlyWorker DEF ReadCounters, HasWritten, IInv, LocalsOK, InBooking
    <2>2. /\ tx'[w].op \in Bookings /\ UNCHANGED <<event, committed, clock>> /\ tx'[w].id = tx[w].id
          /\ \/ pc'[w] = "reply"
             \/ status # "bookedOut" /\ tx'[w].enrolled = (status = "enrolled")
      BY <1>2, <1>9, <2>1 DEF ReadCounters, Answer, TxType
    <2>3. /\ status = "enrolled" => SeatFree(Cardinality(Enrolled(committed)))
          /\ status \notin {"enrolled", "bookedOut"} =>
               ~SeatFree(Cardinality(Enrolled(committed))) /\ PlaceFree(Cardinality(Waiting(committed)))
      BY DEF CalcEnrollStatus
    <2>4. SeatFree(Cardinality(Enrolled(committed)))' <=> SeatFree(Cardinality(Enrolled(committed)))
      BY <2>2 DEF SeatFree
    <2>5. PlaceFree(Cardinality(Waiting(committed)))' <=> PlaceFree(Cardinality(Waiting(committed)))
      BY <2>2 DEF PlaceFree
    <2>6. tx[w].id = clock
      BY <1>3, <1>9, <2>1 DEF DecisionOK, ReadCounters
    <2> HIDE DEF status
    <2>7. DecisionOK'
      BY <2>2, <2>3, <2>4, <2>5, <2>6 DEF DecisionOK
    <2>8. QED
      BY <1>4, <2>2, <2>7 DEF CancelationOK, Bookings
  <1>10. CASE InsertEventSubscriber(w) \/ CheckDuplicate(w) \/ InsertBooking(w)
    <2>1. tx[w].op \in Bookings /\ pc[w] \in {"subscriber", "duplicate", "insert"}
      BY <1>2, <1>10 DEF InsertEventSubscriber, CheckDuplicate, InsertBooking, Step, IInv, LocalsOK, InBooking
    <2>2. /\ tx'[w].op = tx[w].op /\ tx'[w].id = tx[w].id /\ tx'[w].enrolled = tx[w].enrolled
          /\ UNCHANGED <<event, committed, clock>>
      BY <1>2, <1>10 DEF InsertEventSubscriber, CheckDuplicate, InsertBooking, Step, Answer, TxType
    <2>3. SeatFree(Cardinality(Enrolled(committed)))' <=> SeatFree(Cardinality(Enrolled(committed)))
      BY <2>2 DEF SeatFree
    <2>4. PlaceFree(Cardinality(Waiting(committed)))' <=> PlaceFree(Cardinality(Waiting(committed)))
      BY <2>2 DEF PlaceFree
    <2>5. DecisionOK'
      BY <1>3, <2>1, <2>2, <2>3, <2>4 DEF DecisionOK, Deciding
    <2>6. QED
      BY <1>4, <2>1, <2>2, <2>5 DEF CancelationOK, Bookings
  <1>11. CASE SetCanceled(w)
    <2>1. /\ tx' = tx /\ committed' = committed /\ tx[w].op = "cancel" /\ tx[w].first = 0
          /\ pc'[w] = AfterCancel(committed[tx[w].id]) /\ pc[w] = "cancel"
      BY <1>2, <1>11 DEF SetCanceled, IInv, LocalsOK, InCancel, CancelsOK
    <2>2. ~committed[tx[w].id].canceled
      BY <1>3, <2>1 DEF CancelationOK
    <2>3. QED
      BY <1>4, <2>1, <2>2 DEF DecisionOK, CancelationOK, Bookings, AfterCancel
  <1>12. CASE SelectWaiter(w)
    <2>1. /\ Waiting(View(w)) = Waiting(committed) /\ FirstWaiting(View(w)) = FirstWaiting(committed)
          /\ tx[w].op = "cancel" /\ tx[w].first = 0 /\ committed[tx[w].id].enrolled
          /\ ~committed[tx[w].id].canceled
      BY <1>12, WaitingSeen DEF SelectWaiter, Step
    <2>2. committed' = committed
      BY <1>12 DEF SelectWaiter
    <2>3. CASE \E b \in FirstWaiting(View(w)) : Step(w, "waiter", "promote") /\ tx' = [tx EXCEPT ![w].first = b]
      <3>1. PICK b \in FirstWaiting(committed) : Step(w, "waiter", "promote") /\ tx' = [tx EXCEPT ![w].first = b]
        BY <2>1, <2>3
      <3>2. tx'[w].first = b /\ tx'[w].op = "cancel" /\ tx'[w].id = tx[w].id /\ pc'[w] = "promote"
        BY <1>2, <2>1, <3>1 DEF TxType, Step
      <3>3. QED
        BY <1>4, <2>1, <2>2, <3>2 DEF DecisionOK, CancelationOK, Bookings
    <2>4. CASE Waiting(View(w)) = {} /\ Step(w, "waiter", "commit") /\ UNCHANGED tx
      <3>1. pc'[w] = "commit" /\ tx' = tx
        BY <1>2, <2>4 DEF Step
      <3>2. QED
        BY <1>4, <2>1, <2>2, <2>4, <3>1 DEF DecisionOK, CancelationOK, Bookings
    <2>5. QED
      BY <1>12, <2>3, <2>4 DEF SelectWaiter
  <1>13. CASE Promote(w)
    <2>1. /\ tx' = tx /\ committed' = committed /\ tx[w].op = "cancel" /\ pc[w] = "promote" /\ pc'[w] = "commit"
          /\ tx[w].first \in Ids /\ Write(w, tx[w].first, Promoted(View(w)[tx[w].first]))
      BY <1>2, <1>13 DEF Promote, Step, IInv, LocalsOK, InCancel
    <2>2. /\ tx[w].first \in FirstWaiting(committed) /\ committed[tx[w].id].enrolled /\ ~committed[tx[w].id].canceled
      BY <1>3, <2>1 DEF CancelationOK
    <2>3. lock[tx[w].first] # w
      BY <1>2, <2>1 DEF LInv, PromotionsOK
    <2>4. View(w)[tx[w].first] = committed[tx[w].first] /\ committed[tx[w].first] \in Row
      BY <2>1, <2>2, <2>3 DEF View, FirstWaiting, Waiting, Active, IInv, TypeOK
    <2>5. lock'[tx[w].first] = w /\ version'[tx[w].first].enrolled
      BY <2>1, <2>4 DEF Write, Promoted, IInv, TypeOK, Row
    <2>6. Waiting(committed) # {}
      BY <2>2 DEF FirstWaiting
    <2>7. QED
      BY <1>4, <2>1, <2>2, <2>5, <2>6 DEF DecisionOK, CancelationOK, Bookings
  <1>14. CASE Commit(w)
    <2>1. pc'[w] = "reply"
      BY <1>2, <1>14 DEF Commit, Step
    <2>2. QED
      BY <1>4, <2>1 DEF DecisionOK, CancelationOK, Deciding
  <1>15. QED
    BY <1>1, <1>5, <1>6, <1>7, <1>8, <1>9, <1>10, <1>11, <1>12, <1>13, <1>14 DEF Acts, Serve

\* Seats counts the same way.
LEMMA SameCardinality == \A A : Abstract!Cardinality(A) = Cardinality(A)
  BY DEF Abstract!Cardinality, Cardinality

\* The commit of a booking is Book: nothing was committed since it looked for a seat.
LEMMA BookingIsBook ==
  ASSUME IInv, AInv, NEW w, Workers = {w}, SerialOK, Commit(w), tx[w].op \in Bookings
  PROVE  tx[w].id \in Ids /\ Abstract!Book(tx[w].id)
  <1> DEFINE b == tx[w].id
  <1>1. /\ pc[w] = "commit" /\ b \in Ids /\ committed[b] = None
        /\ lock[b] = w /\ version[b] = NewRow(w) /\ b = clock
    BY OnlyWorker DEF Commit, Step, IInv, LocalsOK, BookingsOK, SerialOK, DecisionsOK
  <1>2. \A c \in Ids : c # b => committed'[c] = committed[c]
    BY OnlyWorker, CommittedStep DEF Acts, Serve, Bookings
  <1>3. committed'[b] = version[b] /\ version[b] # None
    <2>1. version[b] # None
      BY <1>1, OnlyWorker DEF AInv, RefusalsOK
    <2>2. QED
      BY <1>1, <2>1 DEF Commit, View
  <1>4. committed'[b].enrolled = tx[w].enrolled /\ ~committed'[b].canceled
    BY <1>1, <1>3 DEF NewRow
  <1>5. \A c \in {d \in Ids : committed[d] # None} : c < b
    BY <1>1, BoundsAssumption DEF IInv, VersionsOK, HistoryKept, Ids
  <1>6. {d \in Ids : committed'[d] # None} = {d \in Ids : committed[d] # None} \cup {b}
    BY <1>1, <1>2, <1>3
  <1>7. event' = event
    BY DEF Commit
  <1>8. CASE tx[w].enrolled
    <2>1. Enrolled(committed') = Enrolled(committed) \cup {b} /\ Waiting(committed') = Waiting(committed)
      BY <1>1, <1>2, <1>3, <1>4, <1>8 DEF Enrolled, Waiting, Active
    <2>2. SeatFree(Cardinality(Enrolled(committed)))
      BY <1>1, <1>8, OnlyWorker DEF SerialOK, DecisionsOK, Deciding
    <2>3. Abstract!HasSeat
      BY <2>2, SameCardinality DEF Abstract!HasSeat, SeatFree, Unlimited
    <2>4. Abstract!TakeSeat(b)
      BY <2>1, <2>3 DEF Abstract!TakeSeat
    <2>5. QED
      BY <1>1, <1>5, <1>6, <1>7, <2>4 DEF Abstract!Book
  <1>9. CASE ~tx[w].enrolled
    <2>1. Enrolled(committed') = Enrolled(committed) /\ Waiting(committed') = Waiting(committed) \cup {b}
      BY <1>1, <1>2, <1>3, <1>4, <1>9 DEF Enrolled, Waiting, Active
    <2>2. ~SeatFree(Cardinality(Enrolled(committed))) /\ PlaceFree(Cardinality(Waiting(committed)))
      BY <1>1, <1>9, OnlyWorker DEF SerialOK, DecisionsOK, Deciding
    <2>3. ~Abstract!HasSeat
      BY <2>2, SameCardinality DEF Abstract!HasSeat, SeatFree, Unlimited
    <2>4. Abstract!Enqueue(b)
      BY <2>1, <2>2, <2>3, SameCardinality DEF Abstract!Enqueue, PlaceFree
    <2>5. QED
      BY <1>1, <1>5, <1>6, <1>7, <2>4 DEF Abstract!Book
  <1>10. QED
    BY <1>8, <1>9

\* The commit of a cancelation is GiveUpSeat or LeaveQueue.
LEMMA CancelationLeaves ==
  ASSUME IInv, LInv, NEW w, Workers = {w}, SerialOK, Commit(w), tx[w].op = "cancel"
  PROVE  /\ tx[w].id \in Ids
         /\ \/ /\ Abstract!GiveUpSeat(tx[w].id)
               /\ Waiting(committed) = {} \/ \E f \in Ids : Abstract!Head = {f}
            \/ Abstract!LeaveQueue(tx[w].id)
  <1> DEFINE b == tx[w].id
             first == tx[w].first
  <1>1. /\ pc[w] = "commit" /\ b \in Ids /\ committed[b] # None /\ ~committed[b].canceled
        /\ lock[b] = w /\ version[b].canceled /\ version[b] # None
        /\ first # 0 => first \in Ids /\ committed[first] # None /\ first # b
    <2>1. pc[w] = "commit" /\ HasWritten(w) /\ pc[w] # "reply"
      BY DEF Commit, Step, HasWritten
    <2>2. ~committed[b].canceled
      BY <2>1, OnlyWorker DEF SerialOK, CancelationsOK
    <2>3. QED
      BY <2>1, <2>2, OnlyWorker DEF IInv, CancelsOK, VersionsOK, HistoryKept
  <1>2. \A c \in Ids : c # b /\ c # first => committed'[c] = committed[c]
    BY OnlyWorker, CommittedStep DEF Acts, Serve
  <1>3. committed'[b] = version[b] /\ event' = event
    BY <1>1 DEF Commit, View
  <1>4. CASE committed[b].enrolled /\ Waiting(committed) # {}
    <2>1. first \in FirstWaiting(committed) /\ lock[first] = w /\ version[first].enrolled
      BY <1>1, <1>4, OnlyWorker DEF SerialOK, CancelationsOK
    <2>2. first \in Ids /\ first # 0 /\ committed[first] # None /\ ~committed[first].canceled
      BY <2>1, BoundsAssumption DEF FirstWaiting, Waiting, Active, Ids
    <2>3. committed'[first] = version[first] /\ ~version[first].canceled /\ version[first] # None
      BY <2>1, <2>2, OnlyWorker DEF Commit, View, LInv, PromotionsOK, IInv, VersionsOK, HistoryKept
    <2>4. {first} = Abstract!Head
      BY <2>1, BoundsAssumption DEF Abstract!Head, FirstWaiting, Waiting, Active, Ids
    <2>5. Enrolled(committed') = (Enrolled(committed) \ {b}) \cup {first}
      BY <1>1, <1>2, <1>3, <2>1, <2>2, <2>3 DEF Enrolled, Active
    <2>6. Waiting(committed') = Waiting(committed) \ {first}
      BY <1>1, <1>2, <1>3, <1>4, <2>1, <2>2, <2>3 DEF Waiting, Active
    <2>7. {d \in Ids : committed'[d] # None} = {d \in Ids : committed[d] # None}
      BY <1>1, <1>2, <1>3, <2>2, <2>3
    <2>8. b \in Enrolled(committed)
      BY <1>1, <1>4 DEF Enrolled, Active
    <2>9. Abstract!GiveUpSeat(b)
      BY <1>3, <2>4, <2>5, <2>6, <2>7, <2>8 DEF Abstract!GiveUpSeat
    <2>10. QED
      BY <1>1, <2>2, <2>4, <2>9
  <1>5. CASE ~(committed[b].enrolled /\ Waiting(committed) # {})
    <2>1. first = 0 /\ \A c \in Ids : c # first
      BY <1>1, <1>5, OnlyWorker, BoundsAssumption DEF SerialOK, CancelationsOK, Ids
    <2>2. {d \in Ids : committed'[d] # None} = {d \in Ids : committed[d] # None}
      BY <1>1, <1>2, <1>3, <2>1
    <2>3. Enrolled(committed') = Enrolled(committed) \ {b} /\ Waiting(committed') = Waiting(committed) \ {b}
      BY <1>1, <1>2, <1>3, <2>1 DEF Enrolled, Waiting, Active
    <2>4. CASE committed[b].enrolled
      <3>1. Waiting(committed) = {} /\ b \in Enrolled(committed)
        BY <1>1, <1>5, <2>4 DEF Enrolled, Active
      <3>2. Abstract!Head = {}
        BY <3>1 DEF Abstract!Head
      <3>3. Abstract!GiveUpSeat(b)
        BY <1>3, <2>2, <2>3, <3>1, <3>2 DEF Abstract!GiveUpSeat
      <3>4. QED
        BY <1>1, <3>1, <3>3
    <2>5. CASE ~committed[b].enrolled
      <3>1. b \in Waiting(committed) /\ b \notin Enrolled(committed)
        BY <1>1, <2>5 DEF Enrolled, Waiting, Active
      <3>2. Abstract!LeaveQueue(b)
        BY <1>3, <2>2, <2>3, <3>1 DEF Abstract!LeaveQueue
      <3>3. QED
        BY <1>1, <3>2
    <2>6. QED
      BY <2>4, <2>5
  <1>6. QED
    BY <1>4, <1>5

\* Every other statement changes the limits or nothing that Seats knows of.
LEMMA StepOfSeats ==
  ASSUME IInv, LInv, AInv, NEW w, Workers = {w}, SerialOK, [Next]_vars
  PROVE  [Abstract!Next]_(Abstract!svars)
  <1>1. CASE UNCHANGED vars
    BY <1>1 DEF vars, Abstract!svars, Enrolled, Waiting, Active
  <1>2. CASE Next
    <2>1. Acts(w)
      BY <1>2, StepOfOne
    <2>2. CASE Commit(w)
      <3>1. tx[w].op \in Bookings \cup {"cancel"}
        BY <2>2, OnlyWorker DEF Commit, Step, IInv, LocalsOK
      <3>2. CASE tx[w].op \in Bookings
        <4>1. tx[w].id \in Ids /\ Abstract!Book(tx[w].id)
          BY <2>2, <3>2, BookingIsBook
        <4>2. PICK b \in Ids : b = tx[w].id
          BY <4>1
        <4>3. Abstract!Book(b)
          BY <4>1, <4>2 DEF Abstract!Book, Abstract!TakeSeat, Abstract!Enqueue, Abstract!HasSeat
        <4>4. QED
          BY <4>3 DEF Abstract!Next
      <3>3. CASE tx[w].op = "cancel"
        <4>1. tx[w].id \in Ids /\ (Abstract!GiveUpSeat(tx[w].id) \/ Abstract!LeaveQueue(tx[w].id))
          BY <2>2, <3>3, CancelationLeaves
        <4>2. QED
          BY <4>1 DEF Abstract!Next
      <3>4. QED
        BY <3>1, <3>2, <3>3
    <2>3. CASE UpdateEvent(w)
      <3>1. committed' = committed /\ [max |-> event'.max, wait |-> event'.wait] \in Limits
        BY <2>3, NextInv DEF UpdateEvent, IInv, TypeOK
      <3>2. Abstract!ChangeLimits
        BY <3>1 DEF Abstract!ChangeLimits, Enrolled, Waiting, Active
      <3>3. QED
        BY <3>2 DEF Abstract!Next
    <2>4. CASE ~Commit(w) /\ ~UpdateEvent(w)
      <3>1. committed' = committed
        BY <2>1, <2>4, OnlyWorker, CommittedStep
      <3>2. event' = event
        BY <2>1, <2>4 DEF Acts, Serve, BookEvent, PreBookEvent, BeginBooking, BeginCancel, ReadCounters,
                          InsertEventSubscriber, CheckDuplicate, InsertBooking, SetCanceled, SelectWaiter,
                          Promote, Reply, Abort
      <3>3. QED
        BY <3>1, <3>2 DEF Abstract!svars, Enrolled, Waiting, Active
    <2>5. QED
      BY <2>2, <2>3, <2>4
  <1>3. QED
    BY <1>1, <1>2

LEMMA SerialInvariant ==
  ASSUME NEW w, Workers = {w}, "recancel" \notin Requests PROVE Spec => []SerialOK
  <1>1. Init => SerialOK
    BY DEF Init, NoTx, SerialOK, DecisionsOK, CancelationsOK, Bookings
  <1>2. IInv /\ IInv' /\ LInv /\ SerialOK /\ [Next]_vars => SerialOK'
    <2>1. CASE UNCHANGED vars
      BY <2>1 DEF vars, SerialOK, DecisionsOK, CancelationsOK, SeatFree, PlaceFree
    <2>2. QED
      BY <2>1, SerialStep
  <1>3. QED
    BY <1>1, <1>2, IInvariant, LInvariant, PTL DEF Spec

\* One worker at a time implements the abstract seats, for any number of bookings and any
\* limits: they hold exactly, the waiting list is served in order, a freed seat is handed
\* on by the commit that frees it. No cancelation may be asked for twice.
THEOREM SeatsImplemented ==
  ASSUME NEW w, Workers = {w}, "recancel" \notin Requests PROVE Spec => ImplementsSeats
  <1>1. Init => Abstract!Init
    <2> SUFFICES ASSUME Init PROVE Abstract!Init
      OBVIOUS
    <2>1. [max |-> event.max, wait |-> event.wait] \in Limits
      BY LimitsAssumption DEF Init
    <2>2. \A b \in Ids : committed[b] = None
      BY DEF Init
    <2>3. QED
      BY <2>1, <2>2 DEF Abstract!Init, Enrolled, Waiting, Active
  <1>2. IInv /\ LInv /\ AInv /\ SerialOK /\ [Next]_vars => [Abstract!Next]_(Abstract!svars)
    BY StepOfSeats
  <1>3. QED
    BY <1>1, <1>2, IInvariant, LInvariant, AInvariant, SerialInvariant, PTL DEF Spec, ImplementsSeats, Abstract!Spec

-----------------------------------------------------------------------------
(* One worker: no seat stays idle                                           *)

LEMMA SeatsAreTaken ==
  ASSUME IInv, LInv, AInv, NEW w, Workers = {w}, SerialOK, Next, event' = event, ~SeatIdle
  PROVE  ~SeatIdle'
  <1> DEFINE seats == Enrolled(committed)
             queue == Waiting(committed)
             Free(A) == SeatFree(Cardinality(A))
  <1>1. seats \subseteq Ids /\ queue \subseteq Ids /\ seats \cap queue = {}
    BY DEF Enrolled, Waiting, Active
  <1>2. SeatIdle' <=> queue' # {} /\ (event.max = Unlimited \/ Cardinality(seats') < event.max)
    BY DEF SeatIdle, SeatFree
  <1>3. queue = {} \/ ~(event.max = Unlimited \/ Cardinality(seats) < event.max)
    BY DEF SeatIdle, SeatFree
  <1>4. event.max \in Int /\ Cardinality(seats) \in Nat
    BY <1>1, IdsFinite DEF IInv, TypeOK
  <1>5. Abstract!HasSeat <=> event.max = Unlimited \/ Cardinality(seats) < event.max
    BY SameCardinality DEF Abstract!HasSeat, Unlimited
  <1>6. CASE ~Commit(w)
    <2>1. committed' = committed
      BY <1>6, StepOfOne, OnlyWorker, CommittedStep
    <2>2. QED
      BY <1>2, <1>3, <2>1 DEF Enrolled, Waiting, Active
  <1>7. CASE Commit(w) /\ tx[w].op \in Bookings
    <2>1. PICK b \in Ids : b = tx[w].id
      BY <1>7, BookingIsBook
    <2>2. Abstract!TakeSeat(b) \/ Abstract!Enqueue(b)
      BY <1>7, <2>1, BookingIsBook DEF Abstract!Book, Abstract!TakeSeat, Abstract!Enqueue
    <2>3. QED
      BY <1>2, <1>3, <1>5, <2>2 DEF Abstract!TakeSeat, Abstract!Enqueue
  <1>8. CASE Commit(w) /\ tx[w].op = "cancel"
    <2>1. PICK b \in Ids : b = tx[w].id
      BY <1>8, CancelationLeaves
    <2>2. CASE Abstract!LeaveQueue(b)
      BY <1>2, <1>3, <2>2 DEF Abstract!LeaveQueue
    <2>3. CASE Abstract!GiveUpSeat(b) /\ queue = {}
      BY <1>2, <2>3 DEF Abstract!GiveUpSeat
    <2>4. CASE Abstract!GiveUpSeat(b) /\ \E f \in Ids : Abstract!Head = {f}
      <3>1. PICK f \in Ids : Abstract!Head = {f}
        BY <2>4
      <3>2. b \in seats /\ seats' = (seats \ {b}) \cup {f} /\ f \in queue
        BY <2>4, <3>1 DEF Abstract!GiveUpSeat, Abstract!Head
      <3>3. f \notin seats \ {b} /\ seats \ {b} \subseteq Ids
        BY <1>1, <3>2
      <3>4. Cardinality(seats \ {b}) = Cardinality(seats) - 1
        BY <1>1, <3>2, IdsFinite, FS_RemoveElement
      <3>5. Cardinality(seats') = Cardinality(seats \ {b}) + 1
        BY <3>2, <3>3, IdsFinite, FS_AddElement
      <3>6. QED
        BY <1>2, <1>3, <1>4, <3>2, <3>4, <3>5
    <2>5. QED
      BY <1>8, <2>1, <2>2, <2>3, <2>4, CancelationLeaves
  <1>9. Commit(w) => tx[w].op \in Bookings \cup {"cancel"}
    BY OnlyWorker DEF Commit, Step, IInv, LocalsOK
  <1>10. QED
    BY <1>6, <1>7, <1>8, <1>9

\* With one worker at a time no seat is left idle while somebody waits, unless an
\* administrator changes the event (no cancelation being asked for twice).
THEOREM NoSeatLeftIdle ==
  ASSUME NEW w, Workers = {w}, "recancel" \notin Requests PROVE Spec => OnlyLimitsIdleSeats
  <1>1. IInv /\ LInv /\ AInv /\ SerialOK /\ [Next]_vars => [event' = event /\ ~SeatIdle => ~SeatIdle']_vars
    BY SeatsAreTaken
  <1>2. QED
    BY <1>1, IInvariant, LInvariant, AInvariant, SerialInvariant, PTL DEF Spec, OnlyLimitsIdleSeats

-----------------------------------------------------------------------------
(* One worker: one booking per person                                       *)

LEMMA PersonsInit == Init => PersonsOK
  BY IdsAssumption, PeopleAssumption DEF Init, NoTx, PersonsOK, Bookings, Subs

LEMMA PersonsKept ==
  ASSUME IInv, AInv, NEW w, Workers = {w}, MemberFlags \subseteq {TRUE}, PersonsOK, Next
  PROVE  PersonsOK'
  <1> DEFINE BookerOK ==
        tx[w].op \in Bookings =>
          /\ tx[w].member
          /\ tx[w].op = "book" => tx[w].person # None
          /\ tx[w].new => tx[w].sub = tx[w].id /\ pc[w] \in {"duplicate", "insert", "commit", "reply"}
          /\ tx[w].op = "prebook" => ~tx[w].new
          /\ pc[w] \in {"duplicate", "insert", "commit"} =>
               IF tx[w].new THEN \A s \in Subs : person[s] # tx[w].person ELSE person[tx[w].sub] # None
          /\ tx[w].op = "prebook" => person[tx[w].sub] # None
  <1> DEFINE RowsOK ==
        /\ \A s, t \in Subs : person[s] # None /\ person[s] = person[t] => s = t
        /\ \A b \in Ids : committed[b] # None => person[committed[b].sub] # None
  <1>1. Acts(w)
    BY StepOfOne
  <1>2. /\ tx \in [Workers -> TxType] /\ pc \in [Workers -> PCs] /\ tx[w] \in TxType /\ w \in Workers
        /\ person \in [Subs -> People \cup {None}]
    BY DEF IInv, TypeOK
  <1>3. RowsOK /\ BookerOK
    BY <1>2 DEF PersonsOK
  <1>4. RowsOK' /\ BookerOK' => PersonsOK'
    BY DEF PersonsOK
  <1>5. UNCHANGED <<person, committed>> => RowsOK'
    BY <1>3
  <1> HIDE DEF BookerOK, RowsOK
  <1>6. ASSUME NEW r \in TxType, BeginBooking(w, r)
        PROVE  /\ tx'[w].op = r.op /\ tx'[w].member = r.member /\ tx'[w].person = r.person
               /\ tx'[w].new = r.new /\ tx'[w].sub = r.sub
               /\ pc'[w] \in {"enroll", "reply"} /\ UNCHANGED <<person, committed>>
    BY <1>2, <1>6 DEF BeginBooking, TxType
  <1>7. CASE BookEvent(w) \/ PreBookEvent(w)
    <2>1. CASE BookEvent(w)
      <3>1. PICK who \in People :
              BeginBooking(w, [NoTx EXCEPT !.op = "book", !.person = who, !.member = TRUE])
        BY <2>1 DEF BookEvent
      <3> DEFINE r == [NoTx EXCEPT !.op = "book", !.person = who, !.member = TRUE]
      <3>2. r \in TxType /\ r.op = "book" /\ r.member = TRUE /\ r.person = who /\ r.new = FALSE
        BY NoTxType DEF TxType, Bookings, NoTx
      <3> HIDE DEF r
      <3>3. who # None
        BY PeopleAssumption
      <3>4. QED
        BY <1>4, <1>5, <1>6, <3>1, <3>2, <3>3 DEF BookerOK, r
    <2>2. CASE PreBookEvent(w)
      <3>1. PICK s \in Subs : person[s] # None /\ BeginBooking(w, [NoTx EXCEPT !.op = "prebook", !.sub = s])
        BY <2>2 DEF PreBookEvent
      <3> DEFINE r == [NoTx EXCEPT !.op = "prebook", !.sub = s]
      <3>2. r \in TxType /\ r.op = "prebook" /\ r.member = TRUE /\ r.sub = s /\ r.new = FALSE
        BY NoTxType DEF TxType, Bookings, NoTx
      <3> HIDE DEF r
      <3>3. QED
        BY <1>4, <1>5, <1>6, <3>1, <3>2 DEF BookerOK, r
    <2>3. QED
      BY <1>7, <2>1, <2>2
  <1>8. CASE BeginCancel(w) \/ SetCanceled(w) \/ SelectWaiter(w) \/ Promote(w)
    <2>1. UNCHANGED <<person, committed>>
      BY <1>8 DEF BeginCancel, SetCanceled, SelectWaiter, Promote
    <2>2. ASSUME BeginCancel(w) PROVE tx'[w].op = "cancel"
      BY <1>2, <2>2 DEF BeginCancel, NoTx
    <2>3. ASSUME SelectWaiter(w) PROVE tx'[w].op = "cancel"
      <3>1. tx[w].op = "cancel"
        BY <1>2, <2>3 DEF SelectWaiter, Step, IInv, LocalsOK, InCancel
      <3>2. tx' = tx \/ \E b \in Ids : tx' = [tx EXCEPT ![w].first = b]
        BY <2>3 DEF SelectWaiter, FirstWaiting, Waiting, Active
      <3>3. QED
        BY <1>2, <3>1, <3>2 DEF TxType
    <2>4. ASSUME SetCanceled(w) \/ Promote(w) PROVE tx'[w].op = "cancel"
      BY <1>2, <2>4 DEF SetCanceled, Promote, Step, IInv, LocalsOK, InCancel
    <2>5. tx'[w].op = "cancel"
      BY <1>8, <2>2, <2>3, <2>4
    <2>6. QED
      BY <1>4, <1>5, <2>1, <2>5 DEF BookerOK, Bookings
  <1>9. CASE UpdateEvent(w) \/ Reply(w) \/ Abort(w)
    <2>1. tx'[w] = NoTx /\ NoTx.op = "none" /\ UNCHANGED <<person, committed>>
      BY <1>2, <1>9 DEF UpdateEvent, Reply, Abort, NoTx, IInv, LocalsOK
    <2>2. QED
      BY <1>4, <1>5, <2>1 DEF BookerOK, Bookings
  <1>10. CASE ReadCounters(w)
    <2>1. tx[w].op \in Bookings /\ ~tx[w].new
      BY <1>2, <1>3, <1>10 DEF ReadCounters, IInv, LocalsOK, InBooking, BookerOK
    <2>2. /\ tx'[w].op = tx[w].op /\ tx'[w].member = tx[w].member /\ tx'[w].person = tx[w].person
          /\ tx'[w].new = tx[w].new /\ tx'[w].sub = tx[w].sub /\ UNCHANGED <<person, committed>>
          /\ pc'[w] \in {"subscriber", "duplicate", "reply"}
          /\ pc'[w] = "duplicate" => tx[w].op # "book"
      BY <1>2, <1>10 DEF ReadCounters, Answer, TxType
    <2>3. QED
      BY <1>3, <1>4, <1>5, <2>1, <2>2 DEF BookerOK, Bookings
  <1>11. CASE InsertEventSubscriber(w)
    <2>1. /\ tx[w].op = "book" /\ tx[w].member /\ tx[w].person # None /\ ~tx[w].new
          /\ pc'[w] = "duplicate" /\ UNCHANGED <<person, committed>>
      BY <1>2, <1>3, <1>11 DEF InsertEventSubscriber, Step, IInv, LocalsOK, BookerOK, Bookings
    <2>2. CASE \E s \in Matching(w) : tx' = [tx EXCEPT ![w].sub = s]
      <3>1. PICK s \in Matching(w) : tx' = [tx EXCEPT ![w].sub = s]
        BY <2>2
      <3>2. /\ tx'[w].op = "book" /\ tx'[w].member /\ tx'[w].person # None /\ ~tx'[w].new
            /\ tx'[w].sub = s /\ person[s] # None
        BY <1>2, <2>1, <3>1 DEF TxType, Matching
      <3>3. QED
        BY <1>4, <1>5, <2>1, <3>2 DEF BookerOK
    <2>3. CASE Matching(w) = {} /\ tx' = [tx EXCEPT ![w].sub = tx[w].id, ![w].new = TRUE]
      <3>1. /\ tx'[w].op = "book" /\ tx'[w].member /\ tx'[w].person = tx[w].person /\ tx'[w].new
            /\ tx'[w].sub = tx'[w].id
        BY <1>2, <2>1, <2>3 DEF TxType
      <3>2. \A s \in Subs : person[s] # tx[w].person
        BY <2>1, <2>3 DEF Matching
      <3>3. QED
        BY <1>4, <1>5, <2>1, <3>1, <3>2 DEF BookerOK
    <2>4. QED
      BY <1>11, <2>2, <2>3 DEF InsertEventSubscriber
  <1>12. CASE CheckDuplicate(w) \/ InsertBooking(w)
    <2>1. /\ tx'[w].op = tx[w].op /\ tx'[w].member = tx[w].member /\ tx'[w].person = tx[w].person
          /\ tx'[w].new = tx[w].new /\ tx'[w].sub = tx[w].sub /\ tx'[w].id = tx[w].id
          /\ UNCHANGED <<person, committed>>
          /\ pc[w] \in {"duplicate", "insert"} /\ pc'[w] \in {"insert", "commit", "reply"}
      BY <1>2, <1>12 DEF CheckDuplicate, InsertBooking, Answer, TxType
    <2>2. QED
      BY <1>3, <1>4, <1>5, <2>1 DEF BookerOK
  <1>13. CASE Commit(w)
    <2>1. pc[w] = "commit" /\ tx[w].op \in Bookings \cup {"cancel"} /\ tx[w].id \in Ids
      BY <1>2, <1>13 DEF Commit, Step, IInv, LocalsOK
    <2>2. /\ tx'[w].op = tx[w].op /\ tx'[w].member = tx[w].member /\ tx'[w].person = tx[w].person
          /\ tx'[w].new = tx[w].new /\ tx'[w].sub = tx[w].sub /\ tx'[w].id = tx[w].id /\ pc'[w] = "reply"
      BY <1>2, <1>13 DEF Commit, Step, Answer, TxType
    <2>3. CASE tx[w].new
      <3>1. /\ tx[w].op = "book" /\ tx[w].person # None /\ tx[w].sub = tx[w].id
            /\ \A s \in Subs : person[s] # tx[w].person
        BY <1>3, <2>1, <2>3 DEF BookerOK, Bookings, AInv, RefusalsOK
      <3>2. person' = [person EXCEPT ![tx[w].id] = tx[w].person] /\ tx[w].id \in Subs
        BY <1>13, <2>1, <2>3 DEF Commit, Subs
      <3>3. person'[tx[w].id] = tx[w].person /\ \A s \in Subs : s # tx[w].id => person'[s] = person[s]
        BY <1>2, <3>2
      <3>4. \A s, t \in Subs : person'[s] # None /\ person'[s] = person'[t] => s = t
        BY <1>3, <3>1, <3>3 DEF RowsOK
      <3>5. ASSUME NEW b \in Ids, committed'[b] # None PROVE person'[committed'[b].sub] # None
        <4>1. CASE b = tx[w].id
          <5>1. committed[b] = None /\ version[b] = NewRow(w)
            BY <1>2, <2>1, <3>1, <4>1 DEF IInv, BookingsOK, Bookings
          <5>2. committed'[b] = version[b]
            BY <1>1, <1>2, <3>5, <5>1, CommittedStep
          <5>3. QED
            BY <3>1, <3>3, <5>1, <5>2 DEF NewRow
        <4>2. CASE b # tx[w].id
          <5>1. committed'[b] = committed[b]
            BY <1>1, <1>2, <3>1, <4>2, CommittedStep
          <5>2. committed[b] \in Row
            BY <3>5, <5>1 DEF IInv, TypeOK
          <5>3. QED
            BY <1>3, <3>1, <3>3, <3>5, <5>1, <5>2 DEF RowsOK, Row
        <4>3. QED
          BY <4>1, <4>2
      <3>6. RowsOK'
        BY <3>4, <3>5 DEF RowsOK
      <3>7. BookerOK'
        BY <2>2, <2>3, <3>1, <1>3 DEF BookerOK
      <3>8. QED
        BY <1>4, <3>6, <3>7
    <2>4. CASE ~tx[w].new
      <3>1. person' = person
        BY <1>13, <2>4 DEF Commit
      <3>2. ASSUME NEW b \in Ids, committed'[b] # None PROVE person[committed'[b].sub] # None
        <4>1. CASE committed[b] # None
          <5>1. committed'[b].sub = committed[b].sub
            BY <4>1, RowKept DEF HistoryKept
          <5>2. QED
            BY <1>3, <4>1, <5>1 DEF RowsOK
        <4>2. CASE committed[b] = None
          <5>1. b = tx[w].id \/ (tx[w].op = "cancel" /\ b = tx[w].first)
            BY <1>1, <1>2, <3>2, <4>2, CommittedStep
          <5>2. committed'[b] = version[b]
            BY <1>1, <1>2, <3>2, <4>2, CommittedStep
          <5>3. tx[w].op \in Bookings /\ b = tx[w].id
            BY <1>2, <2>1, <4>2, <5>1, BoundsAssumption DEF IInv, CancelsOK, Ids
          <5>4. version[b].sub = tx[w].sub
            BY <1>2, <2>1, <5>3 DEF IInv, BookingsOK, NewRow
          <5>5. QED
            BY <1>3, <2>1, <2>4, <5>2, <5>3, <5>4 DEF BookerOK
        <4>3. QED
          BY <4>1, <4>2
      <3>3. RowsOK'
        BY <1>3, <3>1, <3>2 DEF RowsOK
      <3>4. BookerOK'
        BY <1>3, <2>2, <2>4, <3>1 DEF BookerOK
      <3>5. QED
        BY <1>4, <3>3, <3>4
    <2>5. QED
      BY <2>3, <2>4
  <1>14. QED
    BY <1>1, <1>7, <1>8, <1>9, <1>10, <1>11, <1>12, <1>13 DEF Acts, Serve

\* With one worker at a time, and forms that carry the member flag, a person has one
\* active booking, by the form or by a link, whatever is canceled in between.
THEOREM OnePerPerson ==
  ASSUME NEW w, Workers = {w}, MemberFlags \subseteq {TRUE} PROVE Spec => []OneBookingPerPerson
  <1>1. IInv /\ AInv /\ PersonsOK /\ [Next]_vars => PersonsOK'
    <2>1. CASE UNCHANGED vars
      BY <2>1 DEF vars, PersonsOK
    <2>2. QED
      BY <2>1, PersonsKept
  <1>2. IInv /\ PersonsOK /\ OneBookingPerSubscriber => OneBookingPerPerson
    BY DEF PersonsOK, OneBookingPerSubscriber, OneBookingPerPerson, Active, IInv, TypeOK, Row
  <1>3. QED
    BY <1>1, <1>2, PersonsInit, IInvariant, AInvariant, OneBooking, PTL DEF Spec
=============================================================================
