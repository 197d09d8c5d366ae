-------------------------- MODULE SepaExport_proofs --------------------------
(***************************************************************************)
(* Proofs about SepaExport, for any number of exporters and bookings.      *)
(***************************************************************************)
EXTENDS SepaExport, TLAPS

LEMMA TypeStep ==
  ASSUME TypeOK, ExportsOK, [Next]_vars PROVE TypeOK'
  <1> USE DEF TypeOK
  <1>1. CASE UNCHANGED vars
    BY <1>1 DEF vars
  <1>2. ASSUME NEW b \in Ids, Book(b) PROVE TypeOK'
    BY <1>2 DEF Book, Late, Row
  <1>3. ASSUME NEW b \in Ids, Cancel(b) PROVE TypeOK'
    <2>1. row[b] \in Row
      BY <1>3 DEF Cancel
    <2>2. [row[b] EXCEPT !.canceled = TRUE] \in Row
      BY <2>1 DEF Row
    <2>3. [row EXCEPT ![b].canceled = TRUE] \in [Ids -> Row \cup {None}]
      BY <2>2
    <2>4. row' \in [Ids -> Row \cup {None}]
      <3>1. CASE row' = [row EXCEPT ![b].canceled = TRUE]
        BY <2>3, <3>1
      <3>2. CASE \E c \in FirstWaiting : row' = [[row EXCEPT ![b].canceled = TRUE] EXCEPT ![c].enrolled = TRUE]
        <4>1. PICK c \in FirstWaiting : row' = [[row EXCEPT ![b].canceled = TRUE] EXCEPT ![c].enrolled = TRUE]
          BY <3>2
        <4> DEFINE r == [row EXCEPT ![b].canceled = TRUE][c]
        <4>2. c \in Ids /\ row[c] \in Row
          BY DEF FirstWaiting, Waiting
        <4>3. r \in Row
          BY <2>2, <4>2
        <4>4. [r EXCEPT !.enrolled = TRUE] \in Row
          BY <4>3 DEF Row
        <4>5. row' = [[row EXCEPT ![b].canceled = TRUE] EXCEPT ![c] = [r EXCEPT !.enrolled = TRUE]]
          BY <4>1
        <4> HIDE DEF r
        <4>6. QED
          BY <2>3, <4>2, <4>4, <4>5
      <3>3. QED
        BY <1>3, <3>1, <3>2 DEF Cancel
    <2>5. late' \subseteq Ids
      BY <1>3 DEF Cancel, Late, FirstWaiting, Waiting
    <2>6. QED
      BY <1>3, <2>4, <2>5 DEF Cancel
  <1>4. ASSUME NEW e \in Exporters, Commit(e) PROVE TypeOK'
    <2>1. ASSUME NEW b \in Ids, row[b] \in Row PROVE Marked(row[b]) \in Row
      BY <2>1 DEF Marked, Row
    <2>2. row' \in [Ids -> Row \cup {None}]
      <3>1. \A b \in file[e] : row[b] \in Row
        BY DEF ExportsOK
      <3>2. QED
        BY <1>4, <2>1, <3>1 DEF Commit
    <2>3. QED
      BY <1>4, <2>2 DEF Commit, Finish, ReleasedLocks
  <1>5. ASSUME NEW e \in Exporters, LockEligible(e) \/ LockRow(e) \/ ReadEligible(e) \/ MarkRow(e)
        PROVE  TypeOK'
    BY <1>5 DEF LockEligible, LockRow, RowLock, ReadEligible, MarkRow, Finish, ReleasedLocks
  <1>6. ASSUME NEW e \in Exporters, Abort(e) \/ DeadlockVictim(e) PROVE TypeOK'
    BY <1>6 DEF Abort, DeadlockVictim, Finish, ReleasedLocks
  <1>7. QED
    BY <1>1, <1>2, <1>3, <1>4, <1>5, <1>6 DEF Next, Export

LEMMA BookStep ==
  ASSUME IInv, NEW b \in Ids, Book(b) PROVE ExportsOK'
  <1>1. \A c \in Ids \ {b} : row'[c] = row[c]
    BY DEF Book, IInv, TypeOK
  <1>2. UNCHANGED <<lock, pc, todo, file>> /\ row[b] = None /\ late \subseteq late'
    BY DEF Book, Late
  <1>3. ASSUME NEW e \in Exporters, pc[e] = "lock", Eligible(b)' PROVE b \in late'
    <2>1. PICK seat, iban \in BOOLEAN :
            /\ row' = [row EXCEPT ![b] = [enrolled |-> seat, canceled |-> FALSE, exported |-> FALSE, iban |-> iban]]
            /\ late' = IF seat THEN Late(b) ELSE late
      BY DEF Book
    <2>2. row'[b].enrolled = seat
      BY <2>1 DEF IInv, TypeOK
    <2>3. QED
      BY <1>3, <2>1, <2>2 DEF Late, Eligible
  <1>4. \A c \in Ids \ {b} : Eligible(c)' <=> Eligible(c)
    BY <1>1 DEF Eligible
  <1>5. ASSUME NEW e \in Exporters PROVE b \notin file[e] /\ file[e] \subseteq Ids
    BY <1>2 DEF IInv, ExportsOK, TypeOK
  <1>6. QED
    BY <1>1, <1>2, <1>3, <1>4, <1>5 DEF IInv, ExportsOK

LEMMA CancelRows ==
  ASSUME IInv, NEW b \in Ids, Cancel(b)
  PROVE  /\ UNCHANGED <<lock, pc, todo, file, debits>> /\ late \subseteq late' /\ lock[b] = None
         /\ \A c \in Ids : row[c] = None => row'[c] = None
         /\ \A c \in Ids : row[c] # None =>
              /\ row'[c] # None /\ row'[c].iban = row[c].iban /\ row'[c].exported = row[c].exported
              /\ row[c].enrolled => row'[c].enrolled
              /\ c # b => row'[c].canceled = row[c].canceled
              /\ c = b => row'[c].canceled
              /\ row'[c].enrolled # row[c].enrolled => late' = Late(c)
  <1> DEFINE canceled == [row EXCEPT ![b].canceled = TRUE]
  <1>1. /\ UNCHANGED <<lock, pc, todo, file, debits>> /\ late \subseteq late' /\ lock[b] = None
        /\ row[b] \in Row
    BY DEF Cancel, Late, NotLocked, IInv, TypeOK
  <1>2. canceled \in [Ids -> Row \cup {None}] /\ canceled[b] = [row[b] EXCEPT !.canceled = TRUE]
    BY <1>1 DEF IInv, TypeOK, Row
  <1>3. canceled[b] \in Row /\ canceled[b].canceled /\ canceled[b].iban = row[b].iban
        /\ canceled[b].exported = row[b].exported /\ canceled[b].enrolled = row[b].enrolled
    BY <1>1, <1>2 DEF Row
  <1>4. \A c \in Ids \ {b} : canceled[c] = row[c]
    BY DEF IInv, TypeOK
  <1>5. CASE row' = canceled
    BY <1>1, <1>3, <1>4, <1>5, NoneAssumption
  <1>6. ASSUME NEW d \in FirstWaiting, row[b].enrolled,
               row' = [canceled EXCEPT ![d].enrolled = TRUE], late' = Late(d)
        PROVE  /\ \A c \in Ids \ {d} : row'[c] = canceled[c]
               /\ d \in Ids \ {b} /\ row[d] \in Row /\ row'[d] = [row[d] EXCEPT !.enrolled = TRUE]
    <2>1. d \in Ids \ {b} /\ row[d] \in Row
      BY <1>6 DEF FirstWaiting, Waiting, IInv, TypeOK
    <2>2. row' = [canceled EXCEPT ![d] = [canceled[d] EXCEPT !.enrolled = TRUE]]
      BY <1>6
    <2>3. canceled[d] = row[d]
      BY <1>4, <2>1
    <2> HIDE DEF canceled
    <2>4. QED
      BY <1>2, <2>1, <2>2, <2>3
  <1>7. ASSUME NEW d \in FirstWaiting, row[b].enrolled,
               row' = [canceled EXCEPT ![d].enrolled = TRUE], late' = Late(d)
        PROVE  /\ \A c \in Ids : row[c] = None => row'[c] = None
               /\ \A c \in Ids : row[c] # None =>
                    /\ row'[c] # None /\ row'[c].iban = row[c].iban /\ row'[c].exported = row[c].exported
                    /\ row[c].enrolled => row'[c].enrolled
                    /\ c # b => row'[c].canceled = row[c].canceled
                    /\ c = b => row'[c].canceled
                    /\ row'[c].enrolled # row[c].enrolled => late' = Late(c)
    <2>1. /\ \A c \in Ids \ {d} : row'[c] = canceled[c]
          /\ d \in Ids \ {b} /\ row[d] \in Row /\ row'[d] = [row[d] EXCEPT !.enrolled = TRUE]
      BY <1>6, <1>7
    <2>2. /\ row'[d] \in Row /\ row'[d].enrolled /\ row'[d].iban = row[d].iban
          /\ row'[d].exported = row[d].exported /\ row'[d].canceled = row[d].canceled
      BY <2>1 DEF Row
    <2> HIDE DEF canceled
    <2>3. QED
      BY <1>1, <1>3, <1>4, <1>7, <2>1, <2>2, NoneAssumption
  <1>8. \/ row' = canceled
        \/ \E d \in FirstWaiting :
             row[b].enrolled /\ row' = [canceled EXCEPT ![d].enrolled = TRUE] /\ late' = Late(d)
    BY DEF Cancel
  <1> HIDE DEF canceled
  <1>9. QED
    BY <1>1, <1>5, <1>7, <1>8

LEMMA CancelStep ==
  ASSUME IInv, NEW b \in Ids, Cancel(b) PROVE ExportsOK'
  <1>1. /\ UNCHANGED <<lock, pc, todo, file>> /\ late \subseteq late' /\ lock[b] = None
        /\ \A c \in Ids : row[c] = None => row'[c] = None
        /\ \A c \in Ids : row[c] # None =>
             /\ row'[c] # None /\ row'[c].iban = row[c].iban /\ row'[c].exported = row[c].exported
             /\ row[c].enrolled => row'[c].enrolled
             /\ c # b => row'[c].canceled = row[c].canceled
             /\ c = b => row'[c].canceled
             /\ row'[c].enrolled # row[c].enrolled => late' = Late(c)
    BY CancelRows
  <1>2. ASSUME NEW e \in Exporters, pc[e] = "lock", NEW c \in Ids, Eligible(c)'
        PROVE  lock[c] = e \/ c \in todo[e] \cup late'
    <2>1. Eligible(c) \/ late' = Late(c)
      BY <1>1, <1>2 DEF Eligible
    <2>2. Late(c) = late \cup {c}
      BY <1>2 DEF Late
    <2>3. QED
      BY <1>1, <1>2, <2>1, <2>2 DEF IInv, ExportsOK
  <1>3. ASSUME NEW e \in Exporters, NEW c \in file[e]
        PROVE  /\ row'[c] # None /\ row'[c].enrolled /\ row'[c].iban
               /\ c \in late' \/ (lock[c] = e /\ Eligible(c)')
               /\ c \in todo[e] \/ lock[c] = e
    <2>1. /\ c \in Ids /\ row[c] # None /\ row[c].enrolled /\ row[c].iban
          /\ c \in late \/ (lock[c] = e /\ Eligible(c))
          /\ c \in todo[e] \/ lock[c] = e
      BY DEF IInv, TypeOK, ExportsOK
    <2>2. lock[c] = e => c # b
      BY <1>1, ExportersAssumption
    <2>3. QED
      BY <1>1, <2>1, <2>2 DEF Eligible
  <1>4. QED
    BY <1>1, <1>2, <1>3 DEF IInv, ExportsOK

\* The end of a transaction that commits nothing.
LEMMA FinishStep ==
  ASSUME IInv, NEW e \in Exporters, Finish(e), UNCHANGED <<row, late>> PROVE ExportsOK'
  <1>1. /\ pc'[e] = "idle" /\ todo'[e] = {} /\ file'[e] = {}
        /\ \A f \in Exporters \ {e} : pc'[f] = pc[f] /\ todo'[f] = todo[f] /\ file'[f] = file[f]
        /\ \A b \in Ids : lock'[b] # e
        /\ \A b \in Ids : lock[b] # e => lock'[b] = lock[b]
    BY ExportersAssumption DEF Finish, ReleasedLocks, IInv, TypeOK
  <1>2. \A b \in Ids : Eligible(b)' <=> Eligible(b)
    BY DEF Eligible
  <1>3. \A f \in Exporters \ {e}, b \in Ids : lock'[b] = f <=> lock[b] = f
    BY <1>1, ExportersAssumption DEF Finish, ReleasedLocks
  <1>4. \A f \in Exporters : file[f] \subseteq Ids
    BY DEF IInv, TypeOK
  <1>5. QED
    BY <1>1, <1>2, <1>3, <1>4 DEF IInv, ExportsOK

LEMMA CommitStep ==
  ASSUME IInv, NEW e \in Exporters, Commit(e) PROVE ExportsOK'
  <1>1. /\ pc'[e] = "idle" /\ todo'[e] = {} /\ file'[e] = {}
        /\ \A f \in Exporters \ {e} : pc'[f] = pc[f] /\ todo'[f] = todo[f] /\ file'[f] = file[f]
        /\ \A b \in Ids : lock'[b] # e
        /\ \A f \in Exporters \ {e}, b \in Ids : lock'[b] = f <=> lock[b] = f
        /\ late' = late
    BY ExportersAssumption DEF Commit, Finish, ReleasedLocks, IInv, TypeOK
  <1>2. \A b \in Ids : b \notin file[e] => row'[b] = row[b]
    BY DEF Commit
  <1>3. \A b \in file[e] : /\ b \in Ids /\ row[b] \in Row /\ row[b] # None /\ row'[b] = Marked(row[b])
                           /\ lock[b] = e
    BY DEF Commit, IInv, TypeOK, ExportsOK
  <1>4. \A b \in file[e] : /\ row'[b] # None /\ row'[b].enrolled = row[b].enrolled
                           /\ row'[b].iban = row[b].iban /\ row'[b].exported
    <2>1. \A r \in Row : /\ Marked(r) \in Row /\ Marked(r).enrolled = r.enrolled
                         /\ Marked(r).iban = r.iban /\ Marked(r).exported
      BY DEF Marked, Row
    <2>2. QED
      BY <1>3, <2>1, NoneAssumption
  <1>5. \A b \in Ids : Eligible(b)' => Eligible(b) /\ b \notin file[e]
    BY <1>2, <1>4 DEF Eligible
  <1>6. \A b \in Ids : lock[b] # e => (Eligible(b)' <=> Eligible(b))
    BY <1>2, <1>3 DEF Eligible
  <1>7. ASSUME NEW f \in Exporters \ {e}, NEW c \in file[f]
        PROVE  /\ row'[c] # None /\ row'[c].enrolled /\ row'[c].iban
               /\ c \in late \/ (lock[c] = f /\ Eligible(c)')
               /\ c \in todo[f] \/ lock[c] = f
    <2>1. /\ c \in Ids /\ row[c] # None /\ row[c].enrolled /\ row[c].iban
          /\ c \in late \/ (lock[c] = f /\ Eligible(c))
          /\ c \in todo[f] \/ lock[c] = f
      BY DEF IInv, TypeOK, ExportsOK
    <2>2. row'[c] # None /\ row'[c].enrolled /\ row'[c].iban
      BY <1>2, <1>4, <2>1
    <2>3. QED
      BY <1>6, <2>1, <2>2
  <1>8. ASSUME NEW f \in Exporters \ {e}
        PROVE  /\ pc[f] = "idle" => todo[f] = {} /\ \A b \in Ids : lock'[b] # f
               /\ pc[f] # "mark" => file[f] = {}
               /\ pc[f] = "lock" => \A b \in Ids : Eligible(b)' => lock'[b] = f \/ b \in todo[f] \cup late
               /\ \A b \in file[f] : b \in Ids
    BY <1>1, <1>5 DEF IInv, TypeOK, ExportsOK
  <1>9. \A f \in Exporters \ {e}, c \in Ids : lock[c] = f => lock'[c] = f
    BY <1>1
  <1>10. QED
    BY <1>1, <1>7, <1>8, <1>9 DEF ExportsOK

LEMMA ExportsStep ==
  ASSUME IInv, [Next]_vars PROVE ExportsOK'
  <1>1. CASE UNCHANGED vars
    BY <1>1 DEF vars, IInv, ExportsOK, Eligible
  <1>2. ASSUME NEW e \in Exporters, LockEligible(e) PROVE ExportsOK'
    <2>1. /\ UNCHANGED <<row, lock, file, late>> /\ pc[e] = "idle" /\ pc'[e] = "lock"
          /\ todo'[e] = {b \in Ids : Eligible(b)}
          /\ \A f \in Exporters \ {e} : pc'[f] = pc[f] /\ todo'[f] = todo[f]
      BY <1>2 DEF LockEligible, IInv, TypeOK
    <2>2. file[e] = {} /\ \A b \in Ids : Eligible(b)' <=> Eligible(b)
      BY <2>1 DEF Eligible, IInv, ExportsOK
    <2>3. \A f \in Exporters : file[f] \subseteq Ids
      BY DEF IInv, TypeOK
    <2>4. ASSUME NEW f \in Exporters
          PROVE  /\ pc'[f] = "idle" => todo'[f] = {} /\ \A b \in Ids : lock[b] # f
                 /\ pc'[f] # "mark" => file[f] = {}
                 /\ pc'[f] = "lock" => \A b \in Ids : Eligible(b) => lock[b] = f \/ b \in todo'[f] \cup late
                 /\ \A b \in file[f] : f # e /\ b \in Ids
      <3>1. CASE f = e
        BY <2>1, <2>2, <3>1
      <3>2. CASE f # e
        BY <2>1, <2>3, <3>2 DEF IInv, ExportsOK
      <3>3. QED
        BY <3>1, <3>2
    <2>5. QED
      BY <2>1, <2>2, <2>4 DEF IInv, ExportsOK
  <1>3. ASSUME NEW e \in Exporters, LockRow(e) PROVE ExportsOK'
    <2>1. PICK b \in todo[e] : Free(e, b) /\ lock' = RowLock(e, b) /\ todo' = [todo EXCEPT ![e] = @ \ {b}]
      BY <1>3 DEF LockRow
    <2>2. /\ UNCHANGED <<row, pc, file, late>> /\ pc[e] = "lock" /\ b \in Ids
          /\ todo'[e] = todo[e] \ {b} /\ file[e] = {}
          /\ \A f \in Exporters \ {e} : todo'[f] = todo[f]
      BY <1>3, <2>1 DEF LockRow, IInv, TypeOK, ExportsOK
    <2>3. /\ \A c \in Ids : Eligible(c)' <=> Eligible(c)
          /\ Eligible(b) => lock'[b] = e
          /\ \A c \in Ids : lock[c] = e => lock'[c] = e
          /\ \A f \in Exporters \ {e}, c \in Ids : lock'[c] = f <=> lock[c] = f
      BY <2>1, <2>2, ExportersAssumption DEF Eligible, Free, RowLock, IInv, TypeOK
    <2>4. \A f \in Exporters : file[f] \subseteq Ids
      BY DEF IInv, TypeOK
    <2>5. QED
      BY <2>2, <2>3, <2>4 DEF IInv, ExportsOK
  <1>4. ASSUME NEW e \in Exporters, ReadEligible(e) PROVE ExportsOK'
    <2>1. CASE Finish(e)
      BY <1>4, <2>1, FinishStep DEF ReadEligible
    <2>2. CASE ~Finish(e)
      <3> DEFINE eligible == {b \in Ids : Eligible(b)}
      <3>1. /\ UNCHANGED <<row, lock, late>> /\ pc[e] = "lock" /\ pc'[e] = "mark" /\ todo[e] = {}
            /\ todo'[e] = eligible /\ file'[e] = eligible /\ \A b \in eligible : row[b].iban
            /\ \A f \in Exporters \ {e} : pc'[f] = pc[f] /\ todo'[f] = todo[f] /\ file'[f] = file[f]
        BY <1>4, <2>2 DEF ReadEligible, IInv, TypeOK
      <3>2. \A b \in Ids : Eligible(b)' <=> Eligible(b)
        BY <3>1 DEF Eligible
      <3>3. \A f \in Exporters : file[f] \subseteq Ids
        BY DEF IInv, TypeOK
      <3>4. \A b \in eligible : b \in Ids /\ row[b] # None /\ row[b].enrolled /\ (lock[b] = e \/ b \in late)
        BY <3>1 DEF Eligible, IInv, ExportsOK
      <3>5. QED
        BY <3>1, <3>2, <3>3, <3>4 DEF IInv, ExportsOK
    <2>3. QED
      BY <2>1, <2>2
  <1>5. ASSUME NEW e \in Exporters, MarkRow(e) PROVE ExportsOK'
    <2>1. PICK b \in todo[e] : /\ Free(e, b)
                               /\ lock' = [lock EXCEPT ![b] = e]
                               /\ todo' = [todo EXCEPT ![e] = @ \ {b}]
      BY <1>5 DEF MarkRow
    <2>2. /\ UNCHANGED <<row, pc, file, late>> /\ pc[e] = "mark" /\ b \in Ids
          /\ todo'[e] = todo[e] \ {b}
          /\ \A f \in Exporters \ {e} : todo'[f] = todo[f]
      BY <1>5, <2>1 DEF MarkRow, IInv, TypeOK
    <2>3. /\ \A c \in Ids : Eligible(c)' <=> Eligible(c)
          /\ lock'[b] = e
          /\ \A c \in Ids : lock[c] = e => lock'[c] = e
          /\ \A f \in Exporters \ {e}, c \in Ids : lock'[c] = f <=> lock[c] = f
      BY <2>1, <2>2, ExportersAssumption DEF Eligible, Free, IInv, TypeOK
    <2>4. \A f \in Exporters : file[f] \subseteq Ids
      BY DEF IInv, TypeOK
    <2>5. QED
      BY <2>2, <2>3, <2>4 DEF IInv, ExportsOK
  <1>6. ASSUME NEW e \in Exporters, Abort(e) \/ DeadlockVictim(e) PROVE ExportsOK'
    BY <1>6, FinishStep DEF Abort, DeadlockVictim
  <1>7. QED
    BY <1>1, <1>2, <1>3, <1>4, <1>5, <1>6, BookStep, CancelStep, CommitStep DEF Next, Export

\* Only a commit changes what is marked, and it counts the same bookings.
LEMMA DebitsStep ==
  ASSUME IInv, [Next]_vars
  PROVE  /\ MarkedIffDebited' /\ OnlyLateDebitedTwice'
         /\ \A b \in Ids : debits'[b] > debits[b] =>
              row[b].enrolled /\ row[b].iban /\ (row[b].canceled => b \in late)
  <1>1. CASE \E e \in Exporters : Commit(e)
    <2>1. PICK e \in Exporters : Commit(e)
      BY <1>1
    <2>2. \A b \in file[e] : /\ b \in Ids /\ row[b] \in Row /\ row[b].enrolled /\ row[b].iban
                             /\ b \in late \/ Eligible(b)
      BY DEF IInv, TypeOK, ExportsOK
    <2>3. \A r \in Row : Marked(r) \in Row /\ Marked(r).exported
      BY DEF Marked, Row
    <2>4. \A b \in file[e] : /\ row'[b] # None /\ row'[b].exported /\ debits'[b] = debits[b] + 1
      BY <2>1, <2>2, <2>3, NoneAssumption DEF Commit
    <2>5. \A b \in Ids \ file[e] : row'[b] = row[b] /\ debits'[b] = debits[b]
      BY <2>1 DEF Commit
    <2>6. late' = late /\ debits \in [Ids -> Nat]
      BY <2>1 DEF Commit, IInv, TypeOK
    <2>7. \A b \in file[e] : b \notin late => debits[b] = 0
      BY <2>2, <2>6 DEF Eligible, IInv, MarkedIffDebited
    <2>8. MarkedIffDebited'
      BY <2>2, <2>4, <2>5, <2>6 DEF IInv, MarkedIffDebited
    <2>9. OnlyLateDebitedTwice'
      BY <2>4, <2>5, <2>6, <2>7 DEF IInv, OnlyLateDebitedTwice
    <2>10. \A b \in Ids : debits'[b] > debits[b] => b \in file[e]
      BY <2>5, <2>6
    <2>11. QED
      BY <2>2, <2>8, <2>9, <2>10 DEF Eligible
  <1>2. CASE \E b \in Ids : Cancel(b)
    <2>1. PICK b \in Ids : Cancel(b)
      BY <1>2
    <2>2. /\ UNCHANGED debits /\ late \subseteq late'
          /\ \A c \in Ids : row[c] = None => row'[c] = None
          /\ \A c \in Ids : row[c] # None => row'[c] # None /\ row'[c].exported = row[c].exported
      BY <2>1, CancelRows
    <2>3. QED
      BY <2>2 DEF IInv, TypeOK, MarkedIffDebited, OnlyLateDebitedTwice
  <1>3. CASE \E b \in Ids : Book(b)
    <2>1. PICK b \in Ids : Book(b)
      BY <1>3
    <2>2. /\ UNCHANGED debits /\ late \subseteq late' /\ row[b] = None
          /\ \A c \in Ids \ {b} : row'[c] = row[c]
      BY <2>1 DEF Book, Late, IInv, TypeOK
    <2>3. row'[b].exported = FALSE
      BY <2>1 DEF Book, IInv, TypeOK
    <2>4. QED
      BY <2>2, <2>3 DEF IInv, TypeOK, MarkedIffDebited, OnlyLateDebitedTwice
  <1>4. CASE UNCHANGED <<row, debits, late>>
    BY <1>4 DEF IInv, TypeOK, MarkedIffDebited, OnlyLateDebitedTwice
  <1>5. QED
    BY <1>1, <1>2, <1>3, <1>4 DEF Next, Export, LockEligible, LockRow, ReadEligible, MarkRow, Abort, DeadlockVictim,
                                   vars

\* The inductive invariant: row locks, the rows still to be handled, the file
\* under way and the marks agree, for any number of exporters and bookings.
THEOREM IInvariant == Spec => []IInv
  <1>1. Init => IInv
    BY ExportersAssumption DEF Init, IInv, TypeOK, ExportsOK, MarkedIffDebited, OnlyLateDebitedTwice, Eligible
  <1>2. IInv /\ [Next]_vars => IInv'
    BY TypeStep, ExportsStep, DebitsStep DEF IInv
  <1>3. QED
    BY <1>1, <1>2, PTL DEF Spec

\* A booking that was eligible before the exports began to take their locks is
\* debited once at most, and every debited booking is in a committed file.
THEOREM DebitedOnce == Spec => []DebitsAgree
  <1>1. IInv => DebitsAgree
    BY DEF IInv, DebitsAgree
  <1>2. QED
    BY <1>1, IInvariant, PTL

\* A committed file has only bookings with a seat and an IBAN, and of canceled
\* ones only those that came in between the locks and the read.
THEOREM ValidFiles == Spec => FilesAreValid
  <1> DEFINE Valid == \A b \in Ids : debits'[b] > debits[b] =>
                        row[b].enrolled /\ row[b].iban /\ (row[b].canceled => b \in late)
  <1>1. IInv /\ [Next]_vars => [Valid]_vars
    BY DebitsStep
  <1>2. QED
    BY <1>1, IInvariant, PTL DEF Spec, FilesAreValid
=============================================================================
