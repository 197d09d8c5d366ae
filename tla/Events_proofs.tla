--------------------------- MODULE Events_proofs ---------------------------
(***************************************************************************)
(* In every interleaving: events that are booked are not deleted, updates  *)
(* are not lost. With one request at a time: direct debits have IBANs, and *)
(* a name has one Closed event.                                            *)
(***************************************************************************)
EXTENDS Events, FiniteSetTheorems, TLAPS

\* An unlocked row has no version but the committed one, and the newest version of
\* a booked event is no deletion.
Kept ==
  /\ \A e \in Ids : lock[e] = None => version[e] = row[e]
  /\ \A e \in Ids : ibans[e] # {} => row[e] # None /\ version[e] # None

IInv == TypeOK /\ Kept

\* Ids are given in order: what is stored, locked or worked on has been created.
Made ==
  /\ \A e \in Ids : row[e] # None \/ version[e] # None \/ lock[e] # None => e <= created
  /\ \A p \in Workers :
       /\ tx[p].id <= created /\ \A e \in jobs[p] : e <= created
       /\ pc[p] \notin {"idle", "job"} => tx[p].id \in Ids

\* A lock belongs to a transaction that has written; the one that is about to commit an
\* update has changed the row as it is committed now.
Written ==
  \A p \in Workers :
    /\ pc[p] = "delete" => tx[p].change = NoChange
    /\ pc[p] \in {"archive", "archiving"} => ClosesNow(tx[p].change)
    /\ \A e \in Ids : lock[e] = p => pc[p] \in {"archive", "archiving", "commit"}
    /\ (pc[p] = "commit" /\ tx[p].change # NoChange /\ ~ClosesNow(tx[p].change)) =>
         LET e == tx[p].id
             c == tx[p].change
         IN  /\ lock[e] = p
             /\ version[e].name = Or(c.name, row[e].name)
             /\ version[e].status = Or(c.status, row[e].status)
             /\ version[e].method = Or(c.method, row[e].method)

UInv == Made /\ Written

\* One request at a time: what a booking or a change of the method has read is still so.
Debits(rows) == \A e \in Ids : rows[e] # None /\ rows[e].method = "SepaDirectDebit" => FALSE \notin ibans[e]

ReadsOK ==
  \A p \in Workers :
    LET now == row[tx[p].id] IN
      /\ pc[p] = "book" /\ now # None /\ now.method = "SepaDirectDebit" => tx[p].iban
      /\ pc[p] = "update" /\ now # None /\ tx[p].change.method # Keep
           => ibans[tx[p].id] = {} \/ tx[p].change.method = now.method

SInv == ReadsOK /\ Debits(row) /\ Debits(version)

-----------------------------------------------------------------------------
\* A step that fails, or starts an update, keeps the types.
LEMMA NoTxTyped == NoTx \in Tx /\ NoChange \in Change
  BY BoundsAssumption DEF NoTx, NoChange, Tx, Change

LEMMA IdsTyped == Ids \subseteq 0..MaxEvents
  BY BoundsAssumption DEF Ids

LEMMA ViewTyped ==
  ASSUME TypeOK, NEW p
  PROVE  View(p) \in [Ids -> Row \cup {None}]
  BY DEF View, TypeOK

LEMMA FailTyped ==
  ASSUME TypeOK, NEW p \in Workers, Fail(p), UNCHANGED <<created, row, ibans, clock>>
  PROVE  TypeOK'
  BY NoTxTyped DEF TypeOK, Fail, ReleasedLocks, States

LEMMA FailKeeps ==
  ASSUME IInv, NEW p \in Workers, Fail(p), UNCHANGED <<row, ibans>>
  PROVE  Kept'
  <1>1. ASSUME NEW e \in Ids, lock'[e] = None PROVE version'[e] = row'[e]
    BY <1>1, WorkersAssumption DEF IInv, Kept, TypeOK, Fail, ReleasedLocks
  <1>2. ASSUME NEW e \in Ids, ibans'[e] # {} PROVE row'[e] # None /\ version'[e] # None
    BY <1>2 DEF IInv, Kept, TypeOK, Fail, ReleasedLocks
  <1> QED BY <1>1, <1>2 DEF Kept

LEMMA BuildTyped ==
  ASSUME TypeOK, NEW p \in Workers, NEW t \in Tx, BuildUpdate(p, t),
         UNCHANGED <<created, row, version, lock, ibans, jobs>>
  PROVE  TypeOK'
  <1>1. ASSUME NEW n \in 0..MaxClock PROVE [t EXCEPT !.now = n] \in Tx
    BY DEF Tx
  <1>2. clock' \in 0..MaxClock
    BY BoundsAssumption DEF TypeOK, BuildUpdate
  <1>3. tx' \in [Workers -> Tx]
    <2>1. CASE ClosesNow(t.change)
      BY <1>1, <1>2, <2>1 DEF TypeOK, BuildUpdate
    <2>2. CASE ~ClosesNow(t.change)
      BY <2>2 DEF TypeOK, BuildUpdate
    <2> QED BY <2>1, <2>2
  <1>4. pc' \in [Workers -> States]
    BY DEF TypeOK, BuildUpdate, States
  <1> QED BY <1>2, <1>3, <1>4 DEF TypeOK

LEMMA JobTxTyped ==
  ASSUME NEW e \in 0..MaxEvents, NEW s \in Statuses
  PROVE  JobTx(e, s) \in Tx
  <1>1. [NoChange EXCEPT !.status = s] \in Change
    BY NoTxTyped DEF Change
  <1>2. JobTx(e, s) = [NoTx EXCEPT !.id = e, !.job = TRUE, !.change = [NoChange EXCEPT !.status = s]]
    BY DEF JobTx, NoTx
  <1> QED BY <1>1, <1>2, NoTxTyped DEF Tx

LEMMA RowOf ==
  ASSUME NEW n \in Names, NEW s \in Statuses, NEW k \in 0..MaxClock, NEW m \in Methods, NEW o \in BOOLEAN
  PROVE  [name |-> n, status |-> s, closed |-> k, method |-> m, over |-> o] \in Row
  BY DEF Row

\* A change applied to a row is a row.
LEMMA ChangedTyped ==
  ASSUME NEW r \in Row, NEW t \in Tx
  PROVE  Changed(r, t) \in Row
  <1> DEFINE c == t.change
  <1>1. c \in Change /\ t.now \in 0..MaxClock
    BY DEF Tx
  <1>2. Or(c.name, r.name) \in Names /\ Or(c.status, r.status) \in Statuses /\ Or(c.method, r.method) \in Methods
    <2> HIDE DEF c
    <2> QED BY <1>1 DEF Or, Row, Change
  <1>3. Or(c.closed, r.closed) \in 0..MaxClock
    <2>1. r.closed \in 0..MaxClock /\ c.closed \in {Keep} \cup (1..MaxClock)
      <3> HIDE DEF c
      <3> QED BY <1>1 DEF Row, Change
    <2>2. c.closed = Keep \/ c.closed \in 0..MaxClock
      <3> HIDE DEF c
      <3> QED BY <2>1, BoundsAssumption
    <2> HIDE DEF c
    <2> QED BY <2>1, <2>2 DEF Or
  <1>4. (IF c.dates THEN FALSE ELSE r.over) \in BOOLEAN
    BY DEF Row
  <1> HIDE DEF c
  <1>5. (IF ClosesNow(c) THEN t.now ELSE Or(c.closed, r.closed)) \in 0..MaxClock
    BY <1>1, <1>3
  <1>6. Changed(r, t) =
          [name |-> Or(c.name, r.name), status |-> Or(c.status, r.status),
           closed |-> IF ClosesNow(c) THEN t.now ELSE Or(c.closed, r.closed),
           method |-> Or(c.method, r.method), over |-> IF c.dates THEN FALSE ELSE r.over]
    BY DEF c, Changed
  <1> DEFINE k == IF ClosesNow(c) THEN t.now ELSE Or(c.closed, r.closed)
             o == IF c.dates THEN FALSE ELSE r.over
  <1>7. k \in 0..MaxClock /\ o \in BOOLEAN
    BY <1>4, <1>5
  <1>8. Changed(r, t) = [name |-> Or(c.name, r.name), status |-> Or(c.status, r.status), closed |-> k,
                         method |-> Or(c.method, r.method), over |-> o]
    BY <1>6
  <1> HIDE DEF k, o
  <1> QED BY <1>2, <1>7, <1>8, RowOf

\* A row is written to by a worker that keeps it locked until its end.
LEMMA WriteTyped ==
  ASSUME TypeOK, NEW p \in Workers, NEW e, NEW v, e \in Ids => v \in Row \cup {None}, Write(p, e, v)
  PROVE  lock' \in [Ids -> Workers \cup {None}] /\ version' \in [Ids -> Row \cup {None}]
  BY DEF TypeOK, Write

LEMMA WriteKeeps ==
  ASSUME IInv, NEW p \in Workers, NEW e, NEW v, Write(p, e, v), UNCHANGED <<row, ibans>>,
         e \in Ids => v # None \/ ibans[e] = {}
  PROVE  Kept'
  <1>1. ASSUME NEW f \in Ids, lock'[f] = None PROVE version'[f] = row'[f]
    BY <1>1, WorkersAssumption DEF IInv, Kept, TypeOK, Write
  <1>2. ASSUME NEW f \in Ids, ibans'[f] # {} PROVE row'[f] # None /\ version'[f] # None
    BY <1>2 DEF IInv, Kept, TypeOK, Write
  <1> QED BY <1>1, <1>2 DEF Kept

LEMMA SameRowsKeep ==
  ASSUME IInv, UNCHANGED <<row, version, lock, ibans>>
  PROVE  Kept'
  BY DEF IInv, Kept

-----------------------------------------------------------------------------
(* One lemma per action                                                     *)

LEMMA CreateStep ==
  ASSUME IInv, NEW p \in Workers, Create(p)
  PROVE  IInv'
  <1>1. PICK new \in NewEvents : /\ row' = [row EXCEPT ![created'] = new]
                                 /\ version' = [version EXCEPT ![created'] = new]
    BY DEF Create
  <1>2. new \in Row /\ new # None
    BY ChangesAssumption, ConstantsAssumption
  <1>3. created' \in 0..MaxEvents
    BY BoundsAssumption DEF IInv, TypeOK, Create
  <1>4. TypeOK'
    BY <1>1, <1>2, <1>3 DEF IInv, TypeOK, Create
  <1>5. ASSUME NEW e \in Ids, lock'[e] = None PROVE version'[e] = row'[e]
    BY <1>1, <1>5 DEF IInv, Kept, TypeOK, Create
  <1>6. ASSUME NEW e \in Ids, ibans'[e] # {} PROVE row'[e] # None /\ version'[e] # None
    BY <1>1, <1>2, <1>6 DEF IInv, Kept, TypeOK, Create
  <1> QED BY <1>4, <1>5, <1>6 DEF IInv, Kept

LEMMA BeginUpdateStep ==
  ASSUME IInv, NEW p \in Workers, BeginUpdate(p)
  PROVE  IInv'
  <1>1. PICK e \in Ids, c \in Changes :
          IF c.method = Keep
            THEN BuildUpdate(p, [NoTx EXCEPT !.id = e, !.change = c])
            ELSE /\ pc' = [pc EXCEPT ![p] = "method"]
                 /\ tx' = [tx EXCEPT ![p] = [NoTx EXCEPT !.id = e, !.change = c]]
                 /\ UNCHANGED clock
    BY DEF BeginUpdate
  <1>2. [NoTx EXCEPT !.id = e, !.change = c] \in Tx
    BY NoTxTyped, ChangesAssumption, IdsTyped DEF Tx
  <1>3. TypeOK'
    <2>1. CASE c.method = Keep
      BY <1>1, <1>2, <2>1, BuildTyped DEF BeginUpdate, IInv
    <2>2. CASE c.method # Keep
      BY <1>1, <1>2, <2>2 DEF BeginUpdate, IInv, TypeOK, States
    <2> QED BY <2>1, <2>2
  <1> QED BY <1>3, SameRowsKeep DEF BeginUpdate, IInv

LEMMA CheckMethodStep ==
  ASSUME IInv, NEW p \in Workers, CheckMethod(p)
  PROVE  IInv'
  <1>1. tx[p] \in Tx
    BY DEF IInv, TypeOK
  <1>2. CASE BuildUpdate(p, tx[p]) /\ UNCHANGED <<version, lock, jobs>>
    BY <1>1, <1>2, BuildTyped, SameRowsKeep DEF CheckMethod, IInv
  <1>3. CASE Fail(p) /\ UNCHANGED clock
    BY <1>3, FailTyped, FailKeeps DEF CheckMethod, IInv
  <1> QED BY <1>2, <1>3 DEF CheckMethod

LEMMA UpdateRowStep ==
  ASSUME IInv, NEW p \in Workers, UpdateRow(p)
  PROVE  IInv'
  <1> DEFINE e == tx[p].id
             v == Changed(row[e], tx[p])
  <1>1. CASE row[e] = None
    BY <1>1, FailTyped, FailKeeps DEF UpdateRow, IInv
  <1>2. CASE row[e] # None
    <2>1. Write(p, e, v)
      BY <1>2 DEF UpdateRow
    <2>2. e \in Ids => v \in Row
      BY <1>2, ChangedTyped DEF IInv, TypeOK
    <2>3. lock' \in [Ids -> Workers \cup {None}] /\ version' \in [Ids -> Row \cup {None}]
      <3> HIDE DEF e, v
      <3> QED BY <2>1, <2>2, WriteTyped DEF IInv
    <2>4. Kept'
      <3>1. UNCHANGED <<row, ibans>>
        BY DEF UpdateRow
      <3> HIDE DEF e, v
      <3> QED BY <2>1, <2>2, <3>1, WriteKeeps, ConstantsAssumption
    <2>5. pc' \in [Workers -> States]
      BY <1>2 DEF UpdateRow, IInv, TypeOK, States
    <2> QED BY <1>2, <2>3, <2>4, <2>5 DEF UpdateRow, IInv, TypeOK
  <1> QED BY <1>1, <1>2

LEMMA ArchiveStep ==
  ASSUME IInv, NEW p \in Workers, Archive(p)
  PROVE  IInv'
  <1> DEFINE left == {e \in Ids : Outdated(View(p), View(p)[e])}
  <1>1. View(p) \in [Ids -> Row \cup {None}]
    BY ViewTyped DEF IInv
  <1>2. left \in SUBSET Ids
    OBVIOUS
  <1>3. tx' = [tx EXCEPT ![p] = [tx[p] EXCEPT !.seen = View(p), !.left = left]]
    BY DEF Archive, IInv, TypeOK
  <1>4. [tx[p] EXCEPT !.seen = View(p), !.left = left] \in Tx
    <2> HIDE DEF left
    <2> QED BY <1>1, <1>2 DEF IInv, TypeOK, Tx
  <1>5. tx' \in [Workers -> Tx]
    <2> HIDE DEF left
    <2> QED BY <1>3, <1>4 DEF IInv, TypeOK
  <1>6. TypeOK'
    BY <1>5 DEF Archive, IInv, TypeOK, States
  <1> QED BY <1>6, SameRowsKeep DEF Archive, IInv

LEMMA ArchiveRowStep ==
  ASSUME IInv, NEW p \in Workers, ArchiveRow(p)
  PROVE  IInv'
  <1> DEFINE r(e) == View(p)[e]
             v(e) == [r(e) EXCEPT !.status = "Archived"]
  <1>1. PICK e \in tx[p].left :
          /\ tx' = [tx EXCEPT ![p].left = @ \ {e}]
          /\ IF Outdated(tx[p].seen, r(e))
               THEN Write(p, e, v(e))
               ELSE UNCHANGED <<version, lock>>
    BY DEF ArchiveRow
  <1>2. e \in Ids
    BY DEF IInv, TypeOK, Tx
  <1>3. tx' \in [Workers -> Tx]
    <2>1. [tx[p] EXCEPT !.left = @ \ {e}] \in Tx
      BY DEF IInv, TypeOK, Tx
    <2> QED BY <1>1, <2>1 DEF IInv, TypeOK
  <1>4. CASE Outdated(tx[p].seen, r(e))
    <2>1. r(e) \in Row
      BY <1>2, <1>4, ViewTyped DEF Outdated, IInv
    <2>2. v(e) \in Row
      <3> HIDE DEF r
      <3> QED BY <2>1 DEF Row, Statuses
    <2>3. Write(p, e, v(e)) /\ UNCHANGED <<row, ibans>>
      BY <1>1, <1>4 DEF ArchiveRow
    <2>4. lock' \in [Ids -> Workers \cup {None}] /\ version' \in [Ids -> Row \cup {None}]
      <3> HIDE DEF v
      <3> QED BY <2>2, <2>3, WriteTyped DEF IInv
    <2>5. Kept'
      <3> HIDE DEF v
      <3> QED BY <2>2, <2>3, WriteKeeps, ConstantsAssumption
    <2> QED BY <1>3, <2>4, <2>5 DEF ArchiveRow, IInv, TypeOK
  <1>5. CASE ~Outdated(tx[p].seen, r(e))
    <2>1. UNCHANGED <<row, version, lock, ibans>>
      BY <1>1, <1>5 DEF ArchiveRow
    <2> QED BY <1>3, <2>1, SameRowsKeep DEF ArchiveRow, IInv, TypeOK
  <1> QED BY <1>4, <1>5

LEMMA DeleteRowStep ==
  ASSUME IInv, NEW p \in Workers, DeleteRow(p)
  PROVE  IInv'
  <1> DEFINE e == tx[p].id
  <1>1. CASE Referenced(e)
    BY <1>1, FailTyped, FailKeeps DEF DeleteRow, IInv
  <1>2. CASE ~Referenced(e)
    <2>1. Write(p, e, None) /\ UNCHANGED <<row, ibans>>
      BY <1>2 DEF DeleteRow
    <2>2. Kept'
      BY <1>2, <2>1, WriteKeeps DEF Referenced
    <2>3. lock' \in [Ids -> Workers \cup {None}] /\ version' \in [Ids -> Row \cup {None}]
      BY <2>1, WriteTyped DEF IInv
    <2> QED BY <1>2, <2>2, <2>3 DEF DeleteRow, IInv, TypeOK, States
  <1> QED BY <1>1, <1>2

LEMMA InsertStep ==
  ASSUME IInv, NEW p \in Workers, Insert(p)
  PROVE  IInv'
  <1> DEFINE e == tx[p].id
  <1>1. tx[p].iban \in BOOLEAN
    BY DEF IInv, TypeOK, Tx
  <1>2. TypeOK'
    BY <1>1, NoTxTyped DEF Insert, IInv, TypeOK, States
  <1>3. ASSUME NEW f \in Ids, ibans'[f] # {} PROVE row'[f] # None /\ version'[f] # None
    <2>1. CASE ibans[f] # {}
      BY <2>1 DEF Insert, IInv, Kept
    <2>2. CASE ibans[f] = {}
      <3>1. f = e /\ row[e] # None
        BY <1>3, <2>2 DEF Insert, IInv, TypeOK
      <3> QED BY <3>1 DEF Insert, IInv, Kept
    <2> QED BY <2>1, <2>2
  <1> QED BY <1>2, <1>3 DEF Insert, IInv, Kept

LEMMA CommitStep ==
  ASSUME IInv, NEW p \in Workers, Commit(p)
  PROVE  IInv'
  <1>1. row' \in [Ids -> Row \cup {None}]
    BY ViewTyped DEF Commit, IInv
  <1>2. lock' \in [Ids -> Workers \cup {None}]
    BY DEF Commit, ReleasedLocks, IInv, TypeOK
  <1>3. TypeOK'
    BY <1>1, <1>2, NoTxTyped DEF Commit, After, IInv, TypeOK, States
  <1>4. ASSUME NEW e \in Ids, lock'[e] = None PROVE version'[e] = row'[e]
    BY <1>4 DEF Commit, ReleasedLocks, View, IInv, Kept, TypeOK
  <1>5. ASSUME NEW e \in Ids, ibans'[e] # {} PROVE row'[e] # None /\ version'[e] # None
    BY <1>5 DEF Commit, View, IInv, Kept, TypeOK
  <1> QED BY <1>3, <1>4, <1>5 DEF IInv, Kept

LEMMA JobStep ==
  ASSUME IInv, NEW p \in Workers, BeginJob(p) \/ FinishNext(p) \/ MailSent(p) \/ MailFails(p)
  PROVE  IInv'
  <1>1. CASE BeginJob(p)
    BY <1>1, SameRowsKeep DEF BeginJob, IInv, TypeOK, States
  <1>2. CASE FinishNext(p)
    <2>1. CASE \E e \in jobs[p] : BuildUpdate(p, JobTx(e, "Finished"))
      <3>1. PICK e \in jobs[p] : BuildUpdate(p, JobTx(e, "Finished"))
        BY <2>1
      <3>2. JobTx(e, "Finished") \in Tx
        BY JobTxTyped, BoundsAssumption DEF IInv, TypeOK, Ids, Statuses
      <3> QED BY <1>2, <3>1, <3>2, BuildTyped, SameRowsKeep DEF FinishNext, IInv
    <2>2. CASE pc' = [pc EXCEPT ![p] = "idle"] /\ tx' = [tx EXCEPT ![p] = NoTx] /\ UNCHANGED clock
      BY <1>2, <2>2, NoTxTyped, SameRowsKeep DEF FinishNext, IInv, TypeOK, States
    <2> QED BY <1>2, <2>1, <2>2 DEF FinishNext
  <1>3. CASE MailSent(p)
    <2>1. JobTx(tx[p].id, "Closed") \in Tx
      BY JobTxTyped DEF IInv, TypeOK, Tx, Statuses
    <2> QED BY <1>3, <2>1, BuildTyped, SameRowsKeep DEF MailSent, IInv
  <1>4. CASE MailFails(p)
    BY <1>4, FailTyped, FailKeeps DEF MailFails, IInv
  <1> QED BY <1>1, <1>2, <1>3, <1>4

\* The steps that only move a request on.
LEMMA RequestStep ==
  ASSUME IInv, NEW p \in Workers, BeginDelete(p) \/ BeginBooking(p) \/ BeginPrebooking(p) \/ Archived(p) \/ Abort(p)
  PROVE  IInv'
  <1>1. CASE BeginDelete(p)
    <2>1. PICK e \in Ids : tx' = [tx EXCEPT ![p] = [NoTx EXCEPT !.id = e]]
      BY <1>1 DEF BeginDelete
    <2>2. [NoTx EXCEPT !.id = e] \in Tx
      BY NoTxTyped, BoundsAssumption DEF Tx, Ids
    <2> QED BY <1>1, <2>1, <2>2, SameRowsKeep DEF BeginDelete, IInv, TypeOK, States
  <1>2. CASE BeginBooking(p) \/ BeginPrebooking(p)
    <2>1. \E e \in Ids, b \in BOOLEAN : tx' = [tx EXCEPT ![p] = [NoTx EXCEPT !.id = e, !.iban = b]]
      <3>1. CASE BeginBooking(p)
        <4>1. PICK e \in Ids : tx' = [tx EXCEPT ![p] = [NoTx EXCEPT !.id = e, !.iban = (row[e].method = "SepaDirectDebit")]]
          BY <3>1 DEF BeginBooking
        <4>2. (row[e].method = "SepaDirectDebit") \in BOOLEAN
          OBVIOUS
        <4> QED BY <4>1, <4>2, Zenon
      <3>2. CASE BeginPrebooking(p)
        <4>1. PICK e \in Ids, given \in BOOLEAN :
                tx' = [tx EXCEPT ![p] = [NoTx EXCEPT !.id = e, !.iban = (given \/ row[e].method = "SepaDirectDebit")]]
          BY <3>2 DEF BeginPrebooking
        <4>2. (given \/ row[e].method = "SepaDirectDebit") \in BOOLEAN
          OBVIOUS
        <4> QED BY <4>1, <4>2, Zenon
      <3> QED BY <1>2, <3>1, <3>2
    <2>3. PICK e \in Ids, b \in BOOLEAN : tx' = [tx EXCEPT ![p] = [NoTx EXCEPT !.id = e, !.iban = b]]
      BY <2>1
    <2>2. [NoTx EXCEPT !.id = e, !.iban = b] \in Tx
      BY NoTxTyped, IdsTyped DEF Tx
    <2>4. tx' \in [Workers -> Tx]
      BY <2>2, <2>3 DEF IInv, TypeOK
    <2>5. pc' = [pc EXCEPT ![p] = "book"] /\ UNCHANGED <<created, row, version, lock, ibans, clock, jobs>>
      BY <1>2 DEF BeginBooking, BeginPrebooking
    <2> QED BY <2>4, <2>5, SameRowsKeep DEF IInv, TypeOK, States
  <1>3. CASE Archived(p)
    <2>0. tx[p] \in Tx
      BY DEF IInv, TypeOK
    <2>1. [tx[p] EXCEPT !.seen = None] \in Tx
      BY <2>0 DEF Tx
    <2> QED BY <1>3, <2>1, SameRowsKeep DEF Archived, IInv, TypeOK, States
  <1>4. CASE Abort(p)
    BY <1>4, FailTyped, FailKeeps DEF Abort, IInv
  <1> QED BY <1>1, <1>2, <1>3, <1>4

LEMMA DatesPassStep ==
  ASSUME IInv, NEW e \in Ids, DatesPass(e)
  PROVE  IInv'
  <1>1. row[e] \in Row /\ version[e] \in Row
    BY DEF DatesPass, IInv, Kept, TypeOK
  <1>2. [row[e] EXCEPT !.over = TRUE] \in Row /\ [version[e] EXCEPT !.over = TRUE] \in Row
    BY <1>1 DEF Row
  <1>3. /\ row' = [row EXCEPT ![e] = [row[e] EXCEPT !.over = TRUE]]
        /\ version' = [version EXCEPT ![e] = [version[e] EXCEPT !.over = TRUE]]
    BY DEF DatesPass
  <1>4. TypeOK'
    BY <1>2, <1>3 DEF DatesPass, IInv, TypeOK
  <1>5. ASSUME NEW f \in Ids, lock'[f] = None PROVE version'[f] = row'[f]
    BY <1>3, <1>5 DEF DatesPass, IInv, Kept, TypeOK
  <1>6. ASSUME NEW f \in Ids, ibans'[f] # {} PROVE row'[f] # None /\ version'[f] # None
    <2>1. CASE f = e
      <3> DEFINE r == [row[e] EXCEPT !.over = TRUE]
                 v == [version[e] EXCEPT !.over = TRUE]
      <3>1. row'[e] = r /\ version'[e] = v
        BY <1>3 DEF IInv, TypeOK
      <3>2. r # None /\ v # None
        <4> HIDE DEF r, v
        <4> QED BY <1>2, ConstantsAssumption DEF r, v
      <3> QED BY <2>1, <3>1, <3>2
    <2>2. CASE f # e
      BY <1>3, <1>6, <2>2 DEF DatesPass, IInv, Kept, TypeOK
    <2> QED BY <2>1, <2>2
  <1> QED BY <1>4, <1>5, <1>6 DEF IInv, Kept

-----------------------------------------------------------------------------
\* The inductive invariant holds in every reachable state.
THEOREM IInvariant == Spec => []IInv
  <1>1. Init => IInv
    <2> SUFFICES ASSUME Init PROVE IInv OBVIOUS
    <2>1. TypeOK
      BY NoTxTyped, BoundsAssumption DEF Init, TypeOK, States
    <2> QED BY <2>1 DEF Init, IInv, Kept
  <1>2. IInv /\ [Next]_vars => IInv'
    <2> SUFFICES ASSUME IInv, [Next]_vars PROVE IInv' OBVIOUS
    <2>1. CASE \E p \in Workers : Create(p) \/ BeginUpdate(p) \/ BeginDelete(p)
                                   \/ BeginBooking(p) \/ BeginPrebooking(p) \/ BeginJob(p)
      BY <2>1, CreateStep, BeginUpdateStep, RequestStep, JobStep
    <2>2. CASE \E p \in Workers : Serve(p)
      BY <2>2, CheckMethodStep, UpdateRowStep, ArchiveStep, ArchiveRowStep, RequestStep, DeleteRowStep,
         InsertStep, JobStep, CommitStep DEF Serve
    <2>3. CASE \E p \in Workers : MailFails(p) \/ Abort(p)
      BY <2>3, JobStep, RequestStep
    <2>4. CASE \E e \in Ids : DatesPass(e)
      BY <2>4, DatesPassStep
    <2>5. CASE UNCHANGED vars
      BY <2>5 DEF vars, IInv, TypeOK, Kept
    <2> QED BY <2>1, <2>2, <2>3, <2>4, <2>5 DEF Next
  <1> QED BY <1>1, <1>2, PTL DEF Spec

\* Every variable has its type.
THEOREM TypeCorrect == Spec => []TypeOK
  <1>1. IInv => TypeOK
    BY DEF IInv
  <1> QED BY <1>1, IInvariant, PTL

\* A booked event is never deleted, whatever the administrators, the job and the
\* people who book do at the same time, and for any number of them and of events.
THEOREM BookedKept == Spec => []BookedIsKept
  <1>1. IInv => BookedIsKept
    BY DEF IInv, Kept, BookedIsKept
  <1> QED BY <1>1, IInvariant, PTL

-----------------------------------------------------------------------------
(* Updates are not lost                                                     *)

Acts(p) ==
  \/ Create(p) \/ BeginUpdate(p) \/ BeginDelete(p) \/ BeginBooking(p) \/ BeginPrebooking(p) \/ BeginJob(p)
  \/ Serve(p) \/ MailFails(p) \/ Abort(p)

\* A step of p leaves the locals of the others alone.
LEMMA LocalsKept ==
  ASSUME IInv, NEW p \in Workers, Acts(p)
  PROVE  /\ \A q \in Workers \ {p} : pc'[q] = pc[q] /\ tx'[q] = tx[q] /\ jobs'[q] = jobs[q]
         /\ created \in Nat /\ created' \in Nat /\ created <= created'
  <1> DEFINE Others == \A q \in Workers \ {p} : pc'[q] = pc[q] /\ tx'[q] = tx[q] /\ jobs'[q] = jobs[q]
  <1>1. CASE BeginUpdate(p) \/ BeginDelete(p) \/ BeginBooking(p) \/ BeginPrebooking(p) \/ BeginJob(p)
    <2>1. CASE BeginUpdate(p) \/ BeginJob(p)
      <3>1. created' = created /\ Others
        BY <2>1 DEF BeginUpdate, BeginJob, BuildUpdate, IInv, TypeOK
      <3> QED BY <3>1 DEF IInv, TypeOK
    <2>2. CASE BeginDelete(p) \/ BeginBooking(p) \/ BeginPrebooking(p)
      <3>1. created' = created /\ Others
        BY <2>2 DEF BeginDelete, BeginBooking, BeginPrebooking, IInv, TypeOK
      <3> QED BY <3>1 DEF IInv, TypeOK
    <2> QED BY <1>1, <2>1, <2>2
  <1>2. CASE Create(p)
    BY <1>2, BoundsAssumption DEF Create, IInv, TypeOK
  <1>3. CASE Archive(p) \/ ArchiveRow(p) \/ Archived(p) \/ Insert(p)
    <2>1. created' = created
      BY <1>3 DEF Archive, ArchiveRow, Archived, Insert
    <2>2. Archive(p) \/ Archived(p) \/ Insert(p) => Others
      BY DEF Archive, Archived, Insert, IInv, TypeOK
    <2>3. ArchiveRow(p) => Others
      BY DEF ArchiveRow, IInv, TypeOK
    <2> QED BY <1>3, <2>1, <2>2, <2>3 DEF IInv, TypeOK
  <1>4. CASE CheckMethod(p) \/ UpdateRow(p) \/ DeleteRow(p) \/ MailFails(p) \/ Abort(p)
    <2>1. created' = created
      BY <1>4 DEF CheckMethod, UpdateRow, DeleteRow, MailFails, Abort
    <2>2. Fail(p) => Others
      BY DEF Fail, IInv, TypeOK
    <2>3. CheckMethod(p) => Others
      BY <2>2 DEF CheckMethod, BuildUpdate, IInv, TypeOK
    <2>4. UpdateRow(p) \/ DeleteRow(p) => Others
      BY <2>2 DEF UpdateRow, DeleteRow, IInv, TypeOK
    <2> QED BY <1>4, <2>1, <2>2, <2>3, <2>4 DEF MailFails, Abort, IInv, TypeOK
  <1>5. CASE FinishNext(p) \/ MailSent(p) \/ Commit(p)
    <2>1. created' = created
      BY <1>5 DEF FinishNext, MailSent, Commit
    <2>2. Others
      BY <1>5 DEF FinishNext, MailSent, Commit, BuildUpdate, IInv, TypeOK
    <2> QED BY <2>1, <2>2 DEF IInv, TypeOK
  <1> QED BY <1>1, <1>2, <1>3, <1>4, <1>5 DEF Acts, Serve

LEMMA BuildLocals ==
  ASSUME IInv, NEW p \in Workers, NEW t \in Tx, BuildUpdate(p, t)
  PROVE  /\ pc'[p] = "update" /\ tx'[p].id = t.id /\ tx'[p].change = t.change
  BY DEF BuildUpdate, IInv, TypeOK, Tx

LEMMA FailLocals ==
  ASSUME IInv, NEW p \in Workers, Fail(p)
  PROVE  /\ pc'[p] = "idle" /\ tx'[p] = NoTx /\ NoTx.id = 0 /\ jobs'[p] = {}
         /\ \A e \in Ids : IF lock[e] = p THEN version'[e] = row[e] /\ lock'[e] = None
                                          ELSE version'[e] = version[e] /\ lock'[e] = lock[e]
  BY DEF Fail, ReleasedLocks, NoTx, IInv, TypeOK

\* What a step makes of the locals of its own request.
LEMMA OwnMade ==
  ASSUME IInv, Made, NEW p \in Workers, Acts(p)
  PROVE  /\ tx'[p].id <= created' /\ \A e \in jobs'[p] : e <= created'
         /\ pc'[p] \notin {"idle", "job"} => tx'[p].id \in Ids
  <1>1. /\ created \in Nat /\ created' \in Nat /\ created <= created'
        /\ \A e \in Ids : e \in Int /\ (row[e] # None => e <= created)
        /\ tx[p] \in Tx /\ tx[p].id \in Int /\ tx[p].id <= created
        /\ \A e \in jobs[p] : e \in Ids /\ e <= created
        /\ pc[p] \notin {"idle", "job"} => tx[p].id \in Ids
    BY LocalsKept, BoundsAssumption DEF Made, Ids, IInv, TypeOK, Tx
  <1>2. CASE CheckMethod(p) \/ UpdateRow(p) \/ DeleteRow(p) \/ MailFails(p) \/ Abort(p)
    <2>1. CASE Fail(p)
      BY <1>1, <2>1, FailLocals
    <2>2. CASE CheckMethod(p) /\ BuildUpdate(p, tx[p]) /\ jobs' = jobs
      BY <1>1, <2>2, BuildLocals DEF CheckMethod
    <2>3. CASE tx' = tx /\ jobs' = jobs /\ pc[p] \notin {"idle", "job"}
      BY <1>1, <2>3
    <2> QED BY <1>2, <2>1, <2>2, <2>3 DEF CheckMethod, UpdateRow, DeleteRow, MailFails, Abort
  <1>3. CASE BeginUpdate(p)
    <2>1. PICK e \in Ids, c \in Changes :
            /\ row[e] # None
            /\ \/ BuildUpdate(p, [NoTx EXCEPT !.id = e, !.change = c])
               \/ tx' = [tx EXCEPT ![p] = [NoTx EXCEPT !.id = e, !.change = c]]
      BY <1>3 DEF BeginUpdate
    <2>2. [NoTx EXCEPT !.id = e, !.change = c] \in Tx
      BY NoTxTyped, ChangesAssumption, IdsTyped DEF Tx
    <2>3. tx'[p].id = e /\ jobs' = jobs
      BY <1>3, <2>1, <2>2, BuildLocals DEF BeginUpdate, IInv, TypeOK, NoTx
    <2> QED BY <1>1, <2>1, <2>3
  <1>4. CASE BeginDelete(p) \/ BeginBooking(p) \/ BeginPrebooking(p)
    <2>1. \E e \in Ids : row[e] # None /\ tx'[p].id = e
      <3>1. CASE BeginDelete(p)
        BY <3>1 DEF BeginDelete, Deletable, IInv, TypeOK, NoTx
      <3>2. CASE BeginBooking(p)
        BY <3>2 DEF BeginBooking, IInv, TypeOK, NoTx
      <3>3. CASE BeginPrebooking(p)
        BY <3>3 DEF BeginPrebooking, IInv, TypeOK, NoTx
      <3> QED BY <1>4, <3>1, <3>2, <3>3
    <2> QED BY <1>1, <1>4, <2>1 DEF BeginDelete, BeginBooking, BeginPrebooking
  <1>5. CASE BeginJob(p)
    BY <1>1, <1>5 DEF BeginJob, IInv, TypeOK
  <1>6. CASE Create(p)
    BY <1>1, <1>6 DEF Create
  <1>7. CASE Archive(p) \/ ArchiveRow(p) \/ Archived(p)
    <2>1. jobs' = jobs /\ pc[p] \in {"archive", "archiving"}
      BY <1>7 DEF Archive, ArchiveRow, Archived
    <2>2. \E S, v : \/ tx' = [tx EXCEPT ![p].left = S]
                   \/ tx' = [tx EXCEPT ![p].seen = v]
                   \/ tx' = [tx EXCEPT ![p].seen = v, ![p].left = S]
      BY <1>7 DEF Archive, ArchiveRow, Archived
    <2>3. tx'[p].id = tx[p].id
      BY <1>1, <2>2 DEF IInv, TypeOK, Tx
    <2> QED BY <1>1, <2>1, <2>3
  <1>8. CASE Insert(p)
    BY <1>1, <1>8 DEF Insert, NoTx, IInv, TypeOK
  <1>9. CASE FinishNext(p)
    <2>1. CASE \E e \in jobs[p] : BuildUpdate(p, JobTx(e, "Finished"))
      <3>1. PICK e \in jobs[p] : BuildUpdate(p, JobTx(e, "Finished"))
        BY <2>1
      <3>2. JobTx(e, "Finished") \in Tx /\ JobTx(e, "Finished").id = e
        BY <1>1, JobTxTyped, IdsTyped DEF Statuses, JobTx, NoTx
      <3> QED BY <1>1, <1>9, <3>1, <3>2, BuildLocals DEF FinishNext
    <2>2. CASE pc' = [pc EXCEPT ![p] = "idle"] /\ tx' = [tx EXCEPT ![p] = NoTx]
      BY <1>1, <1>9, <2>2 DEF FinishNext, NoTx, IInv, TypeOK
    <2> QED BY <1>9, <2>1, <2>2 DEF FinishNext
  <1>10. CASE MailSent(p)
    <2>1. JobTx(tx[p].id, "Closed") \in Tx
      BY <1>1, JobTxTyped DEF Statuses, Tx
    <2>2. JobTx(tx[p].id, "Closed").id = tx[p].id
      BY DEF JobTx, NoTx
    <2> QED BY <1>1, <1>10, <2>1, <2>2, BuildLocals DEF MailSent
  <1>11. CASE Commit(p)
    <2>1. /\ jobs'[p] \subseteq jobs[p]
          /\ tx'[p] = tx[p] \/ (tx'[p] = NoTx /\ NoTx.id = 0 /\ pc'[p] \in {"idle", "job"})
      BY <1>11 DEF Commit, After, NoTx, IInv, TypeOK
    <2> QED BY <1>1, <1>11, <2>1 DEF Commit
  <1> QED BY <1>2, <1>3, <1>4, <1>5, <1>6, <1>7, <1>8, <1>9, <1>10, <1>11 DEF Acts, Serve

\* Who has locked a row writes on; the others wait, and see it as it was.
LEMMA RowsOfOthers ==
  ASSUME IInv, Made, NEW p \in Workers, Acts(p), NEW e \in Ids
  PROVE  /\ lock[e] \notin {None, p} => lock'[e] = lock[e] /\ version'[e] = version[e] /\ row'[e] = row[e]
         /\ lock'[e] \in {lock[e], None, p}
         /\ (row'[e] # None \/ version'[e] # None \/ lock'[e] # None) => e <= created'
         /\ row'[e] # row[e] => Create(p) \/ Commit(p)
  <1>1. /\ created \in Nat /\ created' \in Nat /\ created <= created' /\ e \in Int
        /\ row[e] # None \/ version[e] # None \/ lock[e] # None => e <= created
        /\ tx[p].id \in Ids => tx[p].id <= created
        /\ pc[p] \notin {"idle", "job"} => tx[p].id \in Ids
    BY LocalsKept, BoundsAssumption DEF Made, Ids, IInv, TypeOK
  <1>2. CASE UNCHANGED <<row, version, lock>>
    BY <1>1, <1>2
  <1>3. CASE Fail(p) /\ UNCHANGED row
    <2>1. IF lock[e] = p THEN version'[e] = row[e] /\ lock'[e] = None
                         ELSE version'[e] = version[e] /\ lock'[e] = lock[e]
      BY <1>3, FailLocals
    <2> QED BY <1>1, <1>3, <2>1
  <1>4. ASSUME NEW f \in Ids, NEW v, Write(p, f, v), Free(p, f), f <= created, UNCHANGED row
        PROVE  /\ lock[e] \notin {None, p} => lock'[e] = lock[e] /\ version'[e] = version[e] /\ row'[e] = row[e]
               /\ lock'[e] \in {lock[e], None, p}
               /\ (row'[e] # None \/ version'[e] # None \/ lock'[e] # None) => e <= created'
               /\ row'[e] = row[e]
    BY <1>1, <1>4 DEF Write, Free, IInv, TypeOK
  <1>5. CASE Create(p)
    <2>1. lock' = lock /\ created' = created + 1
      BY <1>5 DEF Create
    <2>2. created' # e => row'[e] = row[e] /\ version'[e] = version[e]
      BY <1>5 DEF Create, IInv, TypeOK
    <2>3. lock[e] # None => created' # e
      BY <1>1, <2>1
    <2>4. created' = e => e <= created'
      BY <1>1
    <2> QED BY <1>1, <1>5, <2>1, <2>2, <2>3, <2>4
  <1>6. CASE UpdateRow(p) \/ DeleteRow(p)
    <2>1. \/ Fail(p) /\ UNCHANGED row
          \/ Write(p, tx[p].id, Changed(row[tx[p].id], tx[p])) /\ Free(p, tx[p].id) /\ UNCHANGED row
          \/ Write(p, tx[p].id, None) /\ Free(p, tx[p].id) /\ UNCHANGED row
      BY <1>6 DEF UpdateRow, DeleteRow
    <2>2. tx[p].id \in Ids /\ tx[p].id <= created
      BY <1>1, <1>6 DEF UpdateRow, DeleteRow
    <2> QED BY <1>3, <1>4, <2>1, <2>2 
  <1>7. CASE ArchiveRow(p)
    <2>1. PICK f \in tx[p].left :
            /\ Free(p, f)
            /\ IF Outdated(tx[p].seen, View(p)[f])
                 THEN Write(p, f, [View(p)[f] EXCEPT !.status = "Archived"])
                 ELSE UNCHANGED <<version, lock>>
      BY <1>7 DEF ArchiveRow
    <2>2. f \in Ids
      BY DEF IInv, TypeOK, Tx
    <2>3. CASE Outdated(tx[p].seen, View(p)[f])
      <3>1. f <= created
        BY <2>2, <2>3 DEF Outdated, View, Made
      <3> QED BY <1>4, <1>7, <2>1, <2>2, <2>3, <3>1 DEF ArchiveRow
    <2>4. CASE ~Outdated(tx[p].seen, View(p)[f])
      BY <1>2, <1>7, <2>1, <2>4 DEF ArchiveRow
    <2> QED BY <2>3, <2>4
  <1>8. CASE Commit(p)
    BY <1>1, <1>8 DEF Commit, View, ReleasedLocks, IInv, TypeOK
  <1>9. CASE CheckMethod(p) \/ MailFails(p) \/ Abort(p)
    BY <1>2, <1>3, <1>9 DEF CheckMethod, MailFails, Abort
  <1>10. CASE \/ BeginUpdate(p) \/ BeginDelete(p) \/ BeginBooking(p) \/ BeginPrebooking(p) \/ BeginJob(p)
              \/ Archive(p) \/ Archived(p) \/ Insert(p) \/ FinishNext(p) \/ MailSent(p)
    BY <1>2, <1>10 DEF BeginUpdate, BeginDelete, BeginBooking, BeginPrebooking, BeginJob,
                       Archive, Archived, Insert, FinishNext, MailSent
  <1> QED BY <1>5, <1>6, <1>7, <1>8, <1>9, <1>10 DEF Acts, Serve

LEMMA MadeStep ==
  ASSUME IInv, Made, [Next]_vars
  PROVE  Made'
  <1>1. ASSUME NEW p \in Workers, Acts(p) PROVE Made'
    <2>1. ASSUME NEW q \in Workers, q # p
          PROVE  /\ tx'[q].id <= created' /\ \A e \in jobs'[q] : e <= created'
                 /\ pc'[q] \notin {"idle", "job"} => tx'[q].id \in Ids
      <3>1. tx[q].id \in Int /\ \A e \in jobs[q] : e \in Int
        BY BoundsAssumption DEF IInv, TypeOK, Tx, Ids
      <3> QED BY <1>1, <2>1, <3>1, LocalsKept DEF Made
    <2> QED BY <1>1, <2>1, OwnMade, RowsOfOthers DEF Made
  <1>2. ASSUME NEW e \in Ids, DatesPass(e) PROVE Made'
    BY <1>2 DEF DatesPass, Made, IInv, TypeOK
  <1>3. CASE UNCHANGED vars
    BY <1>3 DEF vars, Made
  <1> QED BY <1>1, <1>2, <1>3 DEF Next, Acts

\* What a step writes, as a step of its own request.
LEMMA OwnWritten ==
  ASSUME IInv, UInv, NEW p \in Workers, Acts(p)
  PROVE  /\ \A e \in Ids : lock'[e] = p => pc'[p] \in {"archive", "archiving", "commit"}
         /\ (pc'[p] = "commit" /\ tx'[p].change # NoChange /\ ~ClosesNow(tx'[p].change)) =>
              LET e == tx'[p].id
                  c == tx'[p].change
              IN  /\ lock'[e] = p
                  /\ version'[e].name = Or(c.name, row'[e].name)
                  /\ version'[e].status = Or(c.status, row'[e].status)
                  /\ version'[e].method = Or(c.method, row'[e].method)
  <1>1. /\ \A e \in Ids : lock[e] = p => pc[p] \in {"archive", "archiving", "commit"}
        /\ tx[p] \in Tx /\ tx \in [Workers -> Tx] /\ pc \in [Workers -> States]
        /\ pc[p] \notin {"idle", "job"} => tx[p].id \in Ids
        /\ p # None
    BY WorkersAssumption DEF UInv, Made, Written, IInv, TypeOK
  <1>2. CASE Fail(p)
    BY <1>1, <1>2, FailLocals
  <1>3. ASSUME pc[p] \notin {"archive", "archiving", "commit"}, pc'[p] # "commit", lock' = lock
        PROVE  (\A e \in Ids : lock'[e] # p) /\ pc'[p] # "commit"
    BY <1>1, <1>3
  <1>4. CASE UpdateRow(p) /\ ~Fail(p)
    <2> DEFINE e == tx[p].id
    <2>1. /\ Write(p, e, Changed(row[e], tx[p])) /\ UNCHANGED <<tx, row>>
          /\ pc'[p] \in {"archive", "commit"} /\ e \in Ids
      BY <1>1, <1>4 DEF UpdateRow
    <2>2. lock'[e] = p /\ version'[e] = Changed(row[e], tx[p])
      BY <2>1 DEF Write, IInv, TypeOK
    <2> QED BY <2>1, <2>2 DEF Changed
  <1>5. CASE DeleteRow(p) /\ ~Fail(p)
    <2>1. pc[p] = "delete" /\ pc'[p] = "commit" /\ tx' = tx
      BY <1>1, <1>5 DEF DeleteRow
    <2>2. tx[p].change = NoChange
      BY <2>1 DEF UInv, Written
    <2> QED BY <2>1, <2>2
  <1>6. CASE Archive(p) \/ ArchiveRow(p) \/ Archived(p)
    <2>1. pc[p] \in {"archive", "archiving"} /\ pc'[p] \in {"archive", "archiving", "commit"}
      BY <1>1, <1>6 DEF Archive, ArchiveRow, Archived
    <2>2. \E S, v : \/ tx' = [tx EXCEPT ![p].left = S]
                   \/ tx' = [tx EXCEPT ![p].seen = v]
                   \/ tx' = [tx EXCEPT ![p].seen = v, ![p].left = S]
      BY <1>6 DEF Archive, ArchiveRow, Archived
    <2>3. tx'[p].change = tx[p].change
      BY <1>1, <2>2 DEF Tx
    <2>4. ClosesNow(tx[p].change)
      BY <2>1 DEF UInv, Written
    <2> QED BY <2>1, <2>3, <2>4
  <1>7. CASE Commit(p)
    <2>1. pc'[p] # "commit" /\ \A e \in Ids : lock'[e] # p
      BY <1>1, <1>7 DEF Commit, After, ReleasedLocks
    <2> QED BY <2>1
  <1>8. CASE CheckMethod(p) /\ ~Fail(p)
    BY <1>1, <1>3, <1>8 DEF CheckMethod, BuildUpdate
  <1>9. CASE Create(p) \/ BeginUpdate(p) \/ BeginDelete(p) \/ BeginBooking(p) \/ BeginPrebooking(p) \/ BeginJob(p)
    <2>1. pc[p] = "idle" /\ pc'[p] # "commit" /\ lock' = lock
      BY <1>1, <1>9 DEF Create, BeginUpdate, BeginDelete, BeginBooking, BeginPrebooking, BeginJob, BuildUpdate
    <2> QED BY <1>3, <2>1
  <1>10. CASE Insert(p) \/ FinishNext(p) \/ MailSent(p)
    <2>1. pc[p] \in {"book", "job", "mail"} /\ pc'[p] # "commit" /\ lock' = lock
      BY <1>1, <1>10 DEF Insert, FinishNext, MailSent, BuildUpdate
    <2> QED BY <1>3, <2>1
  <1> QED BY <1>2, <1>4, <1>5, <1>6, <1>7, <1>8, <1>9, <1>10 DEF Acts, Serve, MailFails, Abort

\* What a deletion and an archiving update keep in their locals.
LEMMA OwnKind ==
  ASSUME IInv, UInv, NEW p \in Workers, Acts(p)
  PROVE  /\ pc'[p] = "delete" => tx'[p].change = NoChange
         /\ pc'[p] \in {"archive", "archiving"} => ClosesNow(tx'[p].change)
  <1>1. /\ tx[p] \in Tx /\ tx \in [Workers -> Tx] /\ pc \in [Workers -> States]
        /\ pc[p] = "delete" => tx[p].change = NoChange
        /\ pc[p] \in {"archive", "archiving"} => ClosesNow(tx[p].change)
    BY DEF UInv, Written, IInv, TypeOK
  <1>2. CASE BeginDelete(p)
    BY <1>1, <1>2 DEF BeginDelete, NoTx
  <1>3. CASE UpdateRow(p) /\ ~Fail(p)
    BY <1>1, <1>3 DEF UpdateRow
  <1>4. CASE Archive(p) \/ ArchiveRow(p) \/ Archived(p)
    <2>1. pc[p] \in {"archive", "archiving"} /\ pc'[p] # "delete"
      BY <1>1, <1>4 DEF Archive, ArchiveRow, Archived
    <2>2. \E S, v : \/ tx' = [tx EXCEPT ![p].left = S]
                   \/ tx' = [tx EXCEPT ![p].seen = v]
                   \/ tx' = [tx EXCEPT ![p].seen = v, ![p].left = S]
      BY <1>4 DEF Archive, ArchiveRow, Archived
    <2>3. tx'[p].change = tx[p].change
      BY <1>1, <2>2 DEF Tx
    <2> QED BY <1>1, <2>1, <2>3
  <1>5. CASE Fail(p)
    BY <1>5, FailLocals
  <1>6. CASE Create(p)
    BY <1>1, <1>6 DEF Create
  <1>7. CASE \/ BeginUpdate(p) \/ BeginBooking(p) \/ BeginPrebooking(p) \/ BeginJob(p) \/ (CheckMethod(p) /\ ~Fail(p))
             \/ (DeleteRow(p) /\ ~Fail(p)) \/ Insert(p) \/ FinishNext(p) \/ MailSent(p) \/ Commit(p)
    <2>1. pc'[p] \notin {"delete", "archive", "archiving"}
      BY <1>1, <1>7 DEF BeginUpdate, BeginBooking, BeginPrebooking, BeginJob, CheckMethod, BuildUpdate,
                        DeleteRow, Insert, FinishNext, MailSent, Commit, After
    <2> QED BY <2>1
  <1> QED BY <1>2, <1>3, <1>4, <1>5, <1>6, <1>7 DEF Acts, Serve, MailFails, Abort

LEMMA WrittenStep ==
  ASSUME IInv, UInv, [Next]_vars
  PROVE  Written'
  <1>1. ASSUME NEW p \in Workers, Acts(p) PROVE Written'
    <2>1. ASSUME NEW q \in Workers, q # p
          PROVE  /\ pc'[q] = "delete" => tx'[q].change = NoChange
                 /\ pc'[q] \in {"archive", "archiving"} => ClosesNow(tx'[q].change)
                 /\ \A e \in Ids : lock'[e] = q => pc'[q] \in {"archive", "archiving", "commit"}
                 /\ (pc'[q] = "commit" /\ tx'[q].change # NoChange /\ ~ClosesNow(tx'[q].change)) =>
                      LET e == tx'[q].id
                          c == tx'[q].change
                      IN  /\ lock'[e] = q
                          /\ version'[e].name = Or(c.name, row'[e].name)
                          /\ version'[e].status = Or(c.status, row'[e].status)
                          /\ version'[e].method = Or(c.method, row'[e].method)
      <3>1. pc'[q] = pc[q] /\ tx'[q] = tx[q] /\ q # None
        BY <1>1, <2>1, LocalsKept, WorkersAssumption
      <3>2. \A e \in Ids : lock'[e] = q => lock[e] = q
        BY <1>1, <2>1, <3>1, RowsOfOthers DEF UInv
      <3>3. ASSUME pc[q] = "commit" PROVE tx[q].id \in Ids
        BY <3>3 DEF UInv, Made
      <3>4. \A e \in Ids : lock[e] = q => lock'[e] = lock[e] /\ version'[e] = version[e] /\ row'[e] = row[e]
        BY <1>1, <2>1, <3>1, RowsOfOthers DEF UInv
      <3>5. /\ pc[q] = "delete" => tx[q].change = NoChange
            /\ pc[q] \in {"archive", "archiving"} => ClosesNow(tx[q].change)
            /\ \A e \in Ids : lock[e] = q => pc[q] \in {"archive", "archiving", "commit"}
        BY DEF UInv, Written
      <3>6. (pc[q] = "commit" /\ tx[q].change # NoChange /\ ~ClosesNow(tx[q].change)) =>
               LET e == tx[q].id
                   c == tx[q].change
               IN  /\ lock[e] = q
                   /\ version[e].name = Or(c.name, row[e].name)
                   /\ version[e].status = Or(c.status, row[e].status)
                   /\ version[e].method = Or(c.method, row[e].method)
        BY DEF UInv, Written
      <3> DEFINE c == tx[q].change
                 e == tx[q].id
                 Open == pc[q] = "commit" /\ c # NoChange /\ ~ClosesNow(c)
      <3>7. tx'[q].change = c /\ tx'[q].id = e
        BY <3>1
      <3>8. Open => e \in Ids /\ lock[e] = q
        BY <3>3, <3>6
      <3>9. Open => /\ lock'[e] = q
                    /\ version'[e].name = Or(c.name, row'[e].name)
                    /\ version'[e].status = Or(c.status, row'[e].status)
                    /\ version'[e].method = Or(c.method, row'[e].method)
        <4> HIDE DEF c
        <4> QED BY <3>4, <3>6, <3>8 DEF c
      <3>10. pc'[q] = "delete" => tx'[q].change = NoChange
        BY <3>1, <3>5
      <3>11. pc'[q] \in {"archive", "archiving"} => ClosesNow(tx'[q].change)
        BY <3>1, <3>5
      <3>12. \A f \in Ids : lock'[f] = q => pc'[q] \in {"archive", "archiving", "commit"}
        BY <3>1, <3>2, <3>5
      <3>13. (pc'[q] = "commit" /\ tx'[q].change # NoChange /\ ~ClosesNow(tx'[q].change)) => Open
        BY <3>1
      <3> HIDE DEF c, e, Open
      <3> QED BY <3>7, <3>9, <3>10, <3>11, <3>12, <3>13
    <2> QED BY <1>1, <2>1, OwnWritten, OwnKind DEF Written
  <1>2. ASSUME NEW e \in Ids, DatesPass(e) PROVE Written'
    <2>1. UNCHANGED <<pc, tx, lock>> /\ lock[e] = None
      BY <1>2 DEF DatesPass
    <2>2. \A f \in Ids : f # e => row'[f] = row[f] /\ version'[f] = version[f]
      BY <1>2 DEF DatesPass, IInv, TypeOK
    <2>3. \A p \in Workers : pc[p] = "commit" => tx[p].id \in Ids /\ p # None
      BY WorkersAssumption DEF UInv, Made
    <2>4. \A f \in Ids : lock[f] # None => row'[f] = row[f] /\ version'[f] = version[f]
      BY <2>1, <2>2
    <2> QED BY <2>1, <2>3, <2>4 DEF UInv, Written
  <1>3. CASE UNCHANGED vars
    BY <1>3 DEF vars, UInv, Written
  <1> QED BY <1>1, <1>2, <1>3 DEF Next, Acts

LEMMA UInvariant == Spec => []UInv
  <1>1. Init => UInv
    BY BoundsAssumption, WorkersAssumption DEF Init, UInv, Made, Written, NoTx
  <1>2. IInv /\ UInv /\ [Next]_vars => UInv'
    BY MadeStep, WrittenStep DEF UInv
  <1> QED BY <1>1, <1>2, IInvariant, PTL DEF Spec

\* Of two updates the second one goes on with what the first has written: for any number
\* of administrators, jobs and events, no column that is not part of a change is set back.
THEOREM UpdatesKept == Spec => NoLostUpdate
  <1> DEFINE A == \A p \in Workers, e \in Ids :
               (Commit(p) /\ e = tx[p].id /\ tx[p].change # NoChange /\ ~ClosesNow(tx[p].change))
                 => \A column \in {"name", "status", "method"} :
                      row'[e][column] = IF tx[p].change[column] = Keep THEN row[e][column] ELSE tx[p].change[column]
  <1>1. ASSUME IInv, UInv PROVE A
    <2> SUFFICES ASSUME NEW p \in Workers, NEW e \in Ids, Commit(p), e = tx[p].id,
                        tx[p].change # NoChange, ~ClosesNow(tx[p].change)
                 PROVE  \A column \in {"name", "status", "method"} :
                          row'[e][column] = IF tx[p].change[column] = Keep THEN row[e][column] ELSE tx[p].change[column]
      BY DEF A
    <2> DEFINE c == tx[p].change
    <2>1. /\ lock[e] = p
          /\ version[e].name = Or(c.name, row[e].name)
          /\ version[e].status = Or(c.status, row[e].status)
          /\ version[e].method = Or(c.method, row[e].method)
      <3>1. pc[p] = "commit"
        BY DEF Commit
      <3> QED BY <1>1, <3>1 DEF UInv, Written
    <2>2. row'[e] = version[e]
      BY <2>1 DEF Commit, View
    <2> QED BY <2>1, <2>2 DEF Or
  <1>2. IInv /\ UInv /\ [Next]_vars => [A]_vars
    BY <1>1
  <1> QED BY <1>2, IInvariant, UInvariant, PTL DEF Spec, NoLostUpdate

-----------------------------------------------------------------------------
(* One request at a time                                                    *)

\* Before the only request has written, the newest versions are the committed ones.
LEMMA NothingLocked ==
  ASSUME IInv, UInv, NEW w, Workers = {w}, pc[w] \notin {"archive", "archiving", "commit"}
  PROVE  version = row /\ \A e \in Ids : lock[e] = None
  <1>1. \A e \in Ids : lock[e] = None
    BY DEF UInv, Written, IInv, TypeOK
  <1>2. \A e \in Ids : version[e] = row[e]
    BY <1>1 DEF IInv, Kept
  <1> QED BY <1>1, <1>2 DEF IInv, TypeOK

\* A step that writes no row, and leaves the bookings alone.
LEMMA SameRowsSerial ==
  ASSUME SInv, UNCHANGED <<row, version, ibans>>, ReadsOK'
  PROVE  SInv'
  BY DEF SInv, Debits

LEMMA SerialStep ==
  ASSUME IInv, UInv, SInv, NEW w, Workers = {w}, [Next]_vars
  PROVE  SInv'
  <1> DEFINE ReadOK ==
        LET now == row[tx[w].id] IN
          /\ pc[w] = "book" /\ now # None /\ now.method = "SepaDirectDebit" => tx[w].iban
          /\ pc[w] = "update" /\ now # None /\ tx[w].change.method # Keep
               => ibans[tx[w].id] = {} \/ tx[w].change.method = now.method
  <1>1. /\ ReadOK /\ (ReadOK' => ReadsOK') /\ w \in Workers /\ w # None
        /\ tx \in [Workers -> Tx] /\ tx[w] \in Tx /\ pc \in [Workers -> States]
        /\ pc[w] \notin {"idle", "job"} => tx[w].id \in Ids
        /\ row \in [Ids -> Row \cup {None}] /\ version \in [Ids -> Row \cup {None}]
    BY WorkersAssumption DEF SInv, ReadsOK, IInv, TypeOK, UInv, Made
  <1>2. ASSUME pc'[w] \notin {"book", "update"} PROVE ReadsOK'
    BY <1>1, <1>2
  <1> HIDE DEF ReadOK
  <1>3. CASE Create(w)
    <2>1. PICK new \in NewEvents : /\ row' = [row EXCEPT ![created'] = new]
                                   /\ version' = [version EXCEPT ![created'] = new]
      BY <1>3 DEF Create
    <2>2. new # None /\ pc[w] = "idle" /\ pc' = pc /\ created' = created + 1 /\ ibans' = ibans
      BY <1>3, ChangesAssumption, ConstantsAssumption DEF Create
    <2>3. \A e \in Ids : ibans[e] # {} => e # created'
      BY <2>2, BoundsAssumption DEF IInv, Kept, UInv, Made, TypeOK, Ids
    <2>4. \A e \in Ids : e # created' => row'[e] = row[e] /\ version'[e] = version[e]
      BY <1>1, <2>1
    <2>5. \A e \in Ids : e = created' => version'[e] # None
      BY <1>1, <2>1, <2>2
    <2>6. ReadsOK'
      BY <1>2, <2>2
    <2> QED BY <2>2, <2>3, <2>4, <2>5, <2>6 DEF SInv, Debits
  <1>4. CASE BeginUpdate(w)
    <2>1. PICK e \in Ids, c \in Changes :
            /\ pc' = [pc EXCEPT ![w] = "method"] \/ c.method = Keep
            /\ \/ BuildUpdate(w, [NoTx EXCEPT !.id = e, !.change = c])
               \/ pc' = [pc EXCEPT ![w] = "method"]
      BY <1>4 DEF BeginUpdate
    <2>2. [NoTx EXCEPT !.id = e, !.change = c] \in Tx
      BY NoTxTyped, ChangesAssumption, IdsTyped DEF Tx
    <2>3. pc'[w] = "update" => tx'[w].change.method = Keep
      BY <1>1, <2>1, <2>2, BuildLocals DEF NoTx
    <2>4. pc'[w] \in {"method", "update"}
      BY <1>1, <2>1 DEF BuildUpdate
    <2>5. ReadOK'
      BY <2>3, <2>4 DEF ReadOK
    <2> QED BY <1>1, <1>4, <2>5, SameRowsSerial DEF BeginUpdate
  <1>5. CASE Fail(w) /\ UNCHANGED <<row, ibans>>
    <2>1. \A e \in Ids : version'[e] = row[e]
      BY <1>1, <1>5, FailLocals DEF IInv, Kept, TypeOK
    <2>2. ReadsOK'
      BY <1>1, <1>2, <1>5, FailLocals
    <2> QED BY <1>5, <2>1, <2>2 DEF SInv, Debits
  <1>6. CASE CheckMethod(w) /\ ~Fail(w)
    <2>1. /\ pc'[w] = "update" /\ tx'[w].id = tx[w].id /\ tx'[w].change = tx[w].change
          /\ MayChangeMethod(w) /\ UNCHANGED <<row, version, ibans>>
      BY <1>1, <1>6, BuildLocals DEF CheckMethod
    <2>2. ReadOK'
      BY <2>1 DEF ReadOK, MayChangeMethod
    <2> QED BY <1>1, <2>1, <2>2, SameRowsSerial
  <1>7. CASE UpdateRow(w) /\ ~Fail(w)
    <2> DEFINE e == tx[w].id
               v == Changed(row[e], tx[w])
    <2>1. /\ pc[w] = "update" /\ Write(w, e, v) /\ row[e] # None /\ e \in Ids
          /\ pc'[w] \in {"archive", "commit"} /\ UNCHANGED <<row, ibans>>
      BY <1>1, <1>7 DEF UpdateRow
    <2>2. v \in Row /\ v # None
      BY <1>1, <2>1, ChangedTyped, ConstantsAssumption
    <2>3. v.method = Or(tx[w].change.method, row[e].method)
      BY DEF Changed
    <2>4. v.method = "SepaDirectDebit" => FALSE \notin ibans[e]
      <3>1. row[e].method = "SepaDirectDebit" => FALSE \notin ibans[e]
        BY <2>1 DEF SInv, Debits
      <3>2. tx[w].change.method = Keep \/ ibans[e] = {} \/ tx[w].change.method = row[e].method
        BY <1>1, <2>1 DEF ReadOK
      <3> HIDE DEF v
      <3> QED BY <2>3, <3>1, <3>2 DEF Or
    <2> HIDE DEF v
    <2>5. version'[e] = v /\ \A f \in Ids : f # e => version'[f] = version[f]
      BY <1>1, <2>1 DEF Write
    <2>6. ReadsOK'
      BY <1>2, <2>1
    <2> QED BY <2>1, <2>2, <2>4, <2>5, <2>6 DEF SInv, Debits
  <1>8. CASE ArchiveRow(w)
    <2>1. PICK e \in tx[w].left :
            IF Outdated(tx[w].seen, View(w)[e])
              THEN Write(w, e, [View(w)[e] EXCEPT !.status = "Archived"])
              ELSE UNCHANGED <<version, lock>>
      BY <1>8 DEF ArchiveRow
    <2>2. e \in Ids /\ pc' = pc /\ pc[w] = "archiving" /\ UNCHANGED <<row, ibans>>
      BY <1>1, <1>8 DEF ArchiveRow, Tx
    <2>3. ReadsOK'
      BY <1>2, <2>2
    <2>4. CASE Outdated(tx[w].seen, View(w)[e])
      <3> DEFINE r == View(w)[e]
                 v == [r EXCEPT !.status = "Archived"]
      <3>1. r \in Row /\ r = version[e]
        BY <1>1, <2>2, <2>4, ViewTyped DEF Outdated, View, IInv, Kept, TypeOK
      <3>2. v \in Row /\ v.method = r.method
        <4> HIDE DEF r
        <4> QED BY <3>1 DEF Row, Statuses
      <3>3. Write(w, e, v)
        BY <2>1, <2>4
      <3> HIDE DEF r, v
      <3>4. version'[e] = v /\ \A f \in Ids : f # e => version'[f] = version[f]
        BY <1>1, <2>2, <3>3 DEF Write
      <3> QED BY <2>2, <2>3, <3>1, <3>2, <3>4, ConstantsAssumption DEF SInv, Debits
    <2>5. CASE ~Outdated(tx[w].seen, View(w)[e])
      BY <2>1, <2>2, <2>3, <2>5, SameRowsSerial
    <2> QED BY <2>4, <2>5
  <1>9. CASE BeginDelete(w)
    <2>1. pc'[w] = "delete" /\ UNCHANGED <<row, version, ibans>>
      BY <1>1, <1>9 DEF BeginDelete
    <2> QED BY <1>2, <2>1, SameRowsSerial
  <1>10. CASE DeleteRow(w) /\ ~Fail(w)
    <2> DEFINE e == tx[w].id
    <2>1. /\ pc[w] = "delete" /\ Write(w, e, None) /\ e \in Ids
          /\ pc'[w] = "commit" /\ UNCHANGED <<row, ibans>>
      BY <1>1, <1>10 DEF DeleteRow
    <2>2. version'[e] = None /\ \A f \in Ids : f # e => version'[f] = version[f]
      BY <1>1, <2>1 DEF Write
    <2>3. ReadsOK'
      BY <1>2, <2>1
    <2> QED BY <2>1, <2>2, <2>3 DEF SInv, Debits
  <1>11. CASE BeginBooking(w)
    <2>1. PICK e \in Ids : tx' = [tx EXCEPT ![w] = [NoTx EXCEPT !.id = e, !.iban = (row[e].method = "SepaDirectDebit")]]
      BY <1>11 DEF BeginBooking
    <2>2. /\ pc'[w] = "book" /\ tx'[w].id = e /\ UNCHANGED <<row, version, ibans>>
          /\ tx'[w].iban = (row[e].method = "SepaDirectDebit")
      BY <1>1, <1>11, <2>1 DEF BeginBooking, NoTx
    <2>3. ReadOK'
      BY <2>2 DEF ReadOK
    <2> QED BY <1>1, <2>2, <2>3, SameRowsSerial
  <1>12. CASE BeginPrebooking(w)
    <2>1. PICK e \in Ids, given \in BOOLEAN :
            tx' = [tx EXCEPT ![w] = [NoTx EXCEPT !.id = e, !.iban = (given \/ row[e].method = "SepaDirectDebit")]]
      BY <1>12 DEF BeginPrebooking
    <2>2. /\ pc'[w] = "book" /\ tx'[w].id = e /\ UNCHANGED <<row, version, ibans>>
          /\ tx'[w].iban = (given \/ row[e].method = "SepaDirectDebit")
      BY <1>1, <1>12, <2>1 DEF BeginPrebooking, NoTx
    <2>3. ReadOK'
      BY <2>2 DEF ReadOK
    <2> QED BY <1>1, <2>2, <2>3, SameRowsSerial
  <1>13. CASE Insert(w)
    <2> DEFINE e == tx[w].id
    <2>1. /\ pc[w] = "book" /\ pc'[w] = "idle" /\ e \in Ids /\ UNCHANGED <<row, version>>
          /\ \/ ibans' = [ibans EXCEPT ![e] = @ \cup {tx[w].iban}] /\ row[e] # None
             \/ ibans' = ibans
      BY <1>1, <1>13 DEF Insert
    <2>2. version = row
      BY <2>1, NothingLocked
    <2>3. row[e] # None /\ row[e].method = "SepaDirectDebit" => tx[w].iban
      BY <1>1, <2>1 DEF ReadOK
    <2>4. Debits(row)'
      <3>1. CASE ibans' = ibans
        BY <2>1, <3>1 DEF SInv, Debits
      <3>2. CASE ibans' = [ibans EXCEPT ![e] = @ \cup {tx[w].iban}]
        <4>1. ibans'[e] = ibans[e] \cup {tx[w].iban} /\ \A f \in Ids : f # e => ibans'[f] = ibans[f]
          BY <2>1, <3>2 DEF IInv, TypeOK
        <4>2. tx[w].iban \in BOOLEAN
          BY <1>1 DEF Tx
        <4> QED BY <2>1, <2>3, <4>1, <4>2 DEF SInv, Debits
      <3> QED BY <2>1, <3>1, <3>2
    <2>5. ReadsOK'
      BY <1>2, <2>1
    <2> QED BY <2>1, <2>2, <2>4, <2>5 DEF SInv
  <1>14. CASE FinishNext(w) \/ MailSent(w)
    <2>1. UNCHANGED <<row, version, ibans>> /\ pc'[w] \in {"update", "idle"}
      BY <1>1, <1>14 DEF FinishNext, MailSent, BuildUpdate
    <2>2. pc'[w] = "update" => tx'[w].change.method = Keep
      <3>1. ASSUME NEW e \in 0..MaxEvents, NEW s \in {"Finished", "Closed"}, BuildUpdate(w, JobTx(e, s))
            PROVE  tx'[w].change.method = Keep
        <4>1. JobTx(e, s) \in Tx
          BY <3>1, JobTxTyped DEF Statuses
        <4>2. JobTx(e, s).change.method = Keep
          BY DEF JobTx, NoTx, NoChange
        <4> QED BY <1>1, <3>1, <4>1, <4>2, BuildLocals
      <3>2. \A e \in jobs[w] : e \in 0..MaxEvents
        BY <1>1, IdsTyped DEF IInv, TypeOK
      <3>3. tx[w].id \in 0..MaxEvents
        BY <1>1 DEF Tx
      <3>4. pc'[w] = "update" => \E e \in 0..MaxEvents, s \in {"Finished", "Closed"} : BuildUpdate(w, JobTx(e, s))
        BY <1>1, <1>14, <3>2, <3>3 DEF FinishNext, MailSent
      <3> QED BY <3>1, <3>4
    <2>3. ReadOK'
      BY <2>1, <2>2 DEF ReadOK
    <2> QED BY <1>1, <2>1, <2>3, SameRowsSerial
  <1>15. CASE Archive(w) \/ Archived(w) \/ BeginJob(w)
    <2>1. UNCHANGED <<row, version, ibans>> /\ pc'[w] \in {"archiving", "commit", "job"}
      BY <1>1, <1>15 DEF Archive, Archived, BeginJob
    <2> QED BY <1>2, <2>1, SameRowsSerial
  <1>16. CASE Commit(w)
    <2>1. pc'[w] \in {"idle", "mail", "job"} /\ UNCHANGED <<version, ibans>>
      BY <1>1, <1>16 DEF Commit, After
    <2>2. \A e \in Ids : row'[e] = version[e]
      BY <1>1, <1>16 DEF Commit, View, IInv, Kept, TypeOK
    <2>3. ReadsOK'
      BY <1>2, <2>1
    <2> QED BY <2>1, <2>2, <2>3 DEF SInv, Debits
  <1>17. ASSUME NEW e \in Ids, DatesPass(e) PROVE SInv'
    <2>1. /\ row' = [row EXCEPT ![e].over = TRUE] /\ version' = [version EXCEPT ![e].over = TRUE]
          /\ UNCHANGED <<ibans, pc, tx>> /\ row[e] \in Row /\ version[e] = row[e]
      BY <1>1, <1>17 DEF DatesPass, IInv, Kept
    <2> DEFINE r == [row[e] EXCEPT !.over = TRUE]
    <2>2. row'[e] = r /\ version'[e] = r /\ r \in Row /\ r.method = row[e].method
      BY <1>1, <2>1 DEF Row
    <2> HIDE DEF r
    <2>3. r # None /\ row[e] # None
      BY <2>1, <2>2, ConstantsAssumption
    <2>4. \A f \in Ids : f # e => row'[f] = row[f] /\ version'[f] = version[f]
      BY <1>1, <2>1
    <2>5. ReadOK'
      <3>1. CASE pc[w] \in {"idle", "job"}
        BY <2>1, <3>1 DEF ReadOK
      <3>2. CASE tx[w].id \in Ids
        BY <1>1, <2>1, <2>2, <2>3, <2>4, <3>2 DEF ReadOK
      <3> QED BY <1>1, <3>1, <3>2
    <2>6. ASSUME NEW f \in Ids
          PROVE  /\ row'[f] # None /\ row'[f].method = "SepaDirectDebit" => FALSE \notin ibans[f]
                 /\ version'[f] # None /\ version'[f].method = "SepaDirectDebit" => FALSE \notin ibans[f]
      <3>1. CASE f = e
        BY <2>2, <2>3, <3>1 DEF SInv, Debits
      <3>2. CASE f # e
        BY <2>4, <3>2 DEF SInv, Debits
      <3> QED BY <3>1, <3>2
    <2>7. ReadsOK' /\ ibans' = ibans
      BY <1>1, <2>1, <2>5
    <2> QED BY <2>6, <2>7 DEF SInv, Debits
  <1>18. CASE UNCHANGED vars
    BY <1>18 DEF vars, SInv, ReadsOK, Debits
  <1>19. CASE Acts(w)
    <2>1. CASE MailFails(w) \/ Abort(w)
      BY <1>5, <2>1 DEF MailFails, Abort
    <2>2. Fail(w) /\ (CheckMethod(w) \/ UpdateRow(w) \/ DeleteRow(w)) => SInv'
      BY <1>5 DEF CheckMethod, UpdateRow, DeleteRow
    <2> QED BY <1>3, <1>4, <1>6, <1>7, <1>8, <1>9, <1>10, <1>11, <1>12, <1>13, <1>14, <1>15, <1>16, <1>19, <2>1, <2>2
            DEF Acts, Serve
  <1> QED BY <1>17, <1>18, <1>19 DEF Next, Acts

LEMMA SInvariant ==
  ASSUME NEW w, Workers = {w} PROVE Spec => []SInv
  <1>1. Init => SInv
    BY DEF Init, SInv, ReadsOK, Debits
  <1>2. IInv /\ UInv /\ SInv /\ [Next]_vars => SInv'
    BY SerialStep
  <1> QED BY <1>1, <1>2, IInvariant, UInvariant, PTL DEF Spec

\* With one request at a time every booking of an event that is paid by direct debit has an IBAN.
THEOREM DebitsBooked ==
  ASSUME NEW w, Workers = {w} PROVE Spec => []DebitsHaveIbans
  <1>1. SInv => DebitsHaveIbans
    BY DEF SInv, Debits, DebitsHaveIbans
  <1> QED BY <1>1, SInvariant, PTL

-----------------------------------------------------------------------------
(* Closing, one request at a time                                           *)

\* The `closed` date is only set by closing.
ClosedByClosing ==
  /\ \A c \in Changes : c.closed = Keep
  /\ \A r \in NewEvents : r.closed = 0 /\ r.status # "Closed"

\* Events are closed at different times, and no later than now.
Dates(rows) ==
  /\ \A e \in Ids : rows[e] # None =>
       rows[e].closed <= clock /\ (rows[e].status = "Closed" => rows[e].closed # 0)
  /\ \A e, f \in Ids :
       rows[e] # None /\ rows[f] # None /\ rows[e].closed # 0 /\ rows[e].closed = rows[f].closed => e = f

OneClosed(rows) ==
  \A e, f \in Ids :
    /\ rows[e] # None /\ rows[e].status = "Closed"
    /\ rows[f] # None /\ rows[f].status = "Closed"
    /\ rows[e].name = rows[f].name
    => e = f

\* What archive_events is done with is not out of date, and was there when it began.
Archiving(p) ==
  /\ tx[p].seen \in [Ids -> Row \cup {None}]
  /\ \A e \in Ids :
       LET old == tx[p].seen[e] IN
         /\ old = None <=> version[e] = None
         /\ version[e] # None =>
              /\ old.name = version[e].name /\ old.closed = version[e].closed
              /\ version[e].status = "Closed" => old.status = "Closed"
              /\ e \notin tx[p].left => ~Outdated(tx[p].seen, version[e])

\* The event that is being closed is the last one that was closed.
ClosingOK ==
  \A p \in Workers :
    /\ tx[p].change.closed = Keep
    /\ (pc[p] \in {"update", "archive", "archiving", "commit"} /\ ClosesNow(tx[p].change)) =>
         LET now == version[tx[p].id] IN
           /\ tx[p].now = clock
           /\ IF pc[p] = "update"
                THEN \A e \in Ids : row[e] # None => row[e].closed < clock
                ELSE now # None /\ now.status = "Closed" /\ now.closed = clock
           /\ pc[p] = "archiving" => Archiving(p)
           /\ pc[p] = "commit" => OneClosed(version)

CInv == ClosingOK /\ Dates(row) /\ Dates(version)

LEMMA NoTxCloses == NoTx.change = NoChange /\ NoChange.closed = Keep /\ NoChange.status = Keep
  BY DEF NoTx, NoChange

LEMMA NoChangeCloses == ~ClosesNow(NoChange)
  BY ConstantsAssumption, NoTxCloses DEF ClosesNow, Statuses

LEMMA RowValues ==
  ASSUME NEW r \in Row
  PROVE  r.closed \in 0..MaxClock /\ r.status \in Statuses /\ r.name \in Names /\ r # None
  BY ConstantsAssumption DEF Row

\* Time does not undo dates, nor does a deletion, nor a row with a status but Closed.
LEMMA DatesLater ==
  ASSUME IInv, NEW rows \in [Ids -> Row \cup {None}], Dates(rows), clock' \in clock..MaxClock,
         NEW next, \A e \in Ids : next[e] # None =>
                     /\ rows[e] # None /\ next[e].closed = rows[e].closed
                     /\ next[e].status = "Closed" => rows[e].status = "Closed"
  PROVE  /\ \A e \in Ids : next[e] # None =>
              next[e].closed <= clock' /\ (next[e].status = "Closed" => next[e].closed # 0)
         /\ \A e, f \in Ids :
              next[e] # None /\ next[f] # None /\ next[e].closed # 0 /\ next[e].closed = next[f].closed => e = f
  <1>1. \A e \in Ids : rows[e] # None => rows[e].closed \in Int
    BY RowValues
  <1>2. clock \in Int /\ clock' \in Int /\ clock <= clock'
    BY DEF IInv, TypeOK
  <1> QED BY <1>1, <1>2 DEF Dates

\* archive_events leaves one Closed event of a name: of two that are left neither is
\* out of date, but they have been closed at different times.
LEMMA NoneOutdated ==
  ASSUME NEW rows \in [Ids -> Row \cup {None}], NEW a \in Ids, NEW b \in Ids, a # b,
         rows[a] # None, rows[a].status = "Closed", rows[b] # None, rows[b].status = "Closed",
         rows[a].name = rows[b].name, rows[a].closed # 0, rows[b].closed # 0, rows[a].closed # rows[b].closed,
         NEW r, NEW s, r # None, s # None, r.status = "Closed", s.status = "Closed",
         r.name = rows[a].name, r.closed = rows[a].closed, s.name = rows[b].name, s.closed = rows[b].closed
  PROVE  Outdated(rows, r) \/ Outdated(rows, s)
  <1>1. rows[a].closed \in Int /\ rows[b].closed \in Int
    BY RowValues
  <1> DEFINE C == ClosedOf(rows, r.name)
  <1>2. a \in C /\ b \in C /\ C \subseteq Ids /\ a \in Named(rows, r.name) /\ b \in Named(rows, r.name)
    BY DEF ClosedOf, Named
  <1>3. Cardinality(C) > 1
    <2>1. IsFiniteSet(Ids)
      BY BoundsAssumption, FS_Interval DEF Ids
    <2>2. IsFiniteSet(C) /\ Cardinality(C) \in Nat
      BY <1>2, <2>1, FS_Subset, FS_CardinalityType
    <2>3. Cardinality({a, b}) = 2 /\ {a, b} \subseteq C
      <3>1. Cardinality({a}) = 1 /\ IsFiniteSet({a})
        BY FS_Singleton
      <3>2. Cardinality({a} \cup {b}) = Cardinality({a}) + 1
        BY <3>1, FS_AddElement
      <3>3. {a} \cup {b} = {a, b}
        OBVIOUS
      <3> QED BY <1>2, <3>1, <3>2, <3>3
    <2>4. Cardinality({a, b}) <= Cardinality(C)
      BY <2>2, <2>3, FS_Subset
    <2> HIDE DEF C
    <2> QED BY <2>2, <2>3, <2>4
  <1> HIDE DEF C
  <1>4. CASE rows[a].closed < rows[b].closed
    BY <1>1, <1>2, <1>3, <1>4 DEF Outdated, C
  <1>5. CASE rows[b].closed < rows[a].closed
    BY <1>1, <1>2, <1>3, <1>5 DEF Outdated, C
  <1> QED BY <1>1, <1>4, <1>5

\* A step after which the request is not about to close, and that keeps all dates.
LEMMA NotClosing ==
  ASSUME IInv, CInv, NEW w, Workers = {w}, clock' = clock, UNCHANGED <<row, version>>,
         tx'[w].change.closed = Keep,
         pc'[w] \notin {"update", "archive", "archiving", "commit"} \/ ~ClosesNow(tx'[w].change)
  PROVE  CInv'
  BY DEF CInv, ClosingOK, Dates

\* A step that takes the date, if one is needed.
LEMMA BuildCloses ==
  ASSUME IInv, UInv, CInv, NEW w, Workers = {w}, NEW t \in Tx, BuildUpdate(w, t), t.change.closed = Keep,
         UNCHANGED <<row, version>>
  PROVE  CInv'
  <1>1. pc'[w] = "update" /\ tx'[w].change = t.change
    BY BuildLocals
  <1>2. clock' \in clock..MaxClock /\ clock \in Int
    BY BoundsAssumption DEF BuildUpdate, IInv, TypeOK
  <1>3. Dates(row)' /\ Dates(version)'
    <2>1. row \in [Ids -> Row \cup {None}] /\ version \in [Ids -> Row \cup {None}]
      BY DEF IInv, TypeOK
    <2> QED BY <1>2, <2>1, DatesLater DEF CInv, Dates
  <1>4. ASSUME ClosesNow(t.change)
        PROVE  tx'[w].now = clock' /\ \A e \in Ids : row'[e] # None => row'[e].closed < clock'
    <2>1. clock' = clock + 1 /\ tx' = [tx EXCEPT ![w] = [t EXCEPT !.now = clock + 1]]
      BY <1>4 DEF BuildUpdate
    <2>2. tx'[w].now = clock + 1
      BY <2>1 DEF IInv, TypeOK, Tx
    <2>3. \A e \in Ids : row[e] # None => row[e].closed \in Int /\ row[e].closed <= clock
      BY RowValues DEF CInv, Dates, IInv, TypeOK
    <2> QED BY <1>2, <2>1, <2>2, <2>3
  <1> QED BY <1>1, <1>3, <1>4 DEF CInv, ClosingOK

\* A step that ends the request leaves what is committed.
LEMMA FailCloses ==
  ASSUME IInv, CInv, NEW w, Workers = {w}, Fail(w), UNCHANGED <<row, clock>>
  PROVE  CInv'
  <1>1. /\ \A e \in Ids : version'[e] = row[e]
        /\ pc'[w] = "idle" /\ tx'[w].change.closed = Keep
    BY FailLocals, NoTxCloses DEF IInv, Kept, TypeOK
  <1>2. Dates(row)' /\ Dates(version)'
    BY <1>1 DEF CInv, Dates
  <1> QED BY <1>1, <1>2 DEF CInv, ClosingOK

\* The UPDATE writes the new date, or keeps the old one.
LEMMA UpdateRowCloses ==
  ASSUME IInv, UInv, CInv, NEW w, Workers = {w}, UpdateRow(w), ~Fail(w)
  PROVE  CInv'
  <1> DEFINE e == tx[w].id
             c == tx[w].change
             v == Changed(row[e], tx[w])
  <1>1. /\ pc[w] = "update" /\ Write(w, e, v) /\ row[e] # None /\ UNCHANGED <<tx, row, clock>>
        /\ pc'[w] = IF ClosesNow(c) THEN "archive" ELSE "commit"
    BY DEF UpdateRow, IInv, TypeOK
  <1>2. e \in Ids /\ tx[w] \in Tx /\ row[e] \in Row /\ c.closed = Keep
    BY <1>1 DEF UInv, Made, IInv, TypeOK, CInv, ClosingOK
  <1>3. version = row
    BY <1>1, NothingLocked
  <1>4. v \in Row /\ v # None
    BY <1>2, ChangedTyped, ConstantsAssumption
  <1>5. version'[e] = v /\ \A f \in Ids : f # e => version'[f] = row[f]
    BY <1>1, <1>2, <1>3 DEF Write, IInv, TypeOK
  <1>6. ClosesNow(c) =>
          /\ v.closed = clock /\ v.status = "Closed" /\ tx[w].now = clock
          /\ \A f \in Ids : row[f] # None => row[f].closed < clock
    <2>1. ClosesNow(c) => v.closed = tx[w].now /\ v.status = "Closed"
      BY ConstantsAssumption DEF Changed, Or, ClosesNow, Statuses
    <2> HIDE DEF v
    <2> QED BY <1>1, <2>1 DEF CInv, ClosingOK
  <1>7. ~ClosesNow(c) => v.closed = row[e].closed /\ (v.status = "Closed" => row[e].status = "Closed")
    BY <1>2 DEF Changed, Or, ClosesNow
  <1> HIDE DEF v
  <1>8. Dates(row)'
    BY <1>1 DEF CInv, Dates
  <1>9. Dates(version)'
    <2>1. clock \in Int /\ \A f \in Ids : row[f] # None => row[f].closed \in Int /\ row[f].closed >= 0
      BY RowValues DEF IInv, TypeOK
    <2>2. CASE ClosesNow(c)
      <3>1. v.closed = clock /\ clock > 0 /\ clock <= clock
        BY <1>1, <1>2, <1>6, <2>1, <2>2
      <3> QED BY <1>1, <1>2, <1>5, <1>6, <2>1, <2>2, <3>1 DEF CInv, Dates
    <2>3. CASE ~ClosesNow(c)
      BY <1>1, <1>2, <1>5, <1>7, <2>3 DEF CInv, Dates
    <2> QED BY <2>2, <2>3
  <1> QED BY <1>1, <1>2, <1>4, <1>5, <1>6, <1>8, <1>9 DEF CInv, ClosingOK

\* What archive_events is going to do is everything that is out of date.
LEMMA ArchiveCloses ==
  ASSUME IInv, UInv, CInv, NEW w, Workers = {w}, Archive(w)
  PROVE  CInv'
  <1>1. /\ pc[w] = "archive" /\ pc'[w] = "archiving" /\ UNCHANGED <<row, version, clock>>
        /\ tx' = [tx EXCEPT ![w].seen = View(w), ![w].left = {e \in Ids : Outdated(View(w), View(w)[e])}]
    BY DEF Archive, IInv, TypeOK
  <1>2. /\ tx'[w].seen = View(w) /\ tx'[w].left = {e \in Ids : Outdated(View(w), View(w)[e])}
        /\ tx'[w].id = tx[w].id /\ tx'[w].change = tx[w].change /\ tx'[w].now = tx[w].now
    BY <1>1 DEF IInv, TypeOK, Tx
  <1>3. \A e \in Ids : View(w)[e] = version[e]
    BY DEF View, IInv, Kept, TypeOK
  <1>4. Archiving(w)'
    <2>1. View(w) \in [Ids -> Row \cup {None}]
      BY ViewTyped DEF IInv
    <2> DEFINE s == tx'[w].seen
    <2>2. \A e \in Ids : s[e] = version'[e] /\ (e \notin tx'[w].left => ~Outdated(s, version'[e]))
      BY <1>1, <1>2, <1>3
    <2>3. s \in [Ids -> Row \cup {None}]
      BY <1>2, <2>1
    <2> SUFFICES ASSUME NEW e \in Ids
                 PROVE  /\ s[e] = None <=> version'[e] = None
                        /\ version'[e] # None =>
                             /\ s[e].name = version'[e].name /\ s[e].closed = version'[e].closed
                             /\ version'[e].status = "Closed" => s[e].status = "Closed"
                             /\ e \notin tx'[w].left => ~Outdated(s, version'[e])
      BY <2>3 DEF Archiving, Outdated, Named, ClosedOf
    <2> HIDE DEF s
    <2> QED BY <2>2
  <1>5. Dates(row)' /\ Dates(version)'
    BY <1>1 DEF CInv, Dates
  <1> QED BY <1>1, <1>2, <1>4, <1>5 DEF CInv, ClosingOK

\* A row that is archived is not the one that is being closed.
LEMMA ArchiveRowCloses ==
  ASSUME IInv, UInv, CInv, NEW w, Workers = {w}, ArchiveRow(w)
  PROVE  CInv'
  <1>1. PICK e \in tx[w].left :
          /\ tx' = [tx EXCEPT ![w].left = @ \ {e}]
          /\ IF Outdated(tx[w].seen, View(w)[e])
               THEN Write(w, e, [View(w)[e] EXCEPT !.status = "Archived"])
               ELSE UNCHANGED <<version, lock>>
    BY DEF ArchiveRow
  <1>2. /\ pc[w] = "archiving" /\ pc' = pc /\ UNCHANGED <<row, clock>> /\ e \in Ids
        /\ tx[w].id \in Ids /\ ClosesNow(tx[w].change)
    BY DEF ArchiveRow, IInv, TypeOK, Tx, UInv, Made, Written
  <1>3. /\ tx'[w].seen = tx[w].seen /\ tx'[w].left = tx[w].left \ {e}
        /\ tx'[w].id = tx[w].id /\ tx'[w].change = tx[w].change /\ tx'[w].now = tx[w].now
    BY <1>1 DEF IInv, TypeOK, Tx
  <1>4. View(w)[e] = version[e]
    BY <1>2 DEF View, IInv, Kept, TypeOK
  <1>5. /\ Archiving(w) /\ tx[w].change.closed = Keep /\ tx[w].now = clock
        /\ version[tx[w].id] # None /\ version[tx[w].id].status = "Closed" /\ version[tx[w].id].closed = clock
    BY <1>2 DEF CInv, ClosingOK
  <1>6. Dates(row)'
    BY <1>2 DEF CInv, Dates
  <1>7. CASE Outdated(tx[w].seen, version[e])
    <2> DEFINE r == version[e]
               v == [r EXCEPT !.status = "Archived"]
    <2>1. r \in Row /\ r # None
      BY <1>2, <1>7, ConstantsAssumption DEF Outdated, IInv, TypeOK
    <2>2. v \in Row /\ v # None /\ v.status = "Archived" /\ v.closed = r.closed /\ v.name = r.name
      <3> HIDE DEF r
      <3>1. v \in Row
        BY <2>1 DEF Row, Statuses
      <3> QED BY <2>1, <3>1, ConstantsAssumption DEF Row
    <2>3. Write(w, e, v)
      BY <1>1, <1>4, <1>7
    <2>4. version'[e] = v /\ \A f \in Ids : f # e => version'[f] = version[f]
      <3> HIDE DEF v
      <3> QED BY <1>2, <2>3 DEF Write, IInv, TypeOK
    <2> HIDE DEF v
    <2>5. tx[w].id # e
      <3>1. PICK f \in Ids : tx[w].seen[f] # None /\ version[e].closed < tx[w].seen[f].closed
        BY <1>7 DEF Outdated, Named
      <3>2. version[f] # None /\ tx[w].seen[f].closed = version[f].closed
        BY <1>5, <3>1 DEF Archiving
      <3>3. version[f].closed <= clock /\ version[f].closed \in Int /\ clock \in Int /\ version[e].closed \in Int
        BY <2>1, <3>2, RowValues DEF CInv, Dates, IInv, TypeOK
      <3> QED BY <1>5, <3>1, <3>2, <3>3
    <2>6. Dates(version)'
      BY <1>2, <2>1, <2>2, <2>4 DEF CInv, Dates
    <2>7. Archiving(w)'
      <3> SUFFICES ASSUME NEW f \in Ids
                   PROVE  /\ tx'[w].seen[f] = None <=> version'[f] = None
                          /\ version'[f] # None =>
                               /\ tx'[w].seen[f].name = version'[f].name /\ tx'[w].seen[f].closed = version'[f].closed
                               /\ version'[f].status = "Closed" => tx'[w].seen[f].status = "Closed"
                               /\ f \notin tx'[w].left => ~Outdated(tx'[w].seen, version'[f])
        BY <1>3, <1>5 DEF Archiving, Outdated, Named, ClosedOf
      <3>1. CASE f = e
        <4>1. ~Outdated(tx[w].seen, v)
          BY <2>2 DEF Outdated
        <4> QED BY <1>2, <1>3, <1>5, <2>1, <2>2, <2>4, <3>1, <4>1 DEF Archiving
      <3>2. CASE f # e
        BY <1>2, <1>3, <1>5, <2>4, <3>2 DEF Archiving
      <3> QED BY <3>1, <3>2
    <2> QED BY <1>2, <1>3, <1>5, <1>6, <2>4, <2>5, <2>6, <2>7 DEF CInv, ClosingOK
  <1>8. CASE ~Outdated(tx[w].seen, version[e])
    <2>1. version' = version
      BY <1>1, <1>4, <1>8
    <2>2. Dates(version)'
      BY <1>2, <2>1 DEF CInv, Dates
    <2>3. \A f \in Ids : f \notin tx[w].left \ {e} => f = e \/ f \notin tx[w].left
      OBVIOUS
    <2>4. Archiving(w)'
      <3> SUFFICES ASSUME NEW f \in Ids
                   PROVE  /\ tx'[w].seen[f] = None <=> version'[f] = None
                          /\ version'[f] # None =>
                               /\ tx'[w].seen[f].name = version'[f].name /\ tx'[w].seen[f].closed = version'[f].closed
                               /\ version'[f].status = "Closed" => tx'[w].seen[f].status = "Closed"
                               /\ f \notin tx'[w].left => ~Outdated(tx'[w].seen, version'[f])
        BY <1>3, <1>5 DEF Archiving, Outdated, Named, ClosedOf
      <3> QED BY <1>3, <1>5, <1>8, <2>1, <2>3 DEF Archiving
    <2> QED BY <1>2, <1>3, <1>5, <1>6, <2>1, <2>2, <2>4 DEF CInv, ClosingOK
  <1> QED BY <1>7, <1>8

\* When archive_events is done, names have one Closed event.
LEMMA ArchivedCloses ==
  ASSUME IInv, UInv, CInv, NEW w, Workers = {w}, Archived(w)
  PROVE  CInv'
  <1>1. /\ pc[w] = "archiving" /\ tx[w].left = {} /\ pc'[w] = "commit"
        /\ tx' = [tx EXCEPT ![w].seen = None] /\ UNCHANGED <<row, version, clock>>
    BY DEF Archived, IInv, TypeOK
  <1>2. tx'[w].id = tx[w].id /\ tx'[w].change = tx[w].change /\ tx'[w].now = tx[w].now
    BY <1>1 DEF IInv, TypeOK, Tx
  <1>3. ClosesNow(tx[w].change) /\ Archiving(w)
    BY <1>1 DEF UInv, Written, CInv, ClosingOK
  <1>4. OneClosed(version)
    <2> SUFFICES ASSUME NEW a \in Ids, NEW b \in Ids, a # b,
                        version[a] # None, version[a].status = "Closed",
                        version[b] # None, version[b].status = "Closed", version[a].name = version[b].name
                 PROVE  FALSE
      BY DEF OneClosed
    <2> DEFINE s == tx[w].seen
    <2>1. /\ s[a] # None /\ s[a].status = "Closed" /\ s[a].name = version[a].name /\ s[a].closed = version[a].closed
          /\ s[b] # None /\ s[b].status = "Closed" /\ s[b].name = version[b].name /\ s[b].closed = version[b].closed
          /\ ~Outdated(s, version[a]) /\ ~Outdated(s, version[b])
      BY <1>1, <1>3 DEF Archiving
    <2>2. s \in [Ids -> Row \cup {None}]
      BY <1>3 DEF Archiving
    <2>3. version[a].closed # 0 /\ version[b].closed # 0 /\ version[a].closed # version[b].closed
      BY DEF CInv, Dates
    <2> HIDE DEF s
    <2> QED BY <2>1, <2>2, <2>3, NoneOutdated
  <1>5. Dates(row)' /\ Dates(version)'
    BY <1>1 DEF CInv, Dates
  <1>6. OneClosed(version)'
    BY <1>1, <1>4 DEF OneClosed
  <1> QED BY <1>1, <1>2, <1>3, <1>5, <1>6 DEF CInv, ClosingOK

\* A new event has no date, an event that is deleted takes its date along.
LEMMA CreateCloses ==
  ASSUME ClosedByClosing, IInv, UInv, CInv, NEW w, Workers = {w}, Create(w)
  PROVE  CInv'
  <1>1. PICK new \in NewEvents : /\ row' = [row EXCEPT ![created'] = new]
                                 /\ version' = [version EXCEPT ![created'] = new]
    BY DEF Create
  <1>2. /\ new.closed = 0 /\ new.status # "Closed" /\ new # None
        /\ pc[w] = "idle" /\ UNCHANGED <<pc, tx, clock>> /\ clock >= 0
    BY <1>1, ChangesAssumption, ConstantsAssumption DEF Create, ClosedByClosing, IInv, TypeOK
  <1>3. \A e \in Ids : \/ e # created' /\ row'[e] = row[e] /\ version'[e] = version[e]
                       \/ e = created' /\ row'[e] = new /\ version'[e] = new
    BY <1>1 DEF IInv, TypeOK
  <1>4. Dates(row)' /\ Dates(version)'
    BY <1>2, <1>3 DEF CInv, Dates
  <1> QED BY <1>2, <1>4 DEF CInv, ClosingOK

LEMMA DeleteRowCloses ==
  ASSUME IInv, UInv, CInv, NEW w, Workers = {w}, DeleteRow(w), ~Fail(w)
  PROVE  CInv'
  <1>1. pc[w] = "delete" /\ Write(w, tx[w].id, None) /\ UNCHANGED <<tx, row, clock>>
    BY DEF DeleteRow
  <1>2. tx[w].change = NoChange
    BY <1>1 DEF UInv, Written
  <1>3. \A e \in Ids : version'[e] \in {None, version[e]}
    BY <1>1 DEF Write, IInv, TypeOK
  <1>4. Dates(row)' /\ Dates(version)'
    BY <1>1, <1>3 DEF CInv, Dates
  <1> QED BY <1>1, <1>2, <1>4, NoTxCloses, NoChangeCloses DEF CInv, ClosingOK

\* What is committed is what was written.
LEMMA CommitCloses ==
  ASSUME IInv, UInv, CInv, NEW w, Workers = {w}, Commit(w)
  PROVE  CInv' /\ \A e \in Ids : row'[e] = version[e]
  <1>1. /\ pc'[w] \in {"idle", "mail", "job"} /\ UNCHANGED <<version, clock>>
        /\ tx'[w] \in {tx[w], NoTx}
    BY DEF Commit, After, IInv, TypeOK
  <1>2. \A e \in Ids : row'[e] = version[e]
    BY DEF Commit, View, IInv, Kept, TypeOK
  <1>3. tx'[w].change.closed = Keep
    BY <1>1, NoTxCloses DEF CInv, ClosingOK
  <1>4. Dates(row)' /\ Dates(version)'
    BY <1>1, <1>2 DEF CInv, Dates
  <1> QED BY <1>1, <1>2, <1>3, <1>4 DEF CInv, ClosingOK

\* Time passes, also between two statements of archive_events.
LEMMA DatesPassCloses ==
  ASSUME IInv, UInv, CInv, NEW w, Workers = {w}, NEW f \in Ids, DatesPass(f)
  PROVE  CInv'
  <1> DEFINE r == [row[f] EXCEPT !.over = TRUE]
  <1>1. /\ row[f] \in Row /\ version[f] = row[f] /\ lock[f] = None /\ UNCHANGED <<clock, pc, tx>>
        /\ row' = [row EXCEPT ![f].over = TRUE] /\ version' = [version EXCEPT ![f].over = TRUE]
    BY DEF DatesPass, IInv, Kept, TypeOK
  <1>2. /\ row'[f] = r /\ version'[f] = r /\ r \in Row
        /\ r.name = row[f].name /\ r.status = row[f].status /\ r.closed = row[f].closed
    BY <1>1 DEF Row, IInv, TypeOK
  <1> HIDE DEF r
  <1>3. \A e \in Ids : e # f => row'[e] = row[e] /\ version'[e] = version[e]
    BY <1>1 DEF IInv, TypeOK
  <1>4. r # None /\ row[f] # None /\ version[f] # None
    BY <1>1, <1>2, ConstantsAssumption
  <1>5. \A e \in Ids : version'[e] = None <=> version[e] = None
    BY <1>2, <1>3, <1>4
  <1>6. \A e \in Ids : version'[e].name = version[e].name /\ version'[e].status = version[e].status
                       /\ version'[e].closed = version[e].closed
    BY <1>1, <1>2, <1>3
  <1>7. \A e \in Ids : (row'[e] = None <=> row[e] = None) /\ row'[e].status = row[e].status /\ row'[e].closed = row[e].closed
    BY <1>1, <1>2, <1>3, <1>4
  <1>8. Dates(row)' /\ Dates(version)'
    BY <1>1, <1>5, <1>6, <1>7 DEF CInv, Dates
  <1>9. ASSUME Archiving(w) PROVE Archiving(w)'
    <2>1. \A e \in Ids : Outdated(tx[w].seen, version'[e]) => Outdated(tx[w].seen, version[e])
      BY <1>5, <1>6 DEF Outdated
    <2> SUFFICES ASSUME NEW e \in Ids
                 PROVE  /\ tx[w].seen[e] = None <=> version'[e] = None
                        /\ version'[e] # None =>
                             /\ tx[w].seen[e].name = version'[e].name /\ tx[w].seen[e].closed = version'[e].closed
                             /\ version'[e].status = "Closed" => tx[w].seen[e].status = "Closed"
                             /\ e \notin tx[w].left => ~Outdated(tx[w].seen, version'[e])
      BY <1>1, <1>9 DEF Archiving, Outdated, Named, ClosedOf
    <2> QED BY <1>5, <1>6, <1>9, <2>1 DEF Archiving
  <1>10. OneClosed(version) => OneClosed(version)'
    BY <1>5, <1>6 DEF OneClosed
  <1>11. pc[w] \in {"archive", "archiving", "commit", "update"} => tx[w].id \in Ids
    BY DEF UInv, Made
  <1> QED BY <1>1, <1>5, <1>6, <1>7, <1>8, <1>9, <1>10, <1>11 DEF CInv, ClosingOK

\* The first statements of requests.
LEMMA BeginCloses ==
  ASSUME ClosedByClosing, IInv, UInv, CInv, NEW w, Workers = {w},
         BeginUpdate(w) \/ BeginDelete(w) \/ BeginBooking(w) \/ BeginPrebooking(w) \/ BeginJob(w)
  PROVE  CInv'
  <1>1. CASE BeginUpdate(w)
    <2>1. PICK e \in Ids, c \in Changes :
            \/ BuildUpdate(w, [NoTx EXCEPT !.id = e, !.change = c])
            \/ /\ pc' = [pc EXCEPT ![w] = "method"] /\ clock' = clock
               /\ tx' = [tx EXCEPT ![w] = [NoTx EXCEPT !.id = e, !.change = c]]
      BY <1>1 DEF BeginUpdate
    <2> DEFINE t == [NoTx EXCEPT !.id = e, !.change = c]
    <2>2. t \in Tx /\ t.change = c /\ c.closed = Keep /\ UNCHANGED <<row, version>>
      BY <1>1, NoTxTyped, ChangesAssumption, IdsTyped DEF Tx, ClosedByClosing, BeginUpdate, NoTx
    <2> HIDE DEF t
    <2>3. CASE BuildUpdate(w, t)
      BY <2>2, <2>3, BuildCloses
    <2>4. CASE pc' = [pc EXCEPT ![w] = "method"] /\ clock' = clock /\ tx' = [tx EXCEPT ![w] = t]
      <3>1. pc'[w] = "method" /\ tx'[w] = t
        BY <2>4 DEF IInv, TypeOK
      <3> QED BY <2>2, <2>4, <3>1, NotClosing
    <2> QED BY <2>1, <2>3, <2>4 DEF t
  <1>2. CASE BeginDelete(w) \/ BeginBooking(w) \/ BeginPrebooking(w)
    <2>1. UNCHANGED <<row, version, clock>> /\ pc'[w] \in {"delete", "book"}
      BY <1>2 DEF BeginDelete, BeginBooking, BeginPrebooking, IInv, TypeOK
    <2>2. tx'[w].change = NoChange
      <3>1. CASE BeginDelete(w)
        BY <3>1 DEF BeginDelete, IInv, TypeOK, NoTx
      <3>2. CASE BeginBooking(w)
        BY <3>2 DEF BeginBooking, IInv, TypeOK, NoTx
      <3>3. CASE BeginPrebooking(w)
        BY <3>3 DEF BeginPrebooking, IInv, TypeOK, NoTx
      <3> QED BY <1>2, <3>1, <3>2, <3>3
    <2> QED BY <2>1, <2>2, NoTxCloses, NotClosing
  <1>3. CASE BeginJob(w)
    <2>1. UNCHANGED <<row, version, clock, tx>> /\ pc'[w] = "job"
      BY <1>3 DEF BeginJob, IInv, TypeOK
    <2> QED BY <2>1, NotClosing DEF CInv, ClosingOK
  <1> QED BY <1>1, <1>2, <1>3

\* The job: what it updates is to be Finished or Closed.
LEMMA JobCloses ==
  ASSUME IInv, UInv, CInv, NEW w, Workers = {w}, FinishNext(w) \/ MailSent(w)
  PROVE  CInv'
  <1>1. UNCHANGED <<row, version>>
    BY DEF FinishNext, MailSent
  <1>2. ASSUME NEW e \in 0..MaxEvents, NEW s \in {"Finished", "Closed"}, BuildUpdate(w, JobTx(e, s)) PROVE CInv'
    <2>1. JobTx(e, s) \in Tx
      BY <1>2, JobTxTyped DEF Statuses
    <2>2. JobTx(e, s).change.closed = Keep
      BY DEF JobTx, NoTx, NoChange
    <2> QED BY <1>1, <1>2, <2>1, <2>2, BuildCloses
  <1>3. \A e \in jobs[w] : e \in 0..MaxEvents
    BY IdsTyped DEF IInv, TypeOK
  <1>4. tx[w].id \in 0..MaxEvents
    BY DEF IInv, TypeOK, Tx
  <1>5. CASE pc' = [pc EXCEPT ![w] = "idle"] /\ tx' = [tx EXCEPT ![w] = NoTx] /\ clock' = clock
    <2>1. pc'[w] = "idle" /\ tx'[w] = NoTx
      BY <1>5 DEF IInv, TypeOK
    <2> QED BY <1>1, <1>5, <2>1, NoTxCloses, NotClosing
  <1> QED BY <1>2, <1>3, <1>4, <1>5 DEF FinishNext, MailSent

LEMMA CloseStep ==
  ASSUME ClosedByClosing, IInv, UInv, CInv, NEW w, Workers = {w}, [Next]_vars
  PROVE  CInv'
  <1>1. ASSUME Fail(w), UNCHANGED <<row, clock>> PROVE CInv'
    BY <1>1, FailCloses
  <1>2. CASE MailFails(w) \/ Abort(w)
    BY <1>1, <1>2 DEF MailFails, Abort
  <1>3. CASE CheckMethod(w)
    <2>1. CASE Fail(w) /\ clock' = clock
      BY <1>1, <1>3, <2>1 DEF CheckMethod
    <2>2. CASE ~(Fail(w) /\ clock' = clock)
      <3>1. BuildUpdate(w, tx[w]) /\ UNCHANGED <<row, version>> /\ tx[w] \in Tx /\ tx[w].change.closed = Keep
        BY <1>3, <2>2 DEF CheckMethod, IInv, TypeOK, CInv, ClosingOK
      <3> QED BY <3>1, BuildCloses
    <2> QED BY <2>1, <2>2
  <1>4. CASE UpdateRow(w) \/ DeleteRow(w)
    <2>1. UNCHANGED <<row, clock>>
      BY <1>4 DEF UpdateRow, DeleteRow
    <2> QED BY <1>1, <1>4, <2>1, UpdateRowCloses, DeleteRowCloses
  <1>5. CASE Insert(w)
    <2>1. UNCHANGED <<row, version, clock>> /\ pc'[w] = "idle" /\ tx'[w] = NoTx
      BY <1>5 DEF Insert, IInv, TypeOK
    <2> QED BY <2>1, NoTxCloses, NotClosing
  <1>6. CASE Acts(w)
    BY <1>2, <1>3, <1>4, <1>5, <1>6, BeginCloses, CreateCloses, ArchiveCloses, ArchiveRowCloses, ArchivedCloses,
       CommitCloses, JobCloses DEF Acts, Serve
  <1>7. CASE UNCHANGED vars
    <2>1. UNCHANGED <<row, version, clock, pc, tx>>
      BY <1>7 DEF vars
    <2>2. Dates(row)' /\ Dates(version)'
      BY <2>1 DEF CInv, Dates
    <2>3. ClosingOK'
      BY <2>1 DEF CInv, ClosingOK, Archiving, OneClosed, Outdated, Named, ClosedOf
    <2> QED BY <2>2, <2>3 DEF CInv
  <1> QED BY <1>6, <1>7, DatesPassCloses DEF Next, Acts

\* With one request at a time, and `closed` dates that only closing sets, an event that
\* has been closed is Closed, and no name has two Closed events: archive_events compares
\* dates that are all different, and the last one is that of the event itself.
THEOREM OneClosedLeft ==
  ASSUME NEW w, Workers = {w}, ClosedByClosing PROVE Spec => ClosingLeavesOne
  <1>1. Init => CInv
    BY NoTxCloses DEF Init, CInv, ClosingOK, Dates
  <1>2. IInv /\ UInv /\ CInv /\ [Next]_vars => CInv'
    BY CloseStep
  <1>3. ASSUME IInv, UInv, CInv, NEW p \in Workers, Commit(p), ClosesNow(tx[p].change)
        PROVE  /\ row'[tx[p].id].status = "Closed"
               /\ \A n \in Names : Cardinality(ClosedOf(row', n)) <= 1
    <2>1. p = w /\ pc[p] = "commit" /\ \A e \in Ids : row'[e] = version[e]
      BY <1>3, CommitCloses DEF Commit
    <2>2. tx[p].id \in Ids /\ version[tx[p].id].status = "Closed" /\ OneClosed(version)
      BY <1>3, <2>1 DEF CInv, ClosingOK, UInv, Made
    <2>3. ASSUME NEW n \in Names PROVE Cardinality(ClosedOf(row', n)) <= 1
      <3> DEFINE C == ClosedOf(row', n)
      <3>1. \A a, b \in C : a = b
        BY <2>1, <2>2 DEF OneClosed, ClosedOf, Named
      <3> HIDE DEF C
      <3>2. C = {} => Cardinality(C) = 0
        BY FS_EmptySet
      <3>3. C # {} => Cardinality(C) = 1
        <4> SUFFICES ASSUME C # {} PROVE Cardinality(C) = 1
          OBVIOUS
        <4>1. PICK a : C = {a}
          BY <3>1
        <4> QED BY <4>1, FS_Singleton
      <3>4. Cardinality(C) <= 1
        BY <3>2, <3>3
      <3> QED BY <3>4 DEF C
    <2> QED BY <2>1, <2>2, <2>3
  <1>4. IInv /\ UInv /\ CInv /\ [Next]_vars
          => [\A p \in Workers :
                (Commit(p) /\ ClosesNow(tx[p].change))
                  => /\ row'[tx[p].id].status = "Closed"
                     /\ \A n \in Names : Cardinality(ClosedOf(row', n)) <= 1]_vars
    BY <1>3
  <1> QED BY <1>1, <1>2, <1>4, IInvariant, UInvariant, PTL DEF Spec, ClosingLeavesOne
=============================================================================
