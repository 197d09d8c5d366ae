----------------------------- MODULE News_proofs -----------------------------
(***************************************************************************)
(* Subscriptions are serial unless another request has changed the same    *)
(* address in between, for any number of workers, addresses and topics.    *)
(***************************************************************************)
EXTENDS News, TLAPS

-----------------------------------------------------------------------------
(* Rows and requests                                                        *)

LEMMA RowFields ==
  ASSUME NEW v \in Row
  PROVE  v.id \in 1..MaxIds /\ v.topics \in SUBSET Topics /\ v # None
  BY BoundAssumption DEF Row

LEMMA RowTyped ==
  ASSUME NEW i \in 1..MaxIds, NEW t \in SUBSET Topics
  PROVE  /\ [id |-> i, topics |-> t] \in Row
         /\ [id |-> i, topics |-> t] # None
         /\ [id |-> i, topics |-> t].id = i
         /\ [id |-> i, topics |-> t].topics = t
  BY BoundAssumption DEF Row

LEMMA RequestFields ==
  ASSUME NEW r \in Requests
  PROVE  /\ r.op \in {"subscribe", "unsubscribe"} /\ r.email \in Emails
         /\ r.topics \in SUBSET Topics /\ r # None
  BY RequestsAssumption DEF Request

\* What an address is subscribed to is what its row says.
LEMMA SubscribedIsRow ==
  ASSUME TypeOK, NEW e \in Emails
  PROVE  Subscribed(e) = TopicsOf(row[e])
  BY RowFields DEF TypeOK, Subscribed, Recipients, TopicsOf

\* A worker at work has a request, for an address.
LEMMA AtWork ==
  ASSUME IInv, NEW p \in Workers, pc[p] # "idle"
  PROVE  /\ request[p] \in Requests /\ Of(p) \in Emails
         /\ request[p].op \in {"subscribe", "unsubscribe"} /\ request[p].topics \in SUBSET Topics
  BY RequestFields DEF IInv, TypeOK, ReadsOK, Of

-----------------------------------------------------------------------------
(* The parts of the invariant, step by step                                 *)

LEMMA InitIInv == Init => IInv
  <1> SUFFICES ASSUME Init PROVE IInv
    OBVIOUS
  <1>1. TypeOK
    BY BoundAssumption DEF Init, TypeOK
  <1> QED BY <1>1 DEF Init, IInv, LocksOK, IdsOK, ReadsOK, WritesOK, ConfirmedStands

\* A transaction that is dropped.
LEMMA FailKeeps ==
  ASSUME IInv, NEW p \in Workers, pc[p] # "idle", Fail(p), ids' \in ids..MaxIds
  PROVE  IInv'
  <1>1. /\ pc' = [pc EXCEPT ![p] = "idle"]
        /\ request' = [request EXCEPT ![p] = None]
        /\ seen' = [seen EXCEPT ![p] = None]
        /\ stale' = stale \ {p} /\ row' = row
    BY DEF Fail, Idle
  <1>2. \A e \in Emails : /\ version'[e] = IF lock[e] = p THEN row[e] ELSE version[e]
                          /\ lock'[e] = IF lock[e] = p THEN None ELSE lock[e]
    BY DEF Fail, Restored, Released
  <1>3. \A q \in Workers : /\ pc'[q] = IF q = p THEN "idle" ELSE pc[q]
                           /\ request'[q] = IF q = p THEN None ELSE request[q]
                           /\ seen'[q] = IF q = p THEN None ELSE seen[q]
    BY <1>1 DEF IInv, TypeOK
  <1>4. TypeOK'
    <2>1. version' \in [Emails -> Row \cup {None}] /\ lock' \in [Emails -> Workers \cup {None}]
      BY DEF Fail, Restored, Released, IInv, TypeOK
    <2>2. ids' \in 0..MaxIds
      BY BoundAssumption DEF IInv, TypeOK
    <2> QED BY <1>1, <2>1, <2>2 DEF IInv, TypeOK
  <1>5. p # None
    BY WorkersAssumption
  <1>6. LocksOK'
    BY <1>1, <1>2, <1>3, <1>5 DEF IInv, LocksOK, TypeOK, Of
  <1>7. IdsOK'
    <2>1. \A v \in Row : v.id <= ids => v.id <= ids'
      BY RowFields, BoundAssumption DEF IInv, TypeOK
    <2> QED BY <1>1, <1>2, <1>3, <2>1 DEF IInv, IdsOK, TypeOK
  <1>8. ReadsOK'
    BY <1>1, <1>3 DEF IInv, ReadsOK, Of
  <1>9. WritesOK'
    <2> SUFFICES ASSUME NEW q \in Workers, pc'[q] = "commit", q \notin stale'
                 PROVE  TopicsOf(Pending(q))' = Applied(request'[q], TopicsOf(row'[Of(q)']))
      BY DEF WritesOK
    <2>1. q # p /\ pc[q] = "commit" /\ q \notin stale /\ request'[q] = request[q]
      BY <1>1, <1>3
    <2>2. Of(q) \in Emails /\ Of(q)' = Of(q)
      BY <2>1, AtWork DEF Of
    <2>3. Pending(q)' = Pending(q)
      BY <1>1, <1>2, <1>5, <2>1, <2>2 DEF Pending
    <2> QED BY <1>1, <2>1, <2>2, <2>3 DEF IInv, WritesOK, TopicsOf
  <1>10. ConfirmedStands'
    BY <1>1, <1>3 DEF IInv, ConfirmedStands, Of, Subscribed, Recipients
  <1> QED BY <1>4, <1>6, <1>7, <1>8, <1>9, <1>10 DEF IInv

\* The first statement: what is read is committed.
LEMMA BeginKeeps ==
  ASSUME IInv, NEW p \in Workers, Begin(p)
  PROVE  IInv'
  <1>1. PICK r \in Requests : /\ request' = [request EXCEPT ![p] = r]
                              /\ seen' = [seen EXCEPT ![p] = row[r.email]]
    BY DEF Begin
  <1>2. /\ pc[p] = "idle" /\ pc' = [pc EXCEPT ![p] = "write"]
        /\ UNCHANGED <<row, version, lock, ids, stale>>
    BY DEF Begin
  <1>3. r.email \in Emails /\ r # None
    BY RequestFields
  <1>4. \A q \in Workers : /\ pc'[q] = IF q = p THEN "write" ELSE pc[q]
                           /\ request'[q] = IF q = p THEN r ELSE request[q]
                           /\ seen'[q] = IF q = p THEN row[r.email] ELSE seen[q]
    BY <1>1, <1>2 DEF IInv, TypeOK
  <1>5. TypeOK'
    BY <1>1, <1>2, <1>3 DEF IInv, TypeOK
  <1>6. LocksOK'
    BY <1>2, <1>4 DEF IInv, LocksOK, TypeOK, Of
  <1>7. IdsOK'
    BY <1>2, <1>3, <1>4 DEF IInv, IdsOK
  <1>8. ReadsOK'
    <2>1. ASSUME NEW q \in Workers, q # p
          PROVE  /\ pc'[q] = "idle" <=> request'[q] = None
                 /\ pc'[q] = "idle" => q \notin stale'
                 /\ pc'[q] \in {"write", "commit"} /\ q \notin stale' => seen'[q] = row'[Of(q)']
      BY <1>2, <1>4, <2>1 DEF IInv, ReadsOK, Of
    <2>2. /\ pc'[p] = "write" /\ request'[p] = r /\ seen'[p] = row[r.email] /\ Of(p)' = r.email
      BY <1>4 DEF Of
    <2> QED BY <1>2, <1>3, <2>1, <2>2 DEF ReadsOK
  <1>9. WritesOK'
    <2> SUFFICES ASSUME NEW q \in Workers, pc'[q] = "commit", q \notin stale'
                 PROVE  TopicsOf(Pending(q))' = Applied(request'[q], TopicsOf(row'[Of(q)']))
      BY DEF WritesOK
    <2>1. q # p /\ pc[q] = "commit" /\ q \notin stale /\ request'[q] = request[q]
      BY <1>2, <1>4
    <2>2. Of(q)' = Of(q) /\ Pending(q)' = Pending(q)
      BY <1>2, <2>1 DEF Of, Pending
    <2> QED BY <1>2, <2>1, <2>2 DEF IInv, WritesOK, TopicsOf
  <1>10. ConfirmedStands'
    BY <1>2, <1>4 DEF IInv, ConfirmedStands, Of, Subscribed, Recipients
  <1> QED BY <1>5, <1>6, <1>7, <1>8, <1>9, <1>10 DEF IInv

\* A statement that writes v, which is what the request makes of the row.
LEMMA WriteKeeps ==
  ASSUME IInv, NEW p \in Workers, pc[p] = "write", NotLocked(p), NEW v \in Row \cup {None},
         version' = [version EXCEPT ![Of(p)] = v], lock' = [lock EXCEPT ![Of(p)] = p],
         pc' = [pc EXCEPT ![p] = "commit"], UNCHANGED <<row, request, seen, stale>>,
         ids' \in ids..MaxIds, v # None => v.id <= ids',
         seen[p] # None => row[Of(p)] # None /\ row[Of(p)].id = seen[p].id,
         p \notin stale => TopicsOf(v) = Applied(request[p], TopicsOf(row[Of(p)]))
  PROVE  IInv'
  <1>1. Of(p) \in Emails /\ request[p] \in Requests
    BY AtWork
  <1>2. p # None /\ lock[Of(p)] = None
    BY <1>1, WorkersAssumption DEF IInv, LocksOK, NotLocked
  <1>3. \A e \in Emails : version'[e] = IF e = Of(p) THEN v ELSE version[e]
    BY DEF IInv, TypeOK
  <1>4. \A e \in Emails : lock'[e] = IF e = Of(p) THEN p ELSE lock[e]
    BY DEF IInv, TypeOK
  <1>5. \A q \in Workers : pc'[q] = IF q = p THEN "commit" ELSE pc[q]
    BY DEF IInv, TypeOK
  <1>6. TypeOK'
    <2>1. ids' \in 0..MaxIds
      BY BoundAssumption DEF IInv, TypeOK
    <2>2. version' \in [Emails -> Row \cup {None}] /\ lock' \in [Emails -> Workers \cup {None}]
      BY DEF IInv, TypeOK
    <2>3. pc' \in [Workers -> {"idle", "write", "commit", "reply"}]
      BY DEF IInv, TypeOK
    <2> QED BY <2>1, <2>2, <2>3 DEF IInv, TypeOK
  <1>7. LocksOK'
    <2> SUFFICES ASSUME NEW e \in Emails
                 PROVE  /\ lock'[e] = None => version'[e] = row[e]
                        /\ lock'[e] # None =>
                             /\ pc'[lock'[e]] = "commit" /\ request[lock'[e]].email = e
                             /\ seen[lock'[e]] # None => row[e] # None /\ row[e].id = seen[lock'[e]].id
      BY DEF LocksOK, Of
    <2>1. CASE e = Of(p)
      BY <1>2, <1>4, <1>5, <2>1 DEF Of
    <2>2. CASE e # Of(p)
      <3>1. lock'[e] = lock[e] /\ version'[e] = version[e]
        BY <1>3, <1>4, <2>2
      <3>2. lock[e] # None => lock[e] \in Workers /\ lock[e] # p
        BY <2>2 DEF IInv, TypeOK, LocksOK
      <3> QED BY <1>5, <3>1, <3>2 DEF IInv, LocksOK, Of
    <2> QED BY <2>1, <2>2
  <1>8. IdsOK'
    <2>1. \A w \in Row : w.id <= ids => w.id <= ids'
      BY RowFields, BoundAssumption DEF IInv, TypeOK
    <2> QED BY <1>3, <2>1 DEF IInv, IdsOK, TypeOK
  <1>9. ReadsOK'
    BY <1>5 DEF IInv, ReadsOK, Of
  <1>10. WritesOK'
    <2> SUFFICES ASSUME NEW q \in Workers, pc'[q] = "commit", q \notin stale
                 PROVE  TopicsOf(Pending(q))' = Applied(request[q], TopicsOf(row[Of(q)]))
      BY DEF WritesOK, Of
    <2>1. CASE q = p
      <3>1. Pending(p)' = v
        BY <1>1, <1>3, <1>4 DEF Pending, Of
      <3> QED BY <2>1, <3>1 DEF TopicsOf
    <2>2. CASE q # p
      <3>1. pc[q] = "commit" /\ Of(q) \in Emails
        BY <1>5, <2>2, AtWork
      <3>2. Pending(q)' = Pending(q)
        BY <1>2, <1>3, <1>4, <2>2, <3>1, WorkersAssumption DEF Pending, Of
      <3> QED BY <2>2, <3>1, <3>2 DEF IInv, WritesOK, TopicsOf
    <2> QED BY <2>1, <2>2
  <1>11. ConfirmedStands'
    BY <1>5 DEF IInv, ConfirmedStands, Of, Subscribed, Recipients
  <1> QED BY <1>6, <1>7, <1>8, <1>9, <1>10, <1>11 DEF IInv

\* A statement that finds no row.
LEMMA NoWriteKeeps ==
  ASSUME IInv, NEW p \in Workers, pc[p] = "write",
         UNCHANGED <<row, version, lock, ids, request, seen, stale>>, pc' = [pc EXCEPT ![p] = "commit"],
         p \notin stale => TopicsOf(row[Of(p)]) = Applied(request[p], TopicsOf(row[Of(p)]))
  PROVE  IInv'
  <1>1. \A q \in Workers : pc'[q] = IF q = p THEN "commit" ELSE pc[q]
    BY DEF IInv, TypeOK
  <1>2. TypeOK'
    BY DEF IInv, TypeOK
  <1>3. LocksOK'
    BY <1>1 DEF IInv, TypeOK, LocksOK, Of
  <1>4. IdsOK'
    BY DEF IInv, IdsOK
  <1>5. ReadsOK'
    BY <1>1 DEF IInv, ReadsOK, Of
  <1>6. WritesOK'
    <2> SUFFICES ASSUME NEW q \in Workers, pc'[q] = "commit", q \notin stale
                 PROVE  TopicsOf(Pending(q)) = Applied(request[q], TopicsOf(row[Of(q)]))
      BY DEF WritesOK, Of, Pending, TopicsOf
    <2>1. CASE q = p
      <3>1. Of(p) \in Emails /\ lock[Of(p)] # p
        BY AtWork, WorkersAssumption DEF IInv, LocksOK
      <3> QED BY <2>1, <3>1 DEF Pending
    <2>2. CASE q # p
      BY <1>1, <2>2 DEF IInv, WritesOK
    <2> QED BY <2>1, <2>2
  <1>7. ConfirmedStands'
    BY <1>1 DEF IInv, ConfirmedStands, Of, Subscribed, Recipients
  <1> QED BY <1>2, <1>3, <1>4, <1>5, <1>6, <1>7 DEF IInv

\* The UPDATE or DELETE by id.
LEMMA ChangeKeeps ==
  ASSUME IInv, NEW p \in Workers, pc[p] = "write", seen[p] # None,
         NEW v \in Row \cup {None}, Change(p, v), v # None => v.id = seen[p].id,
         TopicsOf(v) = Applied(request[p], seen[p].topics)
  PROVE  IInv'
  <1>1. p \notin stale => seen[p] = row[Of(p)]
    BY DEF IInv, ReadsOK
  <1>2. p \notin stale => TopicsOf(v) = Applied(request[p], TopicsOf(row[Of(p)]))
    BY <1>1 DEF TopicsOf
  <1>3. CASE Found(p)
    <2>1. row[Of(p)] # None /\ row[Of(p)].id = seen[p].id
      BY <1>3 DEF Found
    <2>2. ids' = ids /\ ids \in ids..MaxIds /\ seen[p].id <= ids
      BY BoundAssumption DEF Change, IInv, TypeOK, IdsOK
    <2> QED BY <1>2, <1>3, <2>1, <2>2, WriteKeeps DEF Change
  <1>4. CASE ~Found(p)
    <2>1. p \in stale
      BY <1>1, <1>4 DEF Found
    <2> QED BY <1>4, <2>1, NoWriteKeeps DEF Change
  <1> QED BY <1>3, <1>4

LEMMA UpdateKeeps ==
  ASSUME IInv, NEW p \in Workers, Update(p)
  PROVE  IInv'
  <1>1. pc[p] = "write" /\ request[p].op = "subscribe" /\ seen[p] # None
    BY DEF Update, Writes
  <1>2. seen[p] \in Row /\ request[p].topics \in SUBSET Topics
    BY <1>1, AtWork DEF IInv, TypeOK
  <1> DEFINE v == [id |-> seen[p].id, topics |-> Added(p)]
  <1>3. v \in Row /\ v # None /\ v.id = seen[p].id /\ v.topics = Added(p)
    BY <1>2, RowFields, RowTyped DEF Added
  <1>4. Change(p, v)
    BY DEF Update
  <1> HIDE DEF v
  <1>5. TopicsOf(v) = Applied(request[p], seen[p].topics)
    BY <1>1, <1>3 DEF TopicsOf, Applied, Added
  <1> QED BY <1>1, <1>3, <1>4, <1>5, ChangeKeeps

LEMMA RemoveKeeps ==
  ASSUME IInv, NEW p \in Workers, Remove(p)
  PROVE  IInv'
  <1>1. pc[p] = "write" /\ request[p].op = "unsubscribe" /\ seen[p] # None
    BY DEF Remove, Writes
  <1>2. seen[p] \in Row
    BY <1>1 DEF IInv, TypeOK
  <1> DEFINE w == [id |-> seen[p].id, topics |-> Left(p)]
             v == IF NothingLeft(p) THEN None ELSE w
  <1>3. w \in Row /\ w # None /\ w.id = seen[p].id /\ w.topics = Left(p)
    BY <1>2, RowFields, RowTyped DEF Left
  <1>4. Change(p, v)
    BY DEF Remove
  <1> HIDE DEF w
  <1>5. v \in Row \cup {None} /\ (v # None => v.id = seen[p].id)
    BY <1>3
  <1>6. TopicsOf(v) = Left(p)
    BY <1>3 DEF TopicsOf, NothingLeft
  <1>7. TopicsOf(v) = Applied(request[p], seen[p].topics)
    BY <1>1, <1>6 DEF Applied, Left
  <1> HIDE DEF v
  <1> QED BY <1>1, <1>4, <1>5, <1>7, ChangeKeeps

LEMMA InsertKeeps ==
  ASSUME IInv, NEW p \in Workers, Insert(p)
  PROVE  IInv'
  <1>1. pc[p] = "write" /\ request[p].op = "subscribe" /\ seen[p] = None /\ NotLocked(p)
    BY DEF Insert, Writes
  <1>2. ids' = ids + 1 /\ ids' \in 1..MaxIds /\ ids' \in ids..MaxIds
    BY BoundAssumption DEF Insert, IInv, TypeOK
  <1>3. CASE Fail(p)
    BY <1>1, <1>2, <1>3, FailKeeps
  <1>4. CASE ~Fail(p)
    <2> DEFINE v == [id |-> ids + 1, topics |-> request[p].topics]
    <2>1. request[p].topics \in SUBSET Topics
      BY <1>1, AtWork
    <2>2. v \in Row /\ v # None /\ v.id = ids + 1 /\ v.topics = request[p].topics
      BY <1>2, <2>1, RowTyped
    <2>3. /\ row[Of(p)] = None
          /\ version' = [version EXCEPT ![Of(p)] = v]
          /\ lock' = [lock EXCEPT ![Of(p)] = p]
          /\ pc' = [pc EXCEPT ![p] = "commit"]
          /\ UNCHANGED <<row, request, seen, stale>>
      BY <1>4 DEF Insert
    <2> HIDE DEF v
    <2>4. TopicsOf(v) = Applied(request[p], TopicsOf(row[Of(p)]))
      BY <1>1, <2>2, <2>3 DEF TopicsOf, Applied
    <2>5. v.id <= ids'
      BY <1>2, <2>2
    <2> QED BY <1>1, <1>2, <2>2, <2>3, <2>4, <2>5, WriteKeeps
  <1> QED BY <1>3, <1>4

LEMMA NothingKeeps ==
  ASSUME IInv, NEW p \in Workers, Nothing(p)
  PROVE  IInv'
  <1>1. pc[p] = "write" /\ request[p].op = "unsubscribe" /\ seen[p] = None
    BY DEF Nothing, Writes
  <1>2. p \notin stale => row[Of(p)] = None
    BY <1>1 DEF IInv, ReadsOK
  <1>3. p \notin stale => TopicsOf(row[Of(p)]) = Applied(request[p], TopicsOf(row[Of(p)]))
    BY <1>1, <1>2 DEF TopicsOf, Applied
  <1> QED BY <1>1, <1>3, NoWriteKeeps DEF Nothing

\* A commit makes the others that have read the address stale.
LEMMA CommitKeeps ==
  ASSUME IInv, NEW p \in Workers, Commit(p)
  PROVE  IInv'
  <1>1. /\ pc[p] = "commit" /\ pc' = [pc EXCEPT ![p] = "reply"]
        /\ UNCHANGED <<version, ids, request, seen>>
        /\ stale' = stale \cup {q \in Workers \ {p} : request[q] # None /\ Of(q) = Of(p) /\ lock[Of(p)] = p}
    BY DEF Commit
  <1>2. \A e \in Emails : /\ row'[e] = IF lock[e] = p THEN version[e] ELSE row[e]
                          /\ lock'[e] = IF lock[e] = p THEN None ELSE lock[e]
    BY DEF Commit, Released
  <1>3. p # None /\ Of(p) \in Emails /\ request[p] \in Requests
    BY <1>1, AtWork, WorkersAssumption
  <1>4. \A q \in Workers : pc'[q] = IF q = p THEN "reply" ELSE pc[q]
    BY <1>1 DEF IInv, TypeOK
  <1>5. \A e \in Emails : lock[e] = p => e = Of(p)
    BY <1>3 DEF IInv, LocksOK
  <1>6. TypeOK'
    <2>1. row' \in [Emails -> Row \cup {None}] /\ lock' \in [Emails -> Workers \cup {None}]
      BY DEF Commit, Released, IInv, TypeOK
    <2>2. pc' \in [Workers -> {"idle", "write", "commit", "reply"}] /\ stale' \subseteq Workers
      BY <1>1 DEF IInv, TypeOK
    <2> QED BY <1>1, <2>1, <2>2 DEF IInv, TypeOK
  <1>7. LocksOK'
    BY <1>1, <1>2, <1>3, <1>4 DEF IInv, LocksOK, TypeOK, Of
  <1>8. IdsOK'
    BY <1>1, <1>2 DEF IInv, IdsOK
  \* Who is not stale afterwards has another address, or the commit wrote nothing.
  <1>9. ASSUME NEW q \in Workers, q # p, request[q] # None, Of(q) \in Emails, q \notin stale'
        PROVE  q \notin stale /\ row'[Of(q)] = row[Of(q)] /\ Subscribed(Of(q))' = Subscribed(Of(q))
    <2>1. q \notin stale /\ ~(Of(q) = Of(p) /\ lock[Of(p)] = p)
      BY <1>1, <1>9
    <2>2. row'[Of(q)] = row[Of(q)]
      BY <1>2, <1>5, <1>9, <2>1
    <2>3. \A t : Of(q) \in Recipients(t)' <=> Of(q) \in Recipients(t)
      BY <1>1, <1>9, <2>2 DEF Recipients
    <2>4. Of(q)' = Of(q)
      BY <1>1 DEF Of
    <2> QED BY <2>1, <2>2, <2>3, <2>4 DEF Subscribed
  <1>10. ReadsOK'
    <2> SUFFICES ASSUME NEW q \in Workers
                 PROVE  /\ pc'[q] = "idle" <=> request[q] = None
                        /\ pc'[q] = "idle" => q \notin stale'
                        /\ pc'[q] \in {"write", "commit"} /\ q \notin stale' => seen[q] = row'[Of(q)]
      BY <1>1 DEF ReadsOK, Of
    <2>1. pc'[q] = "idle" <=> request[q] = None
      BY <1>1, <1>3, <1>4 DEF IInv, ReadsOK
    <2>2. pc'[q] = "idle" => q \notin stale'
      BY <1>1, <1>4, <2>1 DEF IInv, ReadsOK
    <2>3. ASSUME pc'[q] \in {"write", "commit"}, q \notin stale' PROVE seen[q] = row'[Of(q)]
      <3>1. q # p /\ pc[q] \in {"write", "commit"}
        BY <1>4, <2>3
      <3>2. request[q] # None /\ Of(q) \in Emails
        BY <3>1, AtWork, <2>1, <2>3
      <3> QED BY <1>9, <2>3, <3>1, <3>2 DEF IInv, ReadsOK
    <2> QED BY <2>1, <2>2, <2>3
  <1>11. WritesOK'
    <2> SUFFICES ASSUME NEW q \in Workers, pc'[q] = "commit", q \notin stale'
                 PROVE  TopicsOf(Pending(q))' = Applied(request[q], TopicsOf(row'[Of(q)]))
      BY <1>1 DEF WritesOK, Of
    <2>1. q # p /\ pc[q] = "commit"
      BY <1>4
    <2>2. request[q] # None /\ Of(q) \in Emails
      BY <2>1, AtWork, RequestFields
    <2>3. q \notin stale /\ row'[Of(q)] = row[Of(q)]
      BY <1>9, <2>1, <2>2
    <2>4. Pending(q)' = Pending(q)
      <3>1. lock'[Of(q)] = q <=> lock[Of(q)] = q
        BY <1>2, <2>1, <2>2, WorkersAssumption
      <3> QED BY <1>1, <2>3, <3>1 DEF Pending, Of
    <2> QED BY <2>1, <2>3, <2>4 DEF IInv, WritesOK, TopicsOf
  <1>12. ConfirmedStands'
    <2> SUFFICES ASSUME NEW q \in Workers, pc'[q] = "reply", request[q].op = "subscribe", q \notin stale'
                 PROVE  request[q].topics \subseteq Subscribed(Of(q))'
      BY <1>1 DEF ConfirmedStands, Of
    <2>1. CASE q = p
      <3>1. TopicsOf(Pending(p)) = Applied(request[p], TopicsOf(row[Of(p)]))
        BY <1>1, <2>1 DEF IInv, WritesOK
      <3>2. row'[Of(p)] = Pending(p)
        BY <1>2, <1>3 DEF Pending
      <3>3. request[p].topics \subseteq TopicsOf(row'[Of(p)])
        BY <2>1, <3>1, <3>2 DEF Applied
      <3>4. Subscribed(Of(p))' = TopicsOf(row[Of(p)])'
        <4>1. Of(p)' = Of(p)
          BY <1>1 DEF Of
        <4>2. Of(p) \in Emails
          BY <1>1, AtWork
        <4>3. row'[Of(p)] \in Row \cup {None}
          BY <1>6, <4>2 DEF TypeOK
        <4> QED BY <4>1, <4>2, <4>3, RowFields DEF Subscribed, Recipients, TopicsOf
      <3> QED BY <1>1, <2>1, <3>3, <3>4 DEF TopicsOf, Of
    <2>2. CASE q # p
      <3>1. pc[q] = "reply"
        BY <1>4, <2>2
      <3>2. request[q] # None /\ Of(q) \in Emails
        BY <3>1, AtWork, RequestFields
      <3> QED BY <1>9, <2>2, <3>1, <3>2 DEF IInv, ConfirmedStands
    <2> QED BY <2>1, <2>2
  <1> QED BY <1>6, <1>7, <1>8, <1>10, <1>11, <1>12 DEF IInv

LEMMA ReplyKeeps ==
  ASSUME IInv, NEW p \in Workers, Reply(p)
  PROVE  IInv'
  <1>1. /\ pc[p] = "reply" /\ pc' = [pc EXCEPT ![p] = "idle"]
        /\ request' = [request EXCEPT ![p] = None] /\ seen' = [seen EXCEPT ![p] = None]
        /\ stale' = stale \ {p} /\ UNCHANGED <<row, version, lock, ids>>
    BY DEF Reply, Idle
  <1>2. \A q \in Workers : /\ pc'[q] = IF q = p THEN "idle" ELSE pc[q]
                           /\ request'[q] = IF q = p THEN None ELSE request[q]
                           /\ seen'[q] = IF q = p THEN None ELSE seen[q]
    BY <1>1 DEF IInv, TypeOK
  <1>3. TypeOK'
    BY <1>1 DEF IInv, TypeOK
  <1>4. LocksOK'
    <2>1. \A e \in Emails : lock[e] # None => lock[e] # p /\ lock[e] \in Workers
      BY <1>1 DEF IInv, LocksOK, TypeOK
    <2> QED BY <1>1, <1>2, <2>1 DEF IInv, LocksOK, Of
  <1>5. IdsOK'
    BY <1>1, <1>2 DEF IInv, IdsOK
  <1>6. ReadsOK'
    BY <1>1, <1>2 DEF IInv, ReadsOK, Of
  <1>7. WritesOK'
    <2> SUFFICES ASSUME NEW q \in Workers, pc'[q] = "commit", q \notin stale'
                 PROVE  TopicsOf(Pending(q))' = Applied(request'[q], TopicsOf(row'[Of(q)']))
      BY DEF WritesOK
    <2>1. q # p /\ pc[q] = "commit" /\ q \notin stale /\ request'[q] = request[q]
      BY <1>1, <1>2
    <2>2. Of(q)' = Of(q) /\ Pending(q)' = Pending(q)
      BY <1>1, <2>1 DEF Of, Pending
    <2> QED BY <1>1, <2>1, <2>2 DEF IInv, WritesOK, TopicsOf
  <1>8. ConfirmedStands'
    BY <1>1, <1>2 DEF IInv, ConfirmedStands, Of, Subscribed, Recipients
  <1> QED BY <1>3, <1>4, <1>5, <1>6, <1>7, <1>8 DEF IInv

LEMMA NextKeeps == IInv /\ [Next]_vars => IInv'
  <1> SUFFICES ASSUME IInv, [Next]_vars PROVE IInv'
    OBVIOUS
  <1>1. ASSUME NEW p \in Workers, Begin(p) PROVE IInv'
    BY <1>1, BeginKeeps
  <1>2. ASSUME NEW p \in Workers, Serve(p) PROVE IInv'
    BY <1>2, UpdateKeeps, InsertKeeps, RemoveKeeps, NothingKeeps, CommitKeeps, ReplyKeeps DEF Serve
  <1>3. ASSUME NEW p \in Workers, Abort(p) PROVE IInv'
    <2>1. ids' = ids /\ ids \in ids..MaxIds /\ pc[p] # "idle" /\ Fail(p)
      BY <1>3, BoundAssumption DEF Abort, IInv, TypeOK
    <2> QED BY <2>1, FailKeeps
  <1>4. CASE UNCHANGED vars
    BY <1>4 DEF vars, IInv, TypeOK, LocksOK, IdsOK, ReadsOK, WritesOK, Pending, TopicsOf,
                Applied, Of, ConfirmedStands, Subscribed, Recipients
  <1> QED BY <1>1, <1>2, <1>3, <1>4 DEF Next

-----------------------------------------------------------------------------
(* The theorems                                                             *)

\* What has been read is what is committed, and what has been written is what the
\* request makes of it, unless another request has changed the address.
THEOREM IInvariant == Spec => []IInv
  BY InitIInv, NextKeeps, PTL DEF Spec

\* A confirmed subscription stands, unless another request has changed the address
\* since it was read.
THEOREM Confirmed == Spec => []ConfirmedStands
  <1>1. IInv => ConfirmedStands
    BY DEF IInv
  <1> QED BY <1>1, IInvariant, PTL

\* A request does to its address what it was asked for, and nothing to the others,
\* unless another request has changed the address since it was read.
THEOREM Serial == Spec => SerialUnlessStale
  <1> DEFINE Exact(p) ==
        \A e \in Emails :
          Subscribed(e)' = IF e = Of(p) THEN Applied(request[p], Subscribed(e)) ELSE Subscribed(e)
  <1>1. ASSUME IInv, IInv', NEW p \in Workers, Commit(p), p \notin stale
        PROVE  Exact(p)
    <2> SUFFICES ASSUME NEW e \in Emails
                 PROVE  Subscribed(e)' = IF e = Of(p) THEN Applied(request[p], Subscribed(e)) ELSE Subscribed(e)
      OBVIOUS
    <2>1. Of(p) \in Emails /\ pc[p] = "commit" /\ p # None
      BY <1>1, AtWork, WorkersAssumption DEF Commit
    <2>2. row'[e] = IF lock[e] = p THEN version[e] ELSE row[e]
      BY <1>1 DEF Commit
    <2>3. Subscribed(e) = TopicsOf(row[e])
      BY <1>1, SubscribedIsRow DEF IInv
    <2>4. Subscribed(e)' = TopicsOf(row[e])'
      BY <1>1, RowFields DEF IInv, TypeOK, Subscribed, Recipients, TopicsOf
    <2>5. CASE e = Of(p)
      <3>1. row'[e] = Pending(p)
        BY <2>2, <2>5 DEF Pending
      <3>2. TopicsOf(Pending(p)) = Applied(request[p], TopicsOf(row[e]))
        BY <1>1, <2>1, <2>5 DEF IInv, WritesOK
      <3> QED BY <2>3, <2>4, <2>5, <3>1, <3>2 DEF TopicsOf
    <2>6. CASE e # Of(p)
      <3>1. lock[e] # p
        BY <1>1, <2>1, <2>6 DEF IInv, LocksOK
      <3> QED BY <2>2, <2>3, <2>4, <2>6, <3>1 DEF TopicsOf
    <2> QED BY <2>5, <2>6
  <1>2. IInv /\ IInv' /\ [Next]_vars => [\A p \in Workers : Commit(p) /\ p \notin stale => Exact(p)]_vars
    BY <1>1
  <1> QED BY <1>2, IInvariant, PTL DEF Spec, SerialUnlessStale

\* A row that was made anew is not touched by a request that has read the old one.
THEOREM NewRows == Spec => NewRowUntouched
  <1>1. ASSUME IInv, NEW p \in Workers, Commit(p), seen[p] # None,
               row[Of(p)] # None, row[Of(p)].id # seen[p].id
        PROVE  row'[Of(p)] = row[Of(p)]
    <2>1. Of(p) \in Emails /\ p # None
      BY <1>1, AtWork, WorkersAssumption DEF Commit
    <2>2. lock[Of(p)] # p
      BY <1>1, <2>1 DEF IInv, LocksOK
    <2> QED BY <1>1, <2>1, <2>2 DEF Commit
  <1>2. IInv /\ [Next]_vars
          => [\A p \in Workers : Commit(p) /\ seen[p] # None =>
                LET now == row[Of(p)] IN now # None /\ now.id # seen[p].id => row'[Of(p)] = now]_vars
    BY <1>1
  <1> QED BY <1>2, IInvariant, PTL DEF Spec, NewRowUntouched

\* Both together.
THEOREM SerialCommits == Spec => CommitsAreSerial
  BY Serial, NewRows, PTL DEF CommitsAreSerial

-----------------------------------------------------------------------------
(* Rows without topics                                                      *)

\* No row that is committed, about to be or has been read is without topics.
Filled ==
  /\ \A e \in Emails : (row[e] # None => row[e].topics # {}) /\ (version[e] # None => version[e].topics # {})
  /\ \A p \in Workers : seen[p] # None => seen[p].topics # {}

LEMMA FailKeepsFilled ==
  ASSUME IInv, Filled, NEW p \in Workers, Fail(p)
  PROVE  Filled'
  <1>1. \A e \in Emails : row'[e] = row[e] /\ version'[e] = IF lock[e] = p THEN row[e] ELSE version[e]
    BY DEF Fail, Restored
  <1>2. \A q \in Workers : seen'[q] = IF q = p THEN None ELSE seen[q]
    BY DEF Fail, Idle, IInv, TypeOK
  <1> QED BY <1>1, <1>2 DEF Filled

\* What an UPDATE or DELETE writes has topics or is no row.
LEMMA ChangeKeepsFilled ==
  ASSUME IInv, Filled, NEW p \in Workers, NEW v, Change(p, v), v # None => v.topics # {}
  PROVE  Filled'
  <1>1. row' = row /\ seen' = seen
    BY DEF Change
  <1>2. \A e \in Emails : version'[e] \in {version[e], v}
    BY DEF Change, IInv, TypeOK
  <1> QED BY <1>1, <1>2 DEF Filled

\* Subscribed topics are only added to, the row goes with the last one, and what is
\* inserted has the topics that were asked for.
LEMMA NextKeepsFilled ==
  ASSUME \A r \in Requests : r.op = "subscribe" => r.topics # {}, IInv, Filled, [Next]_vars
  PROVE  Filled'
  <1>1. ASSUME NEW p \in Workers, Begin(p) PROVE Filled'
    <2>1. PICK r \in Requests : seen' = [seen EXCEPT ![p] = row[r.email]] /\ row' = row /\ version' = version
      BY <1>1 DEF Begin
    <2>2. r.email \in Emails
      BY RequestFields
    <2>3. \A q \in Workers : seen'[q] = IF q = p THEN row[r.email] ELSE seen[q]
      BY <2>1 DEF IInv, TypeOK
    <2> QED BY <2>1, <2>2, <2>3 DEF Filled
  <1>2. ASSUME NEW p \in Workers, Update(p) PROVE Filled'
    <2>1. seen[p].topics # {} /\ Change(p, [id |-> seen[p].id, topics |-> Added(p)])
      BY <1>2 DEF Update, Filled
    <2>2. Added(p) # {}
      BY <2>1 DEF Added
    <2>3. [id |-> seen[p].id, topics |-> Added(p)].topics = Added(p)
      OBVIOUS
    <2> QED BY <2>1, <2>2, <2>3, ChangeKeepsFilled
  <1>3. ASSUME NEW p \in Workers, Insert(p) PROVE Filled'
    <2>1. CASE Fail(p)
      BY <2>1, FailKeepsFilled
    <2>2. CASE ~Fail(p)
      <3>1. pc[p] = "write" /\ request[p].op = "subscribe"
        BY <1>3 DEF Insert, Writes
      <3>2. request[p].topics # {}
        BY <3>1, AtWork
      <3> DEFINE v == [id |-> ids + 1, topics |-> request[p].topics]
      <3>3. v.topics = request[p].topics
        OBVIOUS
      <3>4. version' = [version EXCEPT ![Of(p)] = v] /\ UNCHANGED <<row, seen>>
        BY <1>3, <2>2 DEF Insert
      <3> HIDE DEF v
      <3>5. \A e \in Emails : version'[e] \in {version[e], v}
        BY <3>4 DEF IInv, TypeOK
      <3> QED BY <3>2, <3>3, <3>4, <3>5 DEF Filled
    <2> QED BY <2>1, <2>2
  <1>4. ASSUME NEW p \in Workers, Remove(p) PROVE Filled'
    <2> DEFINE w == [id |-> seen[p].id, topics |-> Left(p)]
               v == IF NothingLeft(p) THEN None ELSE w
    <2>1. w.topics = Left(p)
      OBVIOUS
    <2>2. Change(p, v)
      BY <1>4 DEF Remove
    <2> HIDE DEF w
    <2>3. v # None => v.topics # {}
      BY <2>1 DEF NothingLeft
    <2> HIDE DEF v
    <2> QED BY <2>2, <2>3, ChangeKeepsFilled
  <1>5. ASSUME NEW p \in Workers, Nothing(p) PROVE Filled'
    BY <1>5 DEF Nothing, Filled
  <1>6. ASSUME NEW p \in Workers, Commit(p) PROVE Filled'
    <2>1. \A e \in Emails : row'[e] \in {row[e], version[e]} /\ version'[e] = version[e]
      BY <1>6 DEF Commit
    <2> QED BY <1>6, <2>1 DEF Commit, Filled
  <1>7. ASSUME NEW p \in Workers, Reply(p) PROVE Filled'
    <2>1. \A q \in Workers : seen'[q] = IF q = p THEN None ELSE seen[q]
      BY <1>7 DEF Reply, Idle, IInv, TypeOK
    <2> QED BY <1>7, <2>1 DEF Reply, Filled
  <1>8. ASSUME NEW p \in Workers, Abort(p) PROVE Filled'
    BY <1>8, FailKeepsFilled DEF Abort
  <1>9. CASE UNCHANGED vars
    BY <1>9 DEF vars, Filled
  <1> QED BY <1>1, <1>2, <1>3, <1>4, <1>5, <1>6, <1>7, <1>8, <1>9 DEF Next, Serve

\* A subscriber has at least one topic, however requests overlap, if whoever
\* subscribes names one: `unsubscribe` deletes the row with its last topic.
THEOREM TopicsLeft ==
  ASSUME \A r \in Requests : r.op = "subscribe" => r.topics # {}
  PROVE  Spec => []RowsHaveTopics
  <1>1. Init => Filled
    BY DEF Init, Filled
  <1>2. Filled => RowsHaveTopics
    BY DEF Filled, RowsHaveTopics
  <1>3. IInv /\ Filled /\ [Next]_vars => Filled'
    BY NextKeepsFilled
  <1> QED BY <1>1, <1>2, <1>3, IInvariant, PTL DEF Spec
=============================================================================
