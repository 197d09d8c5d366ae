-------------------------------- MODULE News --------------------------------
(***************************************************************************)
(* Subscriptions of news: subscribe and unsubscribe read the topics of an  *)
(* address and write all of them back, in one READ COMMITTED transaction,  *)
(* without a lock on what they have read. Requests of the same address may *)
(* overlap (a form sent twice, a booking that subscribes, another browser).*)
(***************************************************************************)
EXTENDS Integers, FiniteSets

CONSTANTS
  Workers,
  Emails,
  Topics,    \* General, Events and Fitness
  Requests,  \* the requests that are sent
  MaxIds,    \* bound: ids given to rows
  None

Request == [op : {"subscribe", "unsubscribe"}, email : Emails, topics : SUBSET Topics]

\* A row of news_subscribers: the columns of the topics as a set.
Row == [id : 1..MaxIds, topics : SUBSET Topics]

ASSUME WorkersAssumption == IsFiniteSet(Workers) /\ None \notin Workers
ASSUME RequestsAssumption == Requests \subseteq Request /\ None \notin Request
ASSUME BoundAssumption == MaxIds \in Nat /\ None \notin Row

VARIABLES
  row,      \* news_subscribers by address (UNIQUE), committed, or None
  version,  \* ... and the newest version, perhaps of an open transaction
  lock,     \* the open transaction that has written the address, or None
  ids,      \* ids given so far
  pc,       \* the next statement of each worker
  request,  \* what it has been asked for, or None
  seen,     \* the row it has read, or None
  stale     \* history: workers whose address another one has changed since they read it

vars == <<row, version, lock, ids, pc, request, seen, stale>>

Of(p) == request[p].email

Released(p) == [e \in Emails |-> IF lock[e] = p THEN None ELSE lock[e]]

Restored(p) == [e \in Emails |-> IF lock[e] = p THEN row[e] ELSE version[e]]

Idle(p) ==
  /\ pc' = [pc EXCEPT ![p] = "idle"]
  /\ request' = [request EXCEPT ![p] = None]
  /\ seen' = [seen EXCEPT ![p] = None]

\* The transaction is dropped.
Fail(p) ==
  /\ version' = Restored(p)
  /\ lock' = Released(p)
  /\ Idle(p)
  /\ stale' = stale \ {p}
  /\ UNCHANGED row

-----------------------------------------------------------------------------
(* get_subscriptions                                                        *)

Recipients(topic) == {e \in Emails : row[e] # None /\ topic \in row[e].topics}

Subscribed(e) == {t \in Topics : e \in Recipients(t)}

-----------------------------------------------------------------------------
(* subscribe and unsubscribe                                                *)

\* A transaction begins and reads the row of the address as it is committed.
Begin(p) ==
  /\ pc[p] = "idle"
  /\ \E r \in Requests :
       /\ request' = [request EXCEPT ![p] = r]
       /\ seen' = [seen EXCEPT ![p] = row[r.email]]
  /\ pc' = [pc EXCEPT ![p] = "write"]
  /\ UNCHANGED <<row, version, lock, ids, stale>>

\* Mutant: the topics stay as they are.
NotAdded(p) == seen[p].topics

Added(p) == seen[p].topics \cup request[p].topics

Left(p) == seen[p].topics \ request[p].topics

NotLocked(p) == lock[Of(p)] \in {None, p}

\* Mutant: the row is found by its address.
ByAddress(p) == row[Of(p)] # None

\* WHERE id = $1: the row that was read may be gone, or another one be there instead.
Found(p) == row[Of(p)] # None /\ row[Of(p)].id = seen[p].id

\* The UPDATE or DELETE of the row that was read writes v, once others that have
\* written this row have ended, or nothing at all.
Change(p, v) ==
  /\ IF Found(p)
       THEN /\ NotLocked(p)
            /\ version' = [version EXCEPT ![Of(p)] = v]
            /\ lock' = [lock EXCEPT ![Of(p)] = p]
       ELSE UNCHANGED <<version, lock>>
  /\ pc' = [pc EXCEPT ![p] = "commit"]
  /\ UNCHANGED <<row, ids, request, seen, stale>>

Writes(p, op) == pc[p] = "write" /\ request[p].op = op

Update(p) ==
  /\ Writes(p, "subscribe") /\ seen[p] # None
  /\ Change(p, [id |-> seen[p].id, topics |-> Added(p)])

\* The INSERT fails if the address has been committed meanwhile.
Insert(p) ==
  /\ Writes(p, "subscribe") /\ seen[p] = None /\ NotLocked(p)
  /\ ids < MaxIds /\ ids' = ids + 1
  /\ \/ /\ row[Of(p)] # None
        /\ Fail(p)
     \/ /\ row[Of(p)] = None
        /\ version' = [version EXCEPT ![Of(p)] = [id |-> ids + 1, topics |-> request[p].topics]]
        /\ lock' = [lock EXCEPT ![Of(p)] = p]
        /\ pc' = [pc EXCEPT ![p] = "commit"]
        /\ UNCHANGED <<row, request, seen, stale>>

\* Mutant: a row without topics stays.
NoneLeft(p) == FALSE

NothingLeft(p) == Left(p) = {}

\* The row goes with its last topic.
Remove(p) ==
  /\ Writes(p, "unsubscribe") /\ seen[p] # None
  /\ Change(p, IF NothingLeft(p) THEN None ELSE [id |-> seen[p].id, topics |-> Left(p)])

\* Nothing to unsubscribe from.
Nothing(p) ==
  /\ Writes(p, "unsubscribe") /\ seen[p] = None
  /\ pc' = [pc EXCEPT ![p] = "commit"]
  /\ UNCHANGED <<row, version, lock, ids, request, seen, stale>>

\* A subscriber gets a mail afterwards (not if it was a booking that subscribed).
Commit(p) ==
  /\ pc[p] = "commit"
  /\ row' = [e \in Emails |-> IF lock[e] = p THEN version[e] ELSE row[e]]
  /\ lock' = Released(p)
  /\ stale' = stale \cup {q \in Workers \ {p} : request[q] # None /\ Of(q) = Of(p) /\ lock[Of(p)] = p}
  /\ pc' = [pc EXCEPT ![p] = "reply"]
  /\ UNCHANGED <<version, ids, request, seen>>

\* The mail is sent, or it fails, or there is none; the request is answered.
Reply(p) ==
  /\ pc[p] = "reply"
  /\ Idle(p)
  /\ stale' = stale \ {p}
  /\ UNCHANGED <<row, version, lock, ids>>

\* A statement fails, or the process ends.
Abort(p) ==
  /\ pc[p] \in {"write", "commit"}
  /\ Fail(p)
  /\ UNCHANGED ids

Init ==
  /\ row = [e \in Emails |-> None]
  /\ version = [e \in Emails |-> None]
  /\ lock = [e \in Emails |-> None]
  /\ ids = 0
  /\ pc = [p \in Workers |-> "idle"]
  /\ request = [p \in Workers |-> None]
  /\ seen = [p \in Workers |-> None]
  /\ stale = {}

Serve(p) == Update(p) \/ Insert(p) \/ Remove(p) \/ Nothing(p) \/ Commit(p) \/ Reply(p)

Next == \E p \in Workers : Begin(p) \/ Serve(p) \/ Abort(p)

Spec == Init /\ [][Next]_vars

-----------------------------------------------------------------------------
(* Properties                                                               *)

TypeOK ==
  /\ row \in [Emails -> Row \cup {None}] /\ version \in [Emails -> Row \cup {None}]
  /\ lock \in [Emails -> Workers \cup {None}]
  /\ ids \in 0..MaxIds
  /\ pc \in [Workers -> {"idle", "write", "commit", "reply"}]
  /\ request \in [Workers -> Requests \cup {None}]
  /\ seen \in [Workers -> Row \cup {None}]
  /\ stale \subseteq Workers

\* Without a lock the newest version is the committed one; a lock belongs to a
\* transaction of the address that is about to commit and has read that very row.
LocksOK ==
  \A e \in Emails :
    /\ lock[e] = None => version[e] = row[e]
    /\ lock[e] # None =>
         /\ pc[lock[e]] = "commit" /\ Of(lock[e]) = e
         /\ seen[lock[e]] # None => row[e] # None /\ row[e].id = seen[lock[e]].id

\* Ids are given once and in order.
IdsOK ==
  /\ \A e \in Emails : (row[e] # None => row[e].id <= ids) /\ (version[e] # None => version[e].id <= ids)
  /\ \A p \in Workers : seen[p] # None => seen[p].id <= ids

\* A worker that is not stale has read what is still committed ...
ReadsOK ==
  \A p \in Workers :
    /\ pc[p] = "idle" <=> request[p] = None
    /\ pc[p] = "idle" => p \notin stale
    /\ pc[p] \in {"write", "commit"} /\ p \notin stale => seen[p] = row[Of(p)]

\* What a request makes of the topics of its address.
Applied(r, topics) == IF r.op = "subscribe" THEN topics \cup r.topics ELSE topics \ r.topics

TopicsOf(v) == IF v = None THEN {} ELSE v.topics

Pending(p) == IF lock[Of(p)] = p THEN version[Of(p)] ELSE row[Of(p)]

\* ... and has written what its request makes of that.
WritesOK ==
  \A p \in Workers : pc[p] = "commit" /\ p \notin stale
    => TopicsOf(Pending(p)) = Applied(request[p], TopicsOf(row[Of(p)]))

\* Topics get lost, or come back, only if another request has changed the same
\* address in between: all other requests do exactly what they were asked for, and
\* nothing to other addresses.
SerialUnlessStale ==
  [][\A p \in Workers : Commit(p) /\ p \notin stale =>
       \A e \in Emails : Subscribed(e)' = IF e = Of(p) THEN Applied(request[p], Subscribed(e)) ELSE Subscribed(e)]_vars

\* When the mail confirms a subscription, the address receives these news, unless
\* another request has changed the address since it was read.
ConfirmedStands ==
  \A p \in Workers : pc[p] = "reply" /\ request[p].op = "subscribe" /\ p \notin stale
    => request[p].topics \subseteq Subscribed(Of(p))

\* The inductive invariant.
IInv == TypeOK /\ LocksOK /\ IdsOK /\ ReadsOK /\ WritesOK /\ ConfirmedStands

\* An address is stored as long as it has a topic, and no longer, whatever overlaps:
\* nothing is kept of those who have unsubscribed.
RowsHaveTopics == \A e \in Emails : row[e] # None => row[e].topics # {}

\* Who has unsubscribed and subscribed anew is not touched by a request that has read
\* the old row.
NewRowUntouched ==
  [][\A p \in Workers : Commit(p) /\ seen[p] # None =>
       LET now == row[Of(p)] IN now # None /\ now.id # seen[p].id => row'[Of(p)] = now]_vars

\* Both: what commits is what was asked for, of the row that was meant.
CommitsAreSerial == SerialUnlessStale /\ NewRowUntouched
=============================================================================
