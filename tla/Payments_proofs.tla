-------------------------- MODULE Payments_proofs --------------------------
(***************************************************************************)
(* No interleaving of statements, manual marks and cancelations marks a    *)
(* direct debit as paid or settles a booking twice; what a statement is    *)
(* reported to pay is what was paid; everybody is told the same price; and *)
(* the lists and sheets are complete.                                      *)
(***************************************************************************)
EXTENDS Payments, FiniteSetTheorems, SequenceTheorems, WellFoundedInduction, TLAPS

USE DEF Bookings, history

Locals == InOrder /\ LocksInOrder

-----------------------------------------------------------------------------
(* Types                                                                    *)

IbanMaps == UNION {[S -> Ibans \cup {None}] : S \in SUBSET Ids}

LEMMA IbanMap ==
  ASSUME NEW f \in IbanMaps
  PROVE  DOMAIN f \subseteq Ids /\ \A b \in DOMAIN f : f[b] \in Ibans \cup {None}
  <1>1. PICK S \in SUBSET Ids : f \in [S -> Ibans \cup {None}]
    BY DEF IbanMaps
  <1> QED BY <1>1

LEMMA TxTyped ==
  ASSUME NEW f \in IbanMaps, NEW paid \in BOOLEAN, NEW todo \in SUBSET Ids, NEW next \in Ids \cup {None}
  PROVE  [iban |-> f, paid |-> paid, todo |-> todo, next |-> next] \in Tx
  BY DEF IbanMaps, Tx

LEMMA TxFields ==
  ASSUME NEW t \in Tx
  PROVE  /\ t.iban \in IbanMaps /\ t.paid \in BOOLEAN /\ t.todo \in SUBSET Ids /\ t.next \in Ids \cup {None}
         /\ t = [iban |-> t.iban, paid |-> t.paid, todo |-> t.todo, next |-> t.next]
  BY DEF IbanMaps, Tx

LEMMA NoTxTyped == NoTx \in Tx /\ DOMAIN NoTx.iban = {} /\ NoTx.todo = {} /\ NoTx.next = None
  <1>1. [b \in {} |-> None] \in [{} -> Ibans \cup {None}]
    OBVIOUS
  <1>2. [b \in {} |-> None] \in IbanMaps
    BY <1>1 DEF IbanMaps
  <1> QED BY <1>2, TxTyped DEF NoTx

\* What is read from a statement has the accounts of its lines.
LEMMA RecordsTyped ==
  ASSUME NEW statement \in Files, NEW i \in DOMAIN ReadPaymentRecords(statement)
  PROVE  ReadPaymentRecords(statement)[i].iban \in Ibans
  <1>1. statement.lines \in Seq(Lines)
    BY FilesAssumption DEF Statement
  <1>2. i \in DOMAIN statement.lines /\ ReadPaymentRecords(statement)[i].iban = statement.lines[i].iban
    BY DEF ReadPaymentRecords, PaymentRecord
  <1>3. statement.lines[i] \in Lines
    BY <1>1, <1>2
  <1> QED BY <1>2, <1>3 DEF Lines

\* The accounts of verified payments: bookings of this system, accounts of the file.
LEMMA VerifiedTyped ==
  ASSUME NEW file, NEW rows, \A i \in DOMAIN file : file[i].iban \in Ibans
  PROVE  VerifiedIbans(file, rows) \in IbanMaps
  <1> DEFINE S == UNION {Verified(file, rows, i) : i \in DOMAIN file}
             k(b) == CHOOSE i \in DOMAIN file : b \in Verified(file, rows, i)
  <1>1. S \subseteq Ids
    BY DEF Verified, Matched
  <1>2. ASSUME NEW b \in S PROVE file[k(b)].iban \in Ibans
    <2>1. k(b) \in DOMAIN file
      <3>1. \E i \in DOMAIN file : b \in Verified(file, rows, i)
        BY <1>2
      <3> QED BY <3>1
    <2> HIDE DEF k
    <2> QED BY <2>1
  <1>3. VerifiedIbans(file, rows) = [b \in S |-> file[k(b)].iban]
    BY DEF VerifiedIbans
  <1> HIDE DEF S, k
  <1>4. [b \in S |-> file[k(b)].iban] \in [S -> Ibans \cup {None}]
    BY <1>2
  <1> QED BY <1>1, <1>3, <1>4 DEF IbanMaps

LEMMA MarkedTyped ==
  ASSUME NEW r \in Row, NEW t \in Tx, NEW b \in DOMAIN t.iban
  PROVE  Marked(r, t, b) \in Row
  <1>1. t.iban[b] \in Ibans \cup {None} /\ t.paid \in BOOLEAN
    BY TxFields, IbanMap
  <1> DEFINE i == IF t.iban[b] = None THEN r.iban ELSE t.iban[b]
  <1>2. i \in Ibans \cup {None}
    BY <1>1 DEF Row
  <1>3. Marked(r, t, b) = [r EXCEPT !.paid = t.paid, !.iban = i]
    BY DEF Marked
  <1> HIDE DEF i
  <1> QED BY <1>1, <1>2, <1>3 DEF Row

-----------------------------------------------------------------------------
(* The steps                                                                *)

\* A request that ends has released its locks.
LEMMA IdleKeeps ==
  ASSUME TypeOK, Locals, NEW p \in Workers, Idle(p)
  PROVE  /\ lock' \in [Ids -> Workers \cup {None}]
         /\ pc' \in [Workers -> {"idle", "check", "mark"}]
         /\ tx' \in [Workers -> Tx]
         /\ InOrder'
         /\ \A b \in Ids : lock'[b] # None => lock'[b] = lock[b] /\ lock[b] # p
         /\ \A b \in Ids : lock'[b] # None => pc'[lock'[b]] = "mark" /\ b \in DOMAIN tx'[lock'[b]].iban
  <1>1. lock' \in [Ids -> Workers \cup {None}] /\ pc' \in [Workers -> {"idle", "check", "mark"}] /\ tx' \in [Workers -> Tx]
    BY NoTxTyped DEF Idle, ReleasedLocks, TypeOK
  <1>2. pc'[p] = "idle" /\ tx'[p] = NoTx /\ \A q \in Workers \ {p} : pc'[q] = pc[q] /\ tx'[q] = tx[q]
    BY DEF Idle, TypeOK
  <1>3. InOrder'
    <2>1. ASSUME NEW q \in Workers
          PROVE  /\ tx'[q].todo \subseteq DOMAIN tx'[q].iban /\ tx'[q].next \in DOMAIN tx'[q].iban \cup {None}
                 /\ pc'[q] = "check" => tx'[q].todo = DOMAIN tx'[q].iban
                 /\ pc'[q] = "mark" => OnlyBankTransfers(DOMAIN tx'[q].iban)
      <3>1. CASE q = p
        BY <3>1, <1>2, NoTxTyped
      <3>2. CASE q # p
        BY <3>2, <1>2 DEF Locals, InOrder
      <3> QED BY <3>1, <3>2
    <2> QED BY <2>1 DEF InOrder, OnlyBankTransfers
  <1>4. ASSUME NEW b \in Ids, lock'[b] # None PROVE lock'[b] = lock[b] /\ lock[b] # p
    BY <1>4 DEF Idle, ReleasedLocks
  <1>5. ASSUME NEW b \in Ids, lock'[b] # None PROVE pc'[lock'[b]] = "mark" /\ b \in DOMAIN tx'[lock'[b]].iban
    <2>1. lock[b] \in Workers \ {p} /\ lock'[b] = lock[b]
      BY <1>4, <1>5 DEF TypeOK
    <2> QED BY <2>1, <1>2, <1>5 DEF Locals, LocksInOrder
  <1> QED BY <1>1, <1>3, <1>4, <1>5

LEMMA FailStep ==
  ASSUME IInv, NEW p \in Workers, Fail(p)
  PROVE  IInv'
  <1>1. TypeOK /\ Locals /\ Idle(p)
    BY DEF IInv, Locals, Fail
  <1>2. version' \in [Ids -> Row]
    BY DEF IInv, TypeOK, Fail, Restored
  <1>3. TypeOK'
    BY <1>1, <1>2, IdleKeeps DEF IInv, TypeOK, Fail
  <1>4. \A b \in Ids : lock'[b] = None => version'[b] = row'[b]
    BY DEF IInv, TypeOK, LocksInOrder, Fail, Restored, Idle, ReleasedLocks
  <1> QED BY <1>1, <1>3, <1>4, IdleKeeps DEF IInv, LocksInOrder, DebitsUntouched, Fail

\* Either kind of request starts with its bookings listed.
LEMMA BeginStep ==
  ASSUME IInv, NEW p \in Workers, NEW ibans \in IbanMaps, NEW paid \in BOOLEAN,
         pc[p] = "idle", Begin(p, ibans, paid), work' \in Nat, UNCHANGED <<row, version, lock, form, history>>
  PROVE  IInv'
  <1> DEFINE t == [iban |-> ibans, paid |-> paid, todo |-> DOMAIN ibans, next |-> None]
  <1>1. t \in Tx
    BY TxTyped, IbanMap
  <1>2. tx' = [tx EXCEPT ![p] = t] /\ pc' = [pc EXCEPT ![p] = "check"]
    BY DEF Begin
  <1>3. t.todo = DOMAIN t.iban /\ t.next = None
    OBVIOUS
  <1> HIDE DEF t
  <1>4. TypeOK'
    BY <1>1, <1>2 DEF IInv, TypeOK
  <1>5. InOrder'
    <2>1. ASSUME NEW q \in Workers
          PROVE  /\ tx'[q].todo \subseteq DOMAIN tx'[q].iban /\ tx'[q].next \in DOMAIN tx'[q].iban \cup {None}
                 /\ pc'[q] = "check" => tx'[q].todo = DOMAIN tx'[q].iban
                 /\ pc'[q] = "mark" => OnlyBankTransfers(DOMAIN tx'[q].iban)
      <3>1. CASE q = p
        BY <3>1, <1>2, <1>3 DEF IInv, TypeOK
      <3>2. CASE q # p
        BY <3>2, <1>2 DEF IInv, TypeOK, InOrder
      <3> QED BY <3>1, <3>2
    <2> QED BY <2>1 DEF InOrder, OnlyBankTransfers
  <1>6. LocksInOrder'
    <2>1. ASSUME NEW b \in Ids, lock[b] # None PROVE pc'[lock[b]] = "mark" /\ b \in DOMAIN tx'[lock[b]].iban
      <3>1. lock[b] \in Workers \ {p}
        BY <2>1 DEF IInv, TypeOK, LocksInOrder
      <3> QED BY <3>1, <2>1, <1>2 DEF IInv, TypeOK, LocksInOrder
    <2> QED BY <2>1 DEF IInv, LocksInOrder
  <1> QED BY <1>4, <1>5, <1>6 DEF IInv, DebitsUntouched

LEMMA WorkTyped ==
  ASSUME TypeOK, NEW kind, Arrives(kind)
  PROVE  work' \in Nat
  BY DEF TypeOK, Arrives

LEMMA RequestStep ==
  ASSUME IInv, NEW p \in Workers, VerifyPayments(p) \/ UpdatePayment(p)
  PROVE  IInv'
  <1>1. CASE VerifyPayments(p)
    <2>1. PICK statement \in Files : Begin(p, VerifiedIbans(ReadPaymentRecords(statement), row), TRUE)
      BY <1>1 DEF VerifyPayments
    <2>2. VerifiedIbans(ReadPaymentRecords(statement), row) \in IbanMaps
      BY RecordsTyped, VerifiedTyped
    <2>3. work' \in Nat
      BY <1>1, WorkTyped DEF VerifyPayments, IInv
    <2> QED BY <1>1, <2>1, <2>2, <2>3, BeginStep DEF VerifyPayments
  <1>2. CASE UpdatePayment(p)
    <2>1. PICK b \in Ids, paid \in BOOLEAN : Begin(p, [c \in {b} |-> None], paid)
      BY <1>2 DEF UpdatePayment
    <2>2. [c \in {b} |-> None] \in [{b} -> Ibans \cup {None}]
      OBVIOUS
    <2>3. [c \in {b} |-> None] \in IbanMaps
      BY <2>2 DEF IbanMaps
    <2>4. work' \in Nat
      BY <1>2, WorkTyped DEF UpdatePayment, IInv
    <2> QED BY <1>2, <2>1, <2>3, <2>4, BeginStep DEF UpdatePayment
  <1> QED BY <1>1, <1>2

LEMMA CheckMethodsStep ==
  ASSUME IInv, NEW p \in Workers, CheckMethods(p)
  PROVE  IInv'
  <1>1. CASE ~OnlyBankTransfers(tx[p].todo)
    BY <1>1, FailStep DEF CheckMethods
  <1>2. CASE OnlyBankTransfers(tx[p].todo)
    <2>1. pc' = [pc EXCEPT ![p] = "mark"] /\ UNCHANGED <<row, version, lock, tx, form, work, history>>
      BY <1>2 DEF CheckMethods
    <2>2. OnlyBankTransfers(DOMAIN tx[p].iban)
      BY <1>2 DEF CheckMethods, IInv, InOrder
    <2>3. TypeOK'
      BY <2>1 DEF IInv, TypeOK
    <2>4. InOrder'
      BY <2>1, <2>2 DEF IInv, TypeOK, InOrder, OnlyBankTransfers
    <2>5. LocksInOrder'
      BY <2>1 DEF IInv, TypeOK, LocksInOrder
    <2> QED BY <2>1, <2>3, <2>4, <2>5 DEF IInv, DebitsUntouched
  <1> QED BY <1>1, <1>2

LEMMA NextBookingStep ==
  ASSUME IInv, NEW p \in Workers, NextBooking(p)
  PROVE  IInv'
  <1>1. PICK b \in tx[p].todo : tx' = [tx EXCEPT ![p] = [tx[p] EXCEPT !.next = b, !.todo = @ \ {b}]]
    BY DEF NextBooking, IInv, TypeOK
  <1>2. tx[p] \in Tx /\ b \in Ids
    BY TxFields DEF IInv, TypeOK
  <1> DEFINE t == [tx[p] EXCEPT !.next = b, !.todo = @ \ {b}]
  <1>3. t \in Tx /\ t.iban = tx[p].iban /\ t.next = b /\ t.todo \subseteq tx[p].todo
    BY <1>2 DEF Tx
  <1>4. tx' = [tx EXCEPT ![p] = t]
    BY <1>1
  <1> HIDE DEF t
  <1>5. TypeOK'
    BY <1>3, <1>4 DEF NextBooking, IInv, TypeOK
  <1>6. \A q \in Workers : tx'[q].iban = tx[q].iban
    BY <1>3, <1>4 DEF IInv, TypeOK
  <1>7. InOrder'
    <2>1. ASSUME NEW q \in Workers
          PROVE  /\ tx'[q].todo \subseteq DOMAIN tx'[q].iban /\ tx'[q].next \in DOMAIN tx'[q].iban \cup {None}
                 /\ pc'[q] = "check" => tx'[q].todo = DOMAIN tx'[q].iban
                 /\ pc'[q] = "mark" => OnlyBankTransfers(DOMAIN tx'[q].iban)
      <3>1. CASE q = p
        BY <3>1, <1>3, <1>4 DEF NextBooking, IInv, TypeOK, InOrder
      <3>2. CASE q # p
        BY <3>2, <1>4 DEF NextBooking, IInv, TypeOK, InOrder
      <3> QED BY <3>1, <3>2
    <2> QED BY <2>1 DEF InOrder, OnlyBankTransfers
  <1>8. LocksInOrder'
    BY <1>6 DEF NextBooking, IInv, TypeOK, LocksInOrder
  <1> QED BY <1>5, <1>7, <1>8 DEF NextBooking, IInv, DebitsUntouched

LEMMA MarkBookingStep ==
  ASSUME IInv, NEW p \in Workers, MarkBooking(p)
  PROVE  IInv'
  <1> DEFINE b == tx[p].next
             t == [tx[p] EXCEPT !.next = None]
  <1>1. tx[p] \in Tx /\ b \in DOMAIN tx[p].iban /\ b \in Ids
    BY TxFields DEF MarkBooking, IInv, TypeOK, InOrder
  <1>2. t \in Tx /\ t.iban = tx[p].iban /\ t.next = None /\ t.todo = tx[p].todo
    BY <1>1 DEF Tx
  <1>3. Marked(version[b], tx[p], b) \in Row
    BY <1>1, MarkedTyped DEF IInv, TypeOK
  <1>4. /\ tx' = [tx EXCEPT ![p] = t] /\ lock' = [lock EXCEPT ![b] = p]
        /\ version' = [version EXCEPT ![b] = Marked(version[b], tx[p], b)]
        /\ pc[p] = "mark" /\ UNCHANGED <<row, pc, form, work, history>>
    BY DEF MarkBooking
  <1> HIDE DEF t, b
  <1>5. TypeOK'
    BY <1>1, <1>2, <1>3, <1>4 DEF IInv, TypeOK
  <1>6. \A q \in Workers : tx'[q].iban = tx[q].iban
    BY <1>2, <1>4 DEF IInv, TypeOK
  <1>7. InOrder'
    <2>1. ASSUME NEW q \in Workers
          PROVE  /\ tx'[q].todo \subseteq DOMAIN tx'[q].iban /\ tx'[q].next \in DOMAIN tx'[q].iban \cup {None}
                 /\ pc'[q] = "check" => tx'[q].todo = DOMAIN tx'[q].iban
                 /\ pc'[q] = "mark" => OnlyBankTransfers(DOMAIN tx'[q].iban)
      BY <1>2, <1>4 DEF IInv, TypeOK, InOrder
    <2> QED BY <2>1 DEF InOrder, OnlyBankTransfers
  <1>8. LocksInOrder'
    <2>1. ASSUME NEW c \in Ids, lock'[c] = None PROVE version'[c] = row'[c]
      BY <1>4, <2>1, WorkersAssumption DEF IInv, TypeOK, LocksInOrder
    <2>2. ASSUME NEW c \in Ids, lock'[c] # None PROVE pc'[lock'[c]] = "mark" /\ c \in DOMAIN tx'[lock'[c]].iban
      <3>1. CASE c = b
        BY <3>1, <1>1, <1>4, <1>6 DEF IInv, TypeOK
      <3>2. CASE c # b
        <4>1. lock'[c] = lock[c] /\ lock[c] \in Workers
          BY <3>2, <2>2, <1>4 DEF IInv, TypeOK
        <4> QED BY <4>1, <2>2, <1>4, <1>6 DEF IInv, LocksInOrder
      <3> QED BY <3>1, <3>2
    <2> QED BY <2>1, <2>2 DEF LocksInOrder
  <1> QED BY <1>4, <1>5, <1>7, <1>8 DEF IInv, DebitsUntouched

\* What a transaction has locked is not direct debit, so its commit changes none.
LEMMA CommitStep ==
  ASSUME IInv, NEW p \in Workers, Commit(p)
  PROVE  IInv'
  <1>1. TypeOK /\ Locals /\ Idle(p)
    BY DEF IInv, Locals, Commit
  <1>2. row' \in [Ids -> Row]
    BY DEF IInv, TypeOK, Commit
  <1>3. payments' \in [Ids -> Nat] /\ crossed' \subseteq Ids
    <2>1. payments' \in [Ids -> Nat]
      BY DEF IInv, TypeOK, Commit
    <2>2. DOMAIN tx[p].iban \subseteq Ids
      BY TxFields, IbanMap DEF IInv, TypeOK
    <2> QED BY <2>1, <2>2 DEF IInv, TypeOK, Commit, Crossed
  <1>4. TypeOK'
    BY <1>1, <1>2, <1>3, IdleKeeps DEF IInv, TypeOK, Commit
  <1>5. \A b \in Ids : lock'[b] = None => version'[b] = row'[b]
    BY DEF IInv, TypeOK, LocksInOrder, Commit, Idle, ReleasedLocks
  <1>6. DebitsUntouched'
    <2>1. ASSUME NEW b \in Sepa PROVE row'[b] = row[b]
      BY IdsAssumption, WorkersAssumption DEF IInv, InOrder, LocksInOrder, OnlyBankTransfers, Commit
    <2> QED BY <2>1 DEF IInv, DebitsUntouched
  <1> QED BY <1>1, <1>4, <1>5, <1>6, IdleKeeps DEF IInv, LocksInOrder

LEMMA CancelStep ==
  ASSUME IInv, NEW p \in Workers, Cancel(p)
  PROVE  IInv'
  <1> DEFINE M(b, first) ==
        /\ lock[b] = None /\ \A c \in first : lock[c] = None
        /\ row' = [c \in Ids |-> IF c = b THEN [row[b] EXCEPT !.canceled = TRUE]
                                 ELSE IF c \in first THEN [row[c] EXCEPT !.enrolled = TRUE]
                                 ELSE row[c]]
        /\ version' = [c \in Ids |-> IF c \in first \cup {b} THEN row'[c] ELSE version[c]]
        /\ crossed' = Crossed(p, first \cup {b})
        /\ promoted' = promoted \cup first
  <1>1. PICK b \in Ids, first \in SUBSET Ids : M(b, first)
    <2> DEFINE line(b) == Waiting(b) \ {b}
               first(b) == {c \in line(b) : row[b].enrolled /\ \A d \in line(b) : c <= d}
    <2>1. PICK b \in Ids : M(b, first(b))
      BY Zenon DEF Cancel
    <2>2. first(b) \in SUBSET Ids
      BY DEF Waiting
    <2> QED BY Zenon, <2>1, <2>2
  <1>2. UNCHANGED <<lock, pc, tx, form, payments>> /\ work' \in Nat
    BY WorkTyped DEF Cancel, IInv
  <1>3. ASSUME NEW c \in Ids PROVE row'[c] \in Row /\ row'[c].paid = row[c].paid /\ row'[c].iban = row[c].iban
    <2>1. row[c] \in Row
      BY DEF IInv, TypeOK
    <2>2. row'[c] \in {row[c], [row[c] EXCEPT !.canceled = TRUE], [row[c] EXCEPT !.enrolled = TRUE]}
      BY <1>1
    <2> QED BY <2>1, <2>2 DEF Row
  <1>4. TypeOK'
    <2>1. row' \in [Ids -> Row]
      BY <1>1, <1>3
    <2>2. version' \in [Ids -> Row]
      BY <1>1, <1>3 DEF IInv, TypeOK
    <2>3. crossed' \subseteq Ids /\ promoted' \subseteq Ids
      BY <1>1 DEF IInv, TypeOK, Crossed
    <2> QED BY <2>1, <2>2, <2>3, <1>2 DEF IInv, TypeOK
  <1>5. InOrder'
    BY <1>2 DEF IInv, InOrder
  <1>6. LocksInOrder'
    <2>1. ASSUME NEW c \in Ids, lock'[c] = None PROVE version'[c] = row'[c]
      BY <1>1, <1>2, <2>1 DEF IInv, TypeOK, LocksInOrder
    <2> QED BY <2>1, <1>2 DEF IInv, LocksInOrder
  <1>7. DebitsUntouched'
    BY <1>3, IdsAssumption DEF IInv, DebitsUntouched
  <1> QED BY <1>4, <1>5, <1>6, <1>7 DEF IInv

LEMMA UpdateFieldsStep ==
  ASSUME IInv, UpdateFields
  PROVE  IInv'
  <1>1. UNCHANGED <<row, version, lock, pc, tx, history>>
    BY DEF UpdateFields
  <1>2. form' \in Form
    BY DEF UpdateFields, IInv, TypeOK, Form
  <1>3. work' \in Nat
    BY WorkTyped DEF UpdateFields, IInv
  <1> QED BY <1>1, <1>2, <1>3 DEF IInv, TypeOK, InOrder, LocksInOrder, DebitsUntouched

-----------------------------------------------------------------------------
\* The inductive invariant holds in every reachable state.
THEOREM IInvariant == Spec => []IInv
  <1>1. Init => IInv
    <2> SUFFICES ASSUME Init PROVE IInv OBVIOUS
    <2>1. TypeOK
      <3>1. form \in Form
        BY DEF Init, Form
      <3> QED BY <3>1, NoTxTyped DEF Init, TypeOK
    <2>2. InOrder
      BY NoTxTyped DEF Init, InOrder
    <2>3. LocksInOrder
      BY DEF Init, LocksInOrder
    <2>4. DebitsUntouched
      BY IdsAssumption DEF Init, DebitsUntouched
    <2> QED BY <2>1, <2>2, <2>3, <2>4 DEF IInv
  <1>2. IInv /\ [Next]_vars => IInv'
    <2> SUFFICES ASSUME IInv, [Next]_vars PROVE IInv' OBVIOUS
    <2>1. ASSUME NEW p \in Workers, VerifyPayments(p) \/ UpdatePayment(p) \/ Cancel(p) PROVE IInv'
      BY <2>1, RequestStep, CancelStep
    <2>2. ASSUME NEW p \in Workers, Serve(p) PROVE IInv'
      BY <2>2, CheckMethodsStep, NextBookingStep, MarkBookingStep, CommitStep DEF Serve
    <2>3. ASSUME NEW p \in Workers, DeadlockVictim(p) \/ Abort(p) PROVE IInv'
      BY <2>3, FailStep DEF DeadlockVictim, Abort
    <2>4. CASE UpdateFields
      BY <2>4, UpdateFieldsStep
    <2>5. CASE UNCHANGED vars
      BY <2>5 DEF vars, IInv, TypeOK, InOrder, LocksInOrder, DebitsUntouched
    <2> QED BY <2>1, <2>2, <2>3, <2>4, <2>5 DEF Next
  <1> QED BY <1>1, <1>2, PTL DEF Spec

\* No statement and no administrator ever marks a direct debit as paid or takes its
\* account away, for any number of them, any statements and any bookings.
THEOREM DebitsStayUntouched == Spec => []DebitsUntouched
  <1>1. IInv => DebitsUntouched
    BY DEF IInv
  <1> QED BY <1>1, IInvariant, PTL

-----------------------------------------------------------------------------
(* A booking is paid once                                                   *)

\* What a statement settles is no problem when it is compared.
LEMMA VerifiedIsNoProblem ==
  ASSUME NEW file, NEW rows, NEW b \in DOMAIN VerifiedIbans(file, rows)
  PROVE  ~Problem(rows[b])
  BY DEF VerifiedIbans, Verified

\* The two parts of the invariant, for one worker and for one booking.
Marks(p) ==
  pc[p] = "mark" =>
    \A b \in DOMAIN tx[p].iban \ (tx[p].todo \cup {tx[p].next}) : lock[b] = p /\ version[b].paid = tx[p].paid

Payment(b) ==
  /\ payments[b] = 0 \/ (payments[b] = 1 /\ row[b].paid)
  /\ \A p \in Workers : Settling(p, b) => tx[p].paid /\ ~Problem(row[b])

Parts == (\A p \in Workers : Marks(p)) /\ (\A b \in Ids \ crossed : Payment(b))

LEMMA PInvParts == (MarksInOrder /\ PaymentsInOrder) <=> Parts
  BY DEF MarksInOrder, PaymentsInOrder, Parts, Marks, Payment

\* Without a change of the rows and of the other transactions nothing new is settled.
LEMMA PaymentKept ==
  ASSUME Parts, UNCHANGED <<row, history>>, NEW p \in Workers,
         \A q \in Workers \ {p} : pc'[q] = pc[q] /\ tx'[q] = tx[q],
         \A b \in Ids \ crossed : Settling(p, b)' => (tx'[p].paid /\ ~Problem(row[b]))
  PROVE  \A b \in Ids \ crossed' : Payment(b)'
  <1> SUFFICES ASSUME NEW b \in Ids \ crossed PROVE Payment(b)'
    OBVIOUS
  <1>1. ASSUME NEW q \in Workers, Settling(q, b)' PROVE tx'[q].paid /\ ~Problem(row[b])
    <2>1. CASE q = p
      BY <1>1, <2>1
    <2>2. CASE q # p
      BY <1>1, <2>2 DEF Parts, Payment, Settling
    <2> QED BY <2>1, <2>2
  <1> QED BY <1>1 DEF Parts, Payment, Problem

LEMMA FailParts ==
  ASSUME IInv, Parts, NEW p \in Workers, Fail(p)
  PROVE  Parts'
  <1>1. pc'[p] = "idle" /\ \A q \in Workers \ {p} : pc'[q] = pc[q] /\ tx'[q] = tx[q]
    BY DEF Fail, Idle, IInv, TypeOK
  <1>2. ASSUME NEW q \in Workers PROVE Marks(q)'
    <2>1. CASE q = p
      BY <2>1, <1>1 DEF Marks
    <2>2. CASE q # p
      <3>1. \A b \in Ids : lock[b] = q => lock'[b] = q /\ version'[b] = version[b]
        BY <2>2 DEF Fail, Idle, ReleasedLocks, Restored
      <3>2. DOMAIN tx[q].iban \subseteq Ids
        BY TxFields, IbanMap DEF IInv, TypeOK
      <3> QED BY <2>2, <1>1, <3>1, <3>2 DEF Parts, Marks
    <2> QED BY <2>1, <2>2
  <1>3. \A b \in Ids \ crossed' : Payment(b)'
    <2>1. UNCHANGED <<row, history>> /\ \A b \in Ids : ~Settling(p, b)'
      BY <1>1 DEF Fail, Settling
    <2> QED BY <2>1, <1>1, PaymentKept
  <1> QED BY <1>2, <1>3 DEF Parts

LEMMA BeginParts ==
  ASSUME IInv, Parts, NEW p \in Workers, NEW ibans, NEW paid,
         pc[p] = "idle", Begin(p, ibans, paid), UNCHANGED <<row, version, lock, history>>,
         \A b \in DOMAIN ibans : ibans[b] # None => paid /\ ~Problem(row[b])
  PROVE  Parts'
  <1>1. /\ pc'[p] = "check" /\ tx'[p].iban = ibans /\ tx'[p].paid = paid
        /\ \A q \in Workers \ {p} : pc'[q] = pc[q] /\ tx'[q] = tx[q]
    BY DEF Begin, IInv, TypeOK
  <1>2. ASSUME NEW q \in Workers PROVE Marks(q)'
    BY <1>1 DEF Parts, Marks
  <1>3. \A b \in Ids \ crossed' : Payment(b)'
    <2>1. \A b \in Ids : Settling(p, b)' => (tx'[p].paid /\ ~Problem(row[b]))
      BY <1>1 DEF Settling
    <2> QED BY <2>1, <1>1, PaymentKept
  <1> QED BY <1>2, <1>3 DEF Parts

LEMMA RequestParts ==
  ASSUME IInv, Parts, NEW p \in Workers, VerifyPayments(p) \/ UpdatePayment(p)
  PROVE  Parts'
  <1>1. CASE VerifyPayments(p)
    <2>1. PICK statement \in Files : Begin(p, VerifiedIbans(ReadPaymentRecords(statement), row), TRUE)
      BY <1>1 DEF VerifyPayments
    <2>2. \A b \in DOMAIN VerifiedIbans(ReadPaymentRecords(statement), row) : ~Problem(row[b])
      BY VerifiedIsNoProblem
    <2>3. pc[p] = "idle" /\ UNCHANGED <<row, version, lock, history>>
      BY <1>1 DEF VerifyPayments
    <2> QED BY <2>1, <2>2, <2>3, BeginParts
  <1>2. CASE UpdatePayment(p)
    <2>1. PICK b \in Ids, paid \in BOOLEAN : Begin(p, [c \in {b} |-> None], paid)
      BY <1>2 DEF UpdatePayment
    <2>2. pc[p] = "idle" /\ UNCHANGED <<row, version, lock, history>>
      BY <1>2 DEF UpdatePayment
    <2> QED BY <2>1, <2>2, BeginParts
  <1> QED BY <1>1, <1>2

LEMMA CheckParts ==
  ASSUME IInv, Parts, NEW p \in Workers, CheckMethods(p)
  PROVE  Parts'
  <1>1. CASE ~OnlyBankTransfers(tx[p].todo)
    BY <1>1, FailParts DEF CheckMethods
  <1>2. CASE OnlyBankTransfers(tx[p].todo)
    <2>1. /\ pc[p] = "check" /\ pc' = [pc EXCEPT ![p] = "mark"]
          /\ UNCHANGED <<row, version, lock, tx, history>>
      BY <1>2 DEF CheckMethods
    <2>2. tx[p].todo = DOMAIN tx[p].iban
      BY <2>1 DEF IInv, InOrder
    <2>3. ASSUME NEW q \in Workers PROVE Marks(q)'
      BY <2>1, <2>2 DEF Parts, Marks, IInv, TypeOK
    <2>4. \A b \in Ids \ crossed' : Payment(b)'
      <3>1. \A b \in Ids : Settling(p, b)' => Settling(p, b)
        BY <2>1 DEF Settling
      <3>2. \A q \in Workers \ {p} : pc'[q] = pc[q] /\ tx'[q] = tx[q]
        BY <2>1 DEF IInv, TypeOK
      <3> QED BY <3>1, <3>2, <2>1, PaymentKept DEF Parts, Payment
    <2> QED BY <2>3, <2>4 DEF Parts
  <1> QED BY <1>1, <1>2

\* Choosing the next booking and marking it leave the rest of the locals alone.
LEMMA MarkParts ==
  ASSUME IInv, Parts, NEW p \in Workers, NextBooking(p) \/ MarkBooking(p)
  PROVE  Parts'
  <1>1. tx[p] \in Tx /\ DOMAIN tx[p].iban \subseteq Ids
    BY TxFields, IbanMap DEF IInv, TypeOK
  <1>2. ASSUME NextBooking(p)
        PROVE  \E b \in tx[p].todo :
                 /\ tx' = [tx EXCEPT ![p] = [tx[p] EXCEPT !.next = b, !.todo = @ \ {b}]]
                 /\ tx[p].next = None /\ UNCHANGED <<row, version, lock, pc, history>>
    BY <1>2 DEF NextBooking, IInv, TypeOK
  <1>3. ASSUME UNCHANGED <<pc, row, history>>, \A q \in Workers \ {p} : tx'[q] = tx[q],
               tx'[p].iban = tx[p].iban, tx'[p].paid = tx[p].paid
        PROVE  \A b \in Ids \ crossed' : Payment(b)'
    <2>1. \A b \in Ids : Settling(p, b)' => Settling(p, b)
      BY <1>3 DEF Settling
    <2> QED BY <2>1, <1>3, PaymentKept DEF Parts, Payment
  <1>4. CASE NextBooking(p)
    <2>1. PICK b \in tx[p].todo :
            /\ tx' = [tx EXCEPT ![p] = [tx[p] EXCEPT !.next = b, !.todo = @ \ {b}]]
            /\ tx[p].next = None /\ UNCHANGED <<row, version, lock, pc, history>>
      BY <1>4, <1>2
    <2>2. /\ \A q \in Workers \ {p} : tx'[q] = tx[q]
          /\ tx'[p].iban = tx[p].iban /\ tx'[p].paid = tx[p].paid
          /\ tx'[p].todo = tx[p].todo \ {b} /\ tx'[p].next = b
      BY <2>1, <1>1 DEF IInv, TypeOK, Tx
    <2>3. ASSUME NEW q \in Workers PROVE Marks(q)'
      <3>1. None \notin DOMAIN tx[p].iban
        BY <1>1, IdsAssumption
      <3>2. CASE q = p
        BY <3>1, <3>2, <2>1, <2>2 DEF Parts, Marks
      <3>3. CASE q # p
        BY <3>3, <2>1, <2>2 DEF Parts, Marks
      <3> QED BY <3>2, <3>3
    <2> QED BY <2>1, <2>2, <2>3, <1>3 DEF Parts
  <1>5. CASE MarkBooking(p)
    <2> DEFINE b == tx[p].next
    <2>1. /\ b \in Ids /\ lock[b] \in {None, p} /\ tx'[p].todo = tx[p].todo
          /\ lock' = [lock EXCEPT ![b] = p] /\ version' = [version EXCEPT ![b] = Marked(version[b], tx[p], b)]
      BY <1>5, <1>1 DEF MarkBooking, Free, IInv, TypeOK, InOrder, Tx
    <2>2. Marked(version[b], tx[p], b).paid = tx[p].paid
      BY <2>1 DEF Marked, IInv, TypeOK, Row
    <2> HIDE DEF b
    <2>3. lock'[b] = p /\ version'[b].paid = tx[p].paid
      BY <2>1, <2>2 DEF IInv, TypeOK
    <2>4. \A c \in Ids \ {b} : lock'[c] = lock[c] /\ version'[c] = version[c]
      BY <2>1 DEF IInv, TypeOK
    <2>5. /\ UNCHANGED <<pc, row, history>> /\ pc[p] = "mark" /\ \A q \in Workers \ {p} : tx'[q] = tx[q]
          /\ tx'[p].iban = tx[p].iban /\ tx'[p].paid = tx[p].paid
      BY <1>5, <1>1 DEF MarkBooking, IInv, TypeOK, Tx
    <2>6. ASSUME NEW q \in Workers PROVE Marks(q)'
      <3>1. CASE q = p
        BY <3>1, <2>1, <2>3, <2>4, <2>5, <1>1 DEF Parts, Marks, b
      <3>2. CASE q # p
        <4>1. DOMAIN tx[q].iban \subseteq Ids
          BY TxFields, IbanMap DEF IInv, TypeOK
        <4>2. lock[b] # q
          BY <3>2, <2>1, WorkersAssumption
        <4> QED BY <3>2, <4>1, <4>2, <2>4, <2>5 DEF Parts, Marks
      <3> QED BY <3>1, <3>2
    <2> QED BY <2>5, <2>6, <1>3 DEF Parts
  <1> QED BY <1>4, <1>5

\* A commit adds a payment to what was no problem, and nobody else is about to do so.
LEMMA CommitParts ==
  ASSUME IInv, Parts, NEW p \in Workers, Commit(p)
  PROVE  Parts'
  <1>1. pc'[p] = "idle" /\ \A q \in Workers \ {p} : pc'[q] = pc[q] /\ tx'[q] = tx[q]
    BY DEF Commit, Idle, IInv, TypeOK
  <1>2. ASSUME NEW q \in Workers PROVE Marks(q)'
    <2>1. CASE q = p
      BY <2>1, <1>1 DEF Marks
    <2>2. CASE q # p
      <3>1. \A b \in Ids : lock[b] = q => lock'[b] = q
        BY <2>2 DEF Commit, Idle, ReleasedLocks
      <3>2. DOMAIN tx[q].iban \subseteq Ids /\ version' = version
        BY TxFields, IbanMap DEF IInv, TypeOK, Commit
      <3> QED BY <2>2, <1>1, <3>1, <3>2 DEF Parts, Marks
    <2> QED BY <2>1, <2>2
  <1>3. ASSUME NEW b \in Ids \ crossed' PROVE Payment(b)'
    <2>1. b \notin crossed /\ Payment(b) /\ payments[b] \in Nat
      BY <1>3 DEF Commit, Crossed, Parts, IInv, TypeOK
    <2>2. CASE b \in DOMAIN tx[p].iban
      <3>1. lock[b] = p /\ version[b].paid = tx[p].paid
        BY <2>2, IdsAssumption DEF Commit, Parts, Marks
      <3>2. row'[b].paid = tx[p].paid
        BY <3>1 DEF Commit
      <3>3. ASSUME NEW q \in Workers PROVE ~Settling(q, b)'
        BY <1>1, <1>3, <2>2 DEF Settling, Commit, Crossed
      <3>4. payments'[b] = 0 \/ (payments'[b] = 1 /\ tx[p].paid)
        <4>1. CASE ~tx[p].paid
          BY <4>1, <2>2 DEF Commit
        <4>2. CASE tx[p].paid /\ tx[p].iban[b] = None
          BY <4>2, <2>1, <2>2 DEF Commit, Payment
        <4>3. CASE tx[p].paid /\ tx[p].iban[b] # None
          <5>1. Settling(p, b)
            BY <4>3, <2>2 DEF Settling, Commit
          <5>2. payments[b] = 0
            BY <5>1, <2>1 DEF Payment, Problem
          <5> QED BY <5>2, <4>3, <2>2 DEF Commit
        <4> QED BY <4>1, <4>2, <4>3
      <3> QED BY <3>2, <3>3, <3>4 DEF Payment
    <2>3. CASE b \notin DOMAIN tx[p].iban
      <3>1. row'[b] = row[b] /\ payments'[b] = payments[b]
        BY <2>3, WorkersAssumption DEF Commit, IInv, TypeOK, LocksInOrder
      <3>2. ASSUME NEW q \in Workers, Settling(q, b)' PROVE Settling(q, b) /\ tx'[q].paid = tx[q].paid
        BY <3>2, <1>1 DEF Settling
      <3> QED BY <3>1, <3>2, <2>1 DEF Payment
    <2> QED BY <2>2, <2>3
  <1> QED BY <1>2, <1>3 DEF Parts

LEMMA CancelParts ==
  ASSUME IInv, Parts, NEW p \in Workers, Cancel(p)
  PROVE  Parts'
  <1> DEFINE M(S) ==
        /\ \A c \in S : lock[c] = None /\ row'[c].paid = row[c].paid
        /\ \A c \in Ids \ S : row'[c] = row[c] /\ version'[c] = version[c]
        /\ crossed' = Crossed(p, S)
  <1>1. PICK S \in SUBSET Ids : M(S)
    <2> DEFINE line(b) == Waiting(b) \ {b}
               first(b) == {c \in line(b) : row[b].enrolled /\ \A d \in line(b) : c <= d}
    <2>1. PICK b \in Ids :
            /\ lock[b] = None /\ \A c \in first(b) : lock[c] = None
            /\ row' = [c \in Ids |-> IF c = b THEN [row[b] EXCEPT !.canceled = TRUE]
                                     ELSE IF c \in first(b) THEN [row[c] EXCEPT !.enrolled = TRUE]
                                     ELSE row[c]]
            /\ version' = [c \in Ids |-> IF c \in first(b) \cup {b} THEN row'[c] ELSE version[c]]
            /\ crossed' = Crossed(p, first(b) \cup {b})
      BY Zenon DEF Cancel
    <2>2. first(b) \in SUBSET Ids
      BY DEF Waiting
    <2> HIDE DEF first
    <2>3. M(first(b) \cup {b})
      <3>1. \A c \in Ids : row[c] \in Row
        BY DEF IInv, TypeOK
      <3> QED BY <2>1, <2>2, <3>1 DEF Row
    <2> HIDE DEF M
    <2> QED BY <2>2, <2>3
  <1>2. UNCHANGED <<lock, pc, tx, payments>> /\ pc[p] = "idle"
    BY DEF Cancel
  <1>3. ASSUME NEW q \in Workers PROVE Marks(q)'
    <2>1. DOMAIN tx[q].iban \subseteq Ids
      BY TxFields, IbanMap DEF IInv, TypeOK
    <2> QED BY <2>1, <1>1, <1>2, WorkersAssumption DEF Parts, Marks
  <1>4. ASSUME NEW b \in Ids \ crossed' PROVE Payment(b)'
    <2>1. Payment(b) /\ row'[b].paid = row[b].paid
      BY <1>1 DEF Parts, Crossed
    <2>2. ASSUME NEW q \in Workers, Settling(q, b)' PROVE tx'[q].paid /\ ~Problem(row'[b])
      <3>1. Settling(q, b) /\ q # p
        BY <2>2, <1>2 DEF Settling
      <3>2. b \notin S
        BY <3>1, <1>1 DEF Crossed, Settling
      <3> QED BY <3>1, <3>2, <1>1, <1>2, <2>1 DEF Payment
    <2> QED BY <2>1, <2>2, <1>2 DEF Payment
  <1> QED BY <1>3, <1>4 DEF Parts

\* The stronger invariant, about what is being settled, holds in every reachable state.
THEOREM PaymentsInvariant == Spec => []PInv
  <1>1. Init => MarksInOrder /\ PaymentsInOrder
    <2>1. Init => Parts
      BY DEF Init, Parts, Marks, Payment, Settling
    <2> QED BY <2>1, PInvParts
  <1>2. IInv /\ Parts /\ [Next]_vars => Parts'
    <2> SUFFICES ASSUME IInv, Parts, [Next]_vars PROVE Parts' OBVIOUS
    <2>1. ASSUME NEW p \in Workers, VerifyPayments(p) \/ UpdatePayment(p) \/ Cancel(p) PROVE Parts'
      BY <2>1, RequestParts, CancelParts
    <2>2. ASSUME NEW p \in Workers, Serve(p) PROVE Parts'
      BY <2>2, CheckParts, MarkParts, CommitParts DEF Serve
    <2>3. ASSUME NEW p \in Workers, DeadlockVictim(p) \/ Abort(p) PROVE Parts'
      BY <2>3, FailParts DEF DeadlockVictim, Abort
    <2>4. CASE UpdateFields \/ UNCHANGED vars
      BY <2>4 DEF vars, UpdateFields, Parts, Marks, Payment, Settling
    <2> QED BY <2>1, <2>2, <2>3, <2>4 DEF Next
  <1>3. Spec => []Parts
    <2>1. Init => Parts
      BY <1>1, PInvParts
    <2> QED BY <2>1, <1>2, IInvariant, PTL DEF Spec
  <1>4. IInv /\ Parts => PInv
    BY PInvParts DEF PInv
  <1> QED BY <1>3, <1>4, IInvariant, PTL

\* However many statements are uploaded at the same time, a booking that nobody changed
\* between a comparison and its commit is settled by one payment.
THEOREM PaidOnlyOnce == Spec => []PaidOnce
  <1>1. PInv => PaidOnce
    BY DEF PInv, PaymentsInOrder, PaidOnce
  <1> QED BY <1>1, PaymentsInvariant, PTL

\* ... and only by one for an attendee.
THEOREM PaymentNeedsSeat == Spec => PaidHasSeat
  <1> DEFINE A == \A b \in Ids \ crossed : payments'[b] > payments[b] => row[b].enrolled /\ ~row[b].canceled
  <1>1. PInv /\ [Next]_vars => [A]_vars
    <2> SUFFICES ASSUME PInv, [Next]_vars, NEW b \in Ids \ crossed, payments'[b] > payments[b]
                 PROVE  row[b].enrolled /\ ~row[b].canceled
      OBVIOUS
    <2>1. payments[b] \in Nat
      BY DEF PInv, IInv, TypeOK
    <2>2. payments' # payments
      BY <2>1
    <2>3. PICK p \in Workers : Commit(p)
      BY <2>2 DEF Next, vars, UpdateFields, VerifyPayments, UpdatePayment, Cancel, Serve, CheckMethods,
                  NextBooking, MarkBooking, DeadlockVictim, Abort, Fail
    <2>4. b \in DOMAIN tx[p].iban /\ tx[p].iban[b] # None
      BY <2>1, <2>3 DEF Commit
    <2>5. Settling(p, b)
      BY <2>3, <2>4 DEF Settling, Commit
    <2> QED BY <2>5 DEF PInv, PaymentsInOrder, Problem
  <1> QED BY <1>1, PaymentsInvariant, PTL DEF Spec, PaidHasSeat

-----------------------------------------------------------------------------
(* Sums over finite sets                                                    *)

\* The induction over finite sets: of some subsets, one has none of the others in it.
LEMMA SmallestSubset ==
  ASSUME NEW S, IsFiniteSet(S), NEW C, C \subseteq SUBSET S, C # {}
  PROVE  \E s \in C : IsFiniteSet(s) /\ \A t \in C : t \subseteq s => t = s
  <1> DEFINE sizes == {Cardinality(s) : s \in C}
  <1>1. \A s \in C : IsFiniteSet(s) /\ Cardinality(s) \in Nat
    BY FS_Subset, FS_CardinalityType
  <1>2. sizes \subseteq Nat /\ sizes # {}
    BY <1>1
  <1>3. \A s \in C : Cardinality(s) \in sizes
    OBVIOUS
  <1>4. \A n \in sizes : \E s \in C : n = Cardinality(s)
    OBVIOUS
  <1> HIDE DEF sizes
  <1>5. PICK n \in sizes : \A m \in sizes : ~(<<m, n>> \in OpToRel(<, Nat))
    BY <1>2, NatLessThanWellFounded, WFMin
  <1>6. \A m \in sizes : ~(m < n)
    BY <1>2, <1>5 DEF OpToRel
  <1>7. PICK s \in C : n = Cardinality(s)
    BY <1>4
  <1>8. ASSUME NEW t \in C, t \subseteq s, t # s PROVE FALSE
    <2>1. Cardinality(t) <= n /\ Cardinality(t) # n
      BY <1>1, <1>7, <1>8, FS_Subset
    <2>2. Cardinality(t) \in Nat /\ n \in Nat /\ ~(Cardinality(t) < n)
      BY <1>1, <1>2, <1>3, <1>6
    <2> QED BY <2>1, <2>2
  <1> QED BY <1>1, <1>8

\* What CHOOSE picks from a set, as the library's fold over sets does.
Picked(s) == CHOOSE x \in s : TRUE

LEMMA PickedIsMember ==
  ASSUME NEW s, s # {}
  PROVE  Picked(s) \in s
  BY DEF Picked

\* The fold is defined by a recursive function on the subsets: g is one for the sum of f.
Adds(f, S, g) == g = [s \in SUBSET S |-> IF s = {} THEN 0 ELSE f[Picked(s)] + g[s \ {Picked(s)}]]

LEMMA SumIsAdded ==
  ASSUME NEW f, NEW S
  PROVE  SumFunctionOnSet(f, S) = (CHOOSE g : Adds(f, S, g))[S]
  BY DEF SumFunctionOnSet, FoldFunctionOnSet, MapThenFoldSet, Adds, Picked

LEMMA AddsStep ==
  ASSUME NEW f, NEW S, NEW g, Adds(f, S, g), NEW s \in SUBSET S
  PROVE  g[s] = IF s = {} THEN 0 ELSE f[Picked(s)] + g[s \ {Picked(s)}]
  BY DEF Adds

\* Two such functions agree where both are defined,
LEMMA AddsUnique ==
  ASSUME NEW f, NEW S, NEW T, NEW g, NEW h, Adds(f, S, g), Adds(f, T, h),
         NEW u, u \subseteq S, u \subseteq T, IsFiniteSet(u)
  PROVE  g[u] = h[u]
  <1> DEFINE C == {s \in SUBSET u : g[s] # h[s]}
  <1> SUFFICES ASSUME C # {} PROVE FALSE
    OBVIOUS
  <1>0. C \subseteq SUBSET u
    OBVIOUS
  <1>1. PICK s \in C : IsFiniteSet(s) /\ \A t \in C : t \subseteq s => t = s
    <2> HIDE DEF C
    <2> QED BY <1>0, SmallestSubset
  <1>2. s \in SUBSET S /\ s \in SUBSET T /\ g[s] # h[s]
    OBVIOUS
  <1>3. s # {} /\ Picked(s) \in s
    BY <1>2, AddsStep, PickedIsMember
  <1>4. g[s \ {Picked(s)}] = h[s \ {Picked(s)}]
    BY <1>1, <1>3
  <1> QED BY <1>2, <1>3, <1>4, AddsStep

\* ... and for a finite set there is one.
LEMMA AddsExists ==
  ASSUME NEW f, NEW S, IsFiniteSet(S)
  PROVE  \E g : Adds(f, S, g)
  <1> DEFINE C == {s \in SUBSET S : ~\E g : Adds(f, s, g)}
  <1> SUFFICES ASSUME C # {} PROVE FALSE
    OBVIOUS
  <1>0. C \subseteq SUBSET S
    OBVIOUS
  <1>1. PICK s \in C : IsFiniteSet(s) /\ \A t \in C : t \subseteq s => t = s
    <2> HIDE DEF C
    <2> QED BY <1>0, SmallestSubset
  <1>2. s \in SUBSET S /\ IsFiniteSet(s) /\ ~\E g : Adds(f, s, g)
    BY FS_Subset
  <1>3. \A t : t \subseteq s /\ t # s => \E g : Adds(f, t, g)
    BY <1>1, <1>2
  <1> HIDE DEF C
  <1> DEFINE sum(t) == (CHOOSE g : Adds(f, t, g))[t]
             rest(t) == t \ {Picked(t)}
             g0 == [t \in SUBSET s |-> IF t = {} THEN 0 ELSE f[Picked(t)] + sum(rest(t))]
  <1>4. ASSUME NEW t, t \subseteq s, t # s PROVE g0[t] = sum(t)
    <2>1. PICK g : g = (CHOOSE h : Adds(f, t, h)) /\ Adds(f, t, g)
      BY <1>3, <1>4
    <2>2. sum(t) = IF t = {} THEN 0 ELSE f[Picked(t)] + g[rest(t)]
      BY <2>1, AddsStep
    <2>3. ASSUME t # {} PROVE g[rest(t)] = sum(rest(t))
      <3>1. PICK u : u = rest(t)
        OBVIOUS
      <3>2. u \subseteq t /\ u # s /\ u \subseteq s
        BY <1>4, <3>1
      <3>3. PICK h : h = (CHOOSE k : Adds(f, u, k)) /\ Adds(f, u, h)
        BY <1>3, <3>2
      <3>4. IsFiniteSet(u)
        BY <1>2, <3>2, FS_Subset
      <3>5. g[u] = h[u]
        <4>1. u \subseteq u
          OBVIOUS
        <4> QED BY <2>1, <3>2, <3>3, <3>4, <4>1, AddsUnique
      <3> QED BY <3>1, <3>3, <3>5
    <2> HIDE DEF sum, rest
    <2> QED BY <1>4, <2>2, <2>3
  <1>5. \A t \in SUBSET s : t # {} => rest(t) \subseteq s /\ rest(t) # s
    BY PickedIsMember
  <1> HIDE DEF sum
  <1>6. g0 = [t \in SUBSET s |-> IF t = {} THEN 0 ELSE f[Picked(t)] + g0[rest(t)]]
    <2>1. \A t \in SUBSET s : t # {} => g0[rest(t)] = sum(rest(t))
      BY <1>4, <1>5
    <2> HIDE DEF rest
    <2> QED BY <2>1
  <1>7. Adds(f, s, g0)
    BY <1>6 DEF Adds
  <1> QED BY <1>2, <1>7

-----------------------------------------------------------------------------
\* The two equations of a sum.
LEMMA SumOfNone ==
  ASSUME NEW f
  PROVE  SumFunctionOnSet(f, {}) = 0
  <1>1. PICK g : g = (CHOOSE h : Adds(f, {}, h)) /\ Adds(f, {}, g)
    BY AddsExists, FS_EmptySet
  <1>2. g[{}] = 0
    BY <1>1, AddsStep
  <1> QED BY <1>1, <1>2, SumIsAdded

LEMMA SumPicked ==
  ASSUME NEW f, NEW S, IsFiniteSet(S), S # {}
  PROVE  /\ Picked(S) \in S
         /\ SumFunctionOnSet(f, S) = f[Picked(S)] + SumFunctionOnSet(f, S \ {Picked(S)})
  <1> DEFINE T == S \ {Picked(S)}
  <1>1. T \subseteq S /\ IsFiniteSet(T)
    BY FS_Subset
  <1>2. PICK g : g = (CHOOSE k : Adds(f, S, k)) /\ Adds(f, S, g)
    BY AddsExists
  <1>3. PICK h : h = (CHOOSE k : Adds(f, T, k)) /\ Adds(f, T, h)
    BY <1>1, AddsExists
  <1>4. g[T] = h[T]
    BY <1>1, <1>2, <1>3, AddsUnique
  <1>5. g[S] = f[Picked(S)] + g[T]
    BY <1>2, AddsStep
  <1>6. SumFunctionOnSet(f, S) = g[S] /\ SumFunctionOnSet(f, T) = h[T]
    BY <1>2, <1>3, SumIsAdded
  <1> QED BY <1>4, <1>5, <1>6, PickedIsMember

\* A sum of integers is an integer.
LEMMA SumIsNumber ==
  ASSUME NEW f, NEW S, IsFiniteSet(S), \A x \in S : f[x] \in Int
  PROVE  SumFunctionOnSet(f, S) \in Int
  <1> DEFINE C == {s \in SUBSET S : SumFunctionOnSet(f, s) \notin Int}
  <1> SUFFICES ASSUME C # {} PROVE FALSE
    OBVIOUS
  <1>0. C \subseteq SUBSET S
    OBVIOUS
  <1>1. PICK s \in C : IsFiniteSet(s) /\ \A t \in C : t \subseteq s => t = s
    <2> HIDE DEF C
    <2> QED BY <1>0, SmallestSubset
  <1>2. IsFiniteSet(s) /\ s # {} /\ Picked(s) \in s
    BY <1>1, SumOfNone, PickedIsMember
  <1>3. SumFunctionOnSet(f, s \ {Picked(s)}) \in Int
    BY <1>1, <1>2
  <1> QED BY <1>2, <1>3, SumPicked

\* The order in which the values are added does not matter.
LEMMA SumAddsEach ==
  ASSUME NEW f, NEW S, IsFiniteSet(S), \A x \in S : f[x] \in Int, NEW y \in S
  PROVE  SumFunctionOnSet(f, S) = f[y] + SumFunctionOnSet(f, S \ {y})
  <1> DEFINE C == {s \in SUBSET S : \E x \in s : SumFunctionOnSet(f, s) # f[x] + SumFunctionOnSet(f, s \ {x})}
  <1> SUFFICES ASSUME C # {} PROVE FALSE
    OBVIOUS
  <1>0. C \subseteq SUBSET S
    OBVIOUS
  <1>1. PICK s \in C : IsFiniteSet(s) /\ \A t \in C : t \subseteq s => t = s
    <2> HIDE DEF C
    <2> QED BY <1>0, SmallestSubset
  <1>2. PICK x \in s : SumFunctionOnSet(f, s) # f[x] + SumFunctionOnSet(f, s \ {x})
    OBVIOUS
  <1>3. PICK p \in s : SumFunctionOnSet(f, s) = f[p] + SumFunctionOnSet(f, s \ {p})
    BY <1>2, FS_Subset, SumPicked
  <1>4. p # x /\ s \subseteq S
    BY <1>2, <1>3
  <1>5. \A t : t \subseteq s /\ t # s => \A z \in t : SumFunctionOnSet(f, t) = f[z] + SumFunctionOnSet(f, t \ {z})
    BY <1>1
  <1> HIDE DEF C
  <1>6. PICK t : t = s \ {p} /\ t \subseteq s /\ t # s /\ x \in t
    <2>1. p \in s /\ p \notin s \ {p} /\ x \in s \ {p} /\ s \ {p} \subseteq s
      BY <1>4
    <2> QED BY <2>1
  <1>7. PICK u : u = s \ {x} /\ u \subseteq s /\ u # s /\ p \in u
    <2>1. x \in s /\ x \notin s \ {x} /\ p \in s \ {x} /\ s \ {x} \subseteq s
      BY <1>4
    <2> QED BY <2>1
  <1>8. PICK rest : rest = t \ {x} /\ rest = u \ {p}
    BY <1>6, <1>7
  <1>9. SumFunctionOnSet(f, t) = f[x] + SumFunctionOnSet(f, rest)
    BY <1>5, <1>6, <1>8
  <1>10. SumFunctionOnSet(f, u) = f[p] + SumFunctionOnSet(f, rest)
    BY <1>5, <1>7, <1>8
  <1>11. IsFiniteSet(rest) /\ \A z \in rest : f[z] \in Int
    BY <1>1, <1>4, <1>6, <1>8, FS_Subset
  <1>12. SumFunctionOnSet(f, rest) \in Int /\ f[x] \in Int /\ f[p] \in Int
    BY <1>4, <1>11, SumIsNumber
  <1> QED BY <1>2, <1>3, <1>6, <1>7, <1>9, <1>10, <1>12

\* Equal terms, equal sums.
LEMMA SumOfEqual ==
  ASSUME NEW f, NEW g, NEW S, IsFiniteSet(S), \A x \in S : f[x] = g[x]
  PROVE  SumFunctionOnSet(f, S) = SumFunctionOnSet(g, S)
  <1> DEFINE C == {s \in SUBSET S : SumFunctionOnSet(f, s) # SumFunctionOnSet(g, s)}
  <1> SUFFICES ASSUME C # {} PROVE FALSE
    OBVIOUS
  <1>0. C \subseteq SUBSET S
    OBVIOUS
  <1>1. PICK s \in C : IsFiniteSet(s) /\ \A t \in C : t \subseteq s => t = s
    <2> HIDE DEF C
    <2> QED BY <1>0, SmallestSubset
  <1>2. IsFiniteSet(s) /\ s # {} /\ Picked(s) \in s
    BY <1>1, SumOfNone, PickedIsMember
  <1>3. SumFunctionOnSet(f, s \ {Picked(s)}) = SumFunctionOnSet(g, s \ {Picked(s)})
    BY <1>1, <1>2
  <1> QED BY <1>2, <1>3, SumPicked

\* Sums of disjoint sets add up.
LEMMA SumOfBoth ==
  ASSUME NEW f, NEW S, NEW T, IsFiniteSet(S), IsFiniteSet(T), S \cap T = {},
         \A x \in S \cup T : f[x] \in Int
  PROVE  SumFunctionOnSet(f, S \cup T) = SumFunctionOnSet(f, S) + SumFunctionOnSet(f, T)
  <1> DEFINE C == {s \in SUBSET T : SumFunctionOnSet(f, S \cup s) # SumFunctionOnSet(f, S) + SumFunctionOnSet(f, s)}
  <1> SUFFICES ASSUME C # {} PROVE FALSE
    OBVIOUS
  <1>0. C \subseteq SUBSET T
    OBVIOUS
  <1>1. PICK s \in C : IsFiniteSet(s) /\ \A t \in C : t \subseteq s => t = s
    <2> HIDE DEF C
    <2> QED BY <1>0, SmallestSubset
  <1>2. IsFiniteSet(s)
    BY FS_Subset
  <1>3. CASE s = {}
    BY <1>3, SumOfNone, SumIsNumber
  <1>4. CASE s # {}
    <2>1. PICK x : x \in s
      BY <1>4
    <2>2. SumFunctionOnSet(f, s) = f[x] + SumFunctionOnSet(f, s \ {x})
      BY <1>2, <2>1, SumAddsEach
    <2>3. IsFiniteSet(S \cup s) /\ (S \cup s) \ {x} = S \cup (s \ {x})
      BY <1>2, <2>1, FS_Union
    <2>4. SumFunctionOnSet(f, S \cup s) = f[x] + SumFunctionOnSet(f, S \cup (s \ {x}))
      <3>1. \A y \in S \cup s : f[y] \in Int
        OBVIOUS
      <3> QED BY <2>1, <2>3, <3>1, SumAddsEach
    <2>5. SumFunctionOnSet(f, S \cup (s \ {x})) = SumFunctionOnSet(f, S) + SumFunctionOnSet(f, s \ {x})
      BY <1>1, <2>1
    <2>6. SumFunctionOnSet(f, S) \in Int /\ SumFunctionOnSet(f, s \ {x}) \in Int /\ f[x] \in Int
      BY <1>2, <2>1, SumIsNumber, FS_Subset
    <2> QED BY <2>2, <2>4, <2>5, <2>6
  <1> QED BY <1>3, <1>4

\* A sum of natural numbers is one.
LEMMA SumOfNaturals ==
  ASSUME NEW f, NEW S, IsFiniteSet(S), \A x \in S : f[x] \in Nat
  PROVE  SumFunctionOnSet(f, S) \in Nat
  <1> DEFINE C == {s \in SUBSET S : SumFunctionOnSet(f, s) \notin Nat}
  <1> SUFFICES ASSUME C # {} PROVE FALSE
    OBVIOUS
  <1>0. C \subseteq SUBSET S
    OBVIOUS
  <1>1. PICK s \in C : IsFiniteSet(s) /\ \A t \in C : t \subseteq s => t = s
    <2> HIDE DEF C
    <2> QED BY <1>0, SmallestSubset
  <1>2. IsFiniteSet(s) /\ s # {} /\ Picked(s) \in s
    <2>1. 0 \in Nat /\ SumFunctionOnSet(f, s) \notin Nat
      OBVIOUS
    <2> QED BY <1>1, <2>1, SumOfNone, PickedIsMember
  <1>3. SumFunctionOnSet(f, s \ {Picked(s)}) \in Nat
    BY <1>1, <1>2
  <1> QED BY <1>2, <1>3, SumPicked

\* Smaller terms, smaller sum.
LEMMA SumOfLess ==
  ASSUME NEW f, NEW g, NEW S, IsFiniteSet(S), \A x \in S : f[x] \in Int /\ g[x] \in Int /\ f[x] <= g[x]
  PROVE  SumFunctionOnSet(f, S) <= SumFunctionOnSet(g, S)
  <1> DEFINE C == {s \in SUBSET S : ~(SumFunctionOnSet(f, s) <= SumFunctionOnSet(g, s))}
  <1> SUFFICES ASSUME C # {} PROVE FALSE
    OBVIOUS
  <1>0. C \subseteq SUBSET S
    OBVIOUS
  <1>1. PICK s \in C : IsFiniteSet(s) /\ \A t \in C : t \subseteq s => t = s
    <2> HIDE DEF C
    <2> QED BY <1>0, SmallestSubset
  <1>2. s # {} /\ s \subseteq S
    BY SumOfNone
  <1>3. PICK x : x \in s
    BY <1>2
  <1>4. PICK t : t = s \ {x} /\ IsFiniteSet(t) /\ t \subseteq S
    BY <1>1, <1>2, FS_Subset
  <1>5. SumFunctionOnSet(f, t) <= SumFunctionOnSet(g, t)
    BY <1>1, <1>3, <1>4
  <1>6. SumFunctionOnSet(f, s) = f[x] + SumFunctionOnSet(f, t) /\ SumFunctionOnSet(g, s) = g[x] + SumFunctionOnSet(g, t)
    BY <1>1, <1>2, <1>3, <1>4, SumAddsEach
  <1>7. SumFunctionOnSet(f, t) \in Int /\ SumFunctionOnSet(g, t) \in Int
    BY <1>4, SumIsNumber
  <1>8. f[x] \in Int /\ g[x] \in Int /\ f[x] <= g[x]
    BY <1>2, <1>3
  <1> QED BY <1>5, <1>6, <1>7, <1>8

\* Nothing adds up to nothing.
LEMMA SumOfZeros ==
  ASSUME NEW f, NEW S, IsFiniteSet(S), \A x \in S : f[x] = 0
  PROVE  SumFunctionOnSet(f, S) = 0
  <1> DEFINE C == {s \in SUBSET S : SumFunctionOnSet(f, s) # 0}
  <1> SUFFICES ASSUME C # {} PROVE FALSE
    OBVIOUS
  <1>0. C \subseteq SUBSET S
    OBVIOUS
  <1>1. PICK s \in C : IsFiniteSet(s) /\ \A t \in C : t \subseteq s => t = s
    <2> HIDE DEF C
    <2> QED BY <1>0, SmallestSubset
  <1>2. s # {} /\ s \subseteq S /\ Picked(s) \in s
    BY SumOfNone, PickedIsMember
  <1>3. SumFunctionOnSet(f, s \ {Picked(s)}) = 0
    BY <1>1, <1>2
  <1>4. SumFunctionOnSet(f, s) = f[Picked(s)] + SumFunctionOnSet(f, s \ {Picked(s)})
    BY <1>1, <1>2, SumPicked
  <1> QED BY <1>2, <1>3, <1>4

\* The sum of the negated terms.
LEMMA SumOfNegated ==
  ASSUME NEW f, NEW g, NEW S, IsFiniteSet(S), \A x \in S : f[x] \in Int /\ g[x] = -f[x]
  PROVE  SumFunctionOnSet(g, S) = -SumFunctionOnSet(f, S)
  <1> DEFINE C == {s \in SUBSET S : SumFunctionOnSet(g, s) # -SumFunctionOnSet(f, s)}
  <1> SUFFICES ASSUME C # {} PROVE FALSE
    OBVIOUS
  <1>0. C \subseteq SUBSET S
    OBVIOUS
  <1>1. PICK s \in C : IsFiniteSet(s) /\ \A t \in C : t \subseteq s => t = s
    <2> HIDE DEF C
    <2> QED BY <1>0, SmallestSubset
  <1>2. s # {} /\ s \subseteq S
    BY SumOfNone
  <1>3. PICK x : x \in s
    BY <1>2
  <1>4. PICK t : t = s \ {x} /\ IsFiniteSet(t) /\ t \subseteq S
    BY <1>1, <1>2, FS_Subset
  <1>5. SumFunctionOnSet(g, t) = -SumFunctionOnSet(f, t)
    BY <1>1, <1>3, <1>4
  <1>6. \A y \in S : f[y] \in Int /\ g[y] \in Int
    OBVIOUS
  <1>7. SumFunctionOnSet(f, s) = f[x] + SumFunctionOnSet(f, t) /\ SumFunctionOnSet(g, s) = g[x] + SumFunctionOnSet(g, t)
    BY <1>1, <1>2, <1>3, <1>4, <1>6, SumAddsEach
  <1>8. SumFunctionOnSet(f, t) \in Int
    BY <1>4, SumIsNumber
  <1>9. f[x] \in Int /\ g[x] = -f[x]
    BY <1>2, <1>3
  <1>10. SumFunctionOnSet(g, s) # -SumFunctionOnSet(f, s)
    OBVIOUS
  <1> QED BY <1>5, <1>7, <1>8, <1>9, <1>10

\* Part of what is not negative is not more than the whole.
LEMMA SumOfSubset ==
  ASSUME NEW f, NEW S, NEW T, IsFiniteSet(S), T \subseteq S, \A x \in S : f[x] \in Nat
  PROVE  SumFunctionOnSet(f, T) <= SumFunctionOnSet(f, S)
  <1>1. PICK R : R = S \ T
    OBVIOUS
  <1>2. IsFiniteSet(T) /\ IsFiniteSet(R) /\ T \cap R = {} /\ T \cup R = S
    BY <1>1, FS_Subset
  <1>3. SumFunctionOnSet(f, S) = SumFunctionOnSet(f, T) + SumFunctionOnSet(f, R)
    BY <1>2, SumOfBoth
  <1>4. SumFunctionOnSet(f, T) \in Nat /\ SumFunctionOnSet(f, R) \in Nat
    BY <1>1, <1>2, SumOfNaturals
  <1> QED BY <1>3, <1>4

\* The parts of a sum may be added first.
LEMMA SumOfParts ==
  ASSUME NEW f, NEW I, NEW parts, NEW s, NEW whole, IsFiniteSet(I),
         \A x : x \in whole <=> \E i \in I : x \in parts[i],
         \A i \in I : IsFiniteSet(parts[i]) /\ s[i] = SumFunctionOnSet(f, parts[i]),
         \A i \in I : \A x \in parts[i] : f[x] \in Int,
         \A i, j \in I : i # j => parts[i] \cap parts[j] = {}
  PROVE  SumFunctionOnSet(f, whole) = SumFunctionOnSet(s, I)
  <1> DEFINE all(J) == UNION {parts[i] : i \in J}
             C == {J \in SUBSET I : ~IsFiniteSet(all(J)) \/ SumFunctionOnSet(f, all(J)) # SumFunctionOnSet(s, J)}
  <1> SUFFICES ASSUME C # {} PROVE FALSE
    OBVIOUS
  <1>0. C \subseteq SUBSET I
    OBVIOUS
  <1>1. PICK J \in C : IsFiniteSet(J) /\ \A K \in C : K \subseteq J => K = J
    <2> HIDE DEF C
    <2> QED BY <1>0, SmallestSubset
  <1>2. J # {} /\ J \subseteq I
    <2>1. ASSUME J = {} PROVE FALSE
      <3>1. all(J) = {}
        BY <2>1
      <3> QED BY <2>1, <3>1, SumOfNone, FS_EmptySet
    <2> QED BY <2>1
  <1>3. PICK i : i \in J
    BY <1>2
  <1>4. PICK K : K = J \ {i} /\ IsFiniteSet(K) /\ K \subseteq I
    <2> HIDE DEF C
    <2>1. J \ {i} \in SUBSET J
      OBVIOUS
    <2>2. IsFiniteSet(J \ {i})
      BY <1>1, <2>1, FS_Subset
    <2> QED BY <1>2, <2>2
  <1>5. IsFiniteSet(all(K)) /\ SumFunctionOnSet(f, all(K)) = SumFunctionOnSet(s, K)
    <2>1. K # J /\ K \subseteq J /\ K \in SUBSET I
      BY <1>3, <1>4
    <2>2. K \notin C
      BY <1>1, <2>1
    <2> HIDE DEF all
    <2> QED BY <2>1, <2>2
  <1>6. all(J) = all(K) \cup parts[i] /\ all(K) \cap parts[i] = {}
    BY <1>2, <1>3, <1>4
  <1>7. IsFiniteSet(parts[i]) /\ i \in I /\ s[i] = SumFunctionOnSet(f, parts[i])
    BY <1>2, <1>3
  <1>8. \A x \in all(K) \cup parts[i] : f[x] \in Int
    BY <1>4, <1>7
  <1>9. \A j \in I : s[j] \in Int
    BY SumIsNumber
  <1>10. IsFiniteSet(all(J)) => SumFunctionOnSet(f, all(J)) # SumFunctionOnSet(s, J)
    OBVIOUS
  <1> HIDE DEF all, C
  <1>11. IsFiniteSet(all(J))
    <2>1. PICK A, B : A = all(K) /\ B = parts[i] /\ all(J) = A \cup B
      BY <1>6
    <2>2. IsFiniteSet(A) /\ IsFiniteSet(B)
      BY <1>5, <1>7, <2>1
    <2>3. IsFiniteSet(A \cup B)
      BY <2>2, FS_Union
    <2> QED BY <2>1, <2>3
  <1>12. SumFunctionOnSet(f, all(J)) = SumFunctionOnSet(f, all(K)) + s[i]
    BY <1>5, <1>6, <1>7, <1>8, SumOfBoth
  <1>13. SumFunctionOnSet(s, J) = s[i] + SumFunctionOnSet(s, K)
    BY <1>1, <1>2, <1>3, <1>4, <1>9, SumAddsEach
  <1>14. s[i] \in Int /\ SumFunctionOnSet(s, K) \in Int
    BY <1>4, <1>7, <1>9, SumIsNumber
  <1> QED BY <1>5, <1>10, <1>11, <1>12, <1>13, <1>14

\* What is added is named one by one.
LEMMA SumOfNamed ==
  ASSUME NEW f, NEW g, NEW I, NEW id, NEW names, IsFiniteSet(I),
         \A x : x \in names <=> \E i \in I : x = id[i],
         \A i \in I : /\ f[id[i]] \in Int /\ g[i] = f[id[i]]
                      /\ \A j \in I : i # j => id[i] # id[j]
  PROVE  SumFunctionOnSet(g, I) = SumFunctionOnSet(f, names)
  <1>1. PICK parts : parts = [i \in I |-> {id[i]}]
    OBVIOUS
  <1>2. \A i \in I : parts[i] = {id[i]}
    BY <1>1
  <1>3. ASSUME NEW i \in I PROVE g[i] = SumFunctionOnSet(f, parts[i])
    <2>1. PICK x : x = id[i] /\ f[x] \in Int /\ g[i] = f[x]
      OBVIOUS
    <2>2. IsFiniteSet({x}) /\ {x} \ {x} = {}
      BY FS_Singleton
    <2>3. SumFunctionOnSet(f, {x}) = f[x] + SumFunctionOnSet(f, {x} \ {x})
      BY <2>1, <2>2, SumAddsEach
    <2>4. SumFunctionOnSet(f, {x}) = f[x]
      <3>1. SumFunctionOnSet(f, {x}) = f[x] + 0
        BY <2>2, <2>3, SumOfNone
      <3> QED BY <2>1, <3>1
    <2> QED BY <1>2, <2>1, <2>4
  <1>4. ASSUME NEW i \in I
        PROVE  /\ IsFiniteSet(parts[i]) /\ \A x \in parts[i] : f[x] \in Int
               /\ \A j \in I : i # j => parts[i] \cap parts[j] = {}
    <2>1. IsFiniteSet({id[i]})
      BY FS_Singleton
    <2>2. f[id[i]] \in Int /\ \A j \in I : i # j => id[i] # id[j]
      OBVIOUS
    <2> QED BY <1>2, <2>1, <2>2
  <1>5. SumFunctionOnSet(f, names) = SumFunctionOnSet(g, I)
    <2>1. \A i \in I : IsFiniteSet(parts[i]) /\ g[i] = SumFunctionOnSet(f, parts[i])
      BY <1>3, <1>4
    <2>2. \A i \in I : \A x \in parts[i] : f[x] \in Int
      BY <1>4
    <2>3. \A i, j \in I : i # j => parts[i] \cap parts[j] = {}
      BY <1>4
    <2>4. \A x : x \in names <=> \E i \in I : x \in parts[i]
      BY <1>2
    <2>5. SumFunctionOnSet(f, names) = SumFunctionOnSet(g, I)
      BY ONLY IsFiniteSet(I), <2>1, <2>2, <2>3, <2>4, SumOfParts
    <2> QED BY <2>5
  <1> QED BY <1>5

-----------------------------------------------------------------------------
(* Numbers in ascending order                                               *)

\* The numbers of S below x: how many there are is the rank of x.
Below(S, x) == {y \in S : y < x}

\* A greater number has a greater rank.
LEMMA BelowLess ==
  ASSUME NEW S, S \subseteq Int, IsFiniteSet(S), NEW x \in S
  PROVE  /\ Cardinality(Below(S, x)) \in Nat /\ Cardinality(Below(S, x)) < Cardinality(S)
         /\ \A y \in S : x < y => Cardinality(Below(S, x)) < Cardinality(Below(S, y))
  <1>1. \A y \in S : Below(S, y) \in SUBSET S /\ IsFiniteSet(Below(S, y)) /\ Cardinality(Below(S, y)) \in Nat
    <2>1. \A y \in S : Below(S, y) \in SUBSET S
      BY DEF Below
    <2> QED BY <2>1, FS_Subset, FS_CardinalityType
  <1>2. Cardinality(S) \in Nat
    BY FS_CardinalityType
  <1>3. Cardinality(Below(S, x)) < Cardinality(S)
    <2>1. Below(S, x) # S
      BY DEF Below
    <2>2. Cardinality(Below(S, x)) <= Cardinality(S) /\ Cardinality(S) # Cardinality(Below(S, x))
      BY <1>1, <2>1, FS_Subset
    <2> QED BY <1>1, <1>2, <2>2
  <1>4. ASSUME NEW y \in S, x < y PROVE Cardinality(Below(S, x)) < Cardinality(Below(S, y))
    <2>1. Below(S, x) \in SUBSET Below(S, y) /\ Below(S, x) # Below(S, y)
      <3>1. x \in Below(S, y) /\ x \notin Below(S, x)
        BY <1>4 DEF Below
      <3>2. ASSUME NEW z \in Below(S, x) PROVE z \in Below(S, y)
        <4>1. z \in S /\ z < x /\ z \in Int /\ x \in Int /\ y \in Int
          BY <3>2 DEF Below
        <4> QED BY <1>4, <4>1 DEF Below
      <3> QED BY <3>1, <3>2
    <2>2. /\ Cardinality(Below(S, x)) <= Cardinality(Below(S, y))
          /\ Cardinality(Below(S, y)) # Cardinality(Below(S, x))
      BY <1>1, <2>1, FS_Subset
    <2> QED BY <1>1, <2>2
  <1> QED BY <1>1, <1>3, <1>4

\* ORDER BY puts each number on the list once, in ascending order.
LEMMA SortedOnce ==
  ASSUME NEW S, S \subseteq Int, IsFiniteSet(S)
  PROVE  /\ Cardinality(S) \in Nat /\ DOMAIN Sorted(S) = 1..Cardinality(S)
         /\ \A k \in 1..Cardinality(S) : Sorted(S)[k] \in S
         /\ \A x \in S : \E k \in 1..Cardinality(S) : Sorted(S)[k] = x
         /\ \A k, l \in 1..Cardinality(S) : k < l => Sorted(S)[k] < Sorted(S)[l]
  <1>1. PICK n : n = Cardinality(S) /\ n \in Nat
    BY FS_CardinalityType
  <1>2. PICK place : place = [x \in S |-> Cardinality(Below(S, x)) + 1]
    OBVIOUS
  <1>3. ASSUME NEW x \in S
        PROVE  place[x] \in 1..n /\ place[x] = Cardinality(Below(S, x)) + 1 /\ Cardinality(Below(S, x)) = place[x] - 1
    <2>1. PICK r : r = Cardinality(Below(S, x)) /\ r \in Nat /\ r < n
      BY <1>1, BelowLess
    <2>2. place[x] = r + 1
      BY <1>2, <2>1
    <2> QED BY <1>1, <2>1, <2>2
  <1>4. ASSUME NEW x \in S, NEW y \in S, x < y PROVE place[x] < place[y]
    <2>1. PICK r, t : r = Cardinality(Below(S, x)) /\ t = Cardinality(Below(S, y)) /\ r \in Nat /\ t \in Nat /\ r < t
      BY <1>4, BelowLess
    <2>2. place[x] = r + 1 /\ place[y] = t + 1
      BY <1>2, <2>1
    <2> QED BY <2>1, <2>2
  <1>5. ASSUME NEW x \in S, NEW y \in S, place[x] = place[y] PROVE x = y
    <2>1. ~(place[x] < place[y]) /\ ~(place[y] < place[x])
      BY <1>3, <1>5
    <2>2. ~(x < y) /\ ~(y < x) /\ x \in Int /\ y \in Int
      BY <1>4, <2>1
    <2> QED BY <2>2
  <1>6. \A k \in 1..n : \E x \in S : place[x] = k
    <2>1. place \in Injection(S, 1..n)
      <3>1. place \in [S -> 1..n]
        BY <1>2, <1>3
      <3> QED BY <1>5, <3>1 DEF Injection, IsInjective
    <2>2. IsFiniteSet(1..n) /\ Cardinality(1..n) = n
      BY <1>1, FS_Interval
    <2>3. place \in Surjection(S, 1..n)
      BY <1>1, <2>1, <2>2, FS_Injection
    <2> QED BY <2>3 DEF Surjection
  <1>7. ASSUME NEW k \in 1..n
        PROVE  Sorted(S)[k] \in S /\ place[Sorted(S)[k]] = k
    <2>1. PICK x \in S : place[x] = k
      BY <1>6
    <2>2. Cardinality(Below(S, x)) = k - 1
      BY <1>3, <2>1
    <2>3. Sorted(S)[k] = CHOOSE y \in S : Cardinality(Below(S, y)) = k - 1
      BY <1>1 DEF Sorted, Below
    <2>4. PICK z : z = Sorted(S)[k] /\ z \in S /\ Cardinality(Below(S, z)) = k - 1
      BY <2>2, <2>3
    <2>5. place[z] = k
      <3>1. place[z] = Cardinality(Below(S, z)) + 1
        BY <1>3, <2>4
      <3> QED BY <2>4, <3>1
    <2> QED BY <2>4, <2>5
  <1>8. DOMAIN Sorted(S) = 1..n
    BY <1>1 DEF Sorted
  <1>9. ASSUME NEW k \in 1..n, NEW l \in 1..n, k < l PROVE Sorted(S)[k] < Sorted(S)[l]
    <2>1. PICK x, y : /\ x = Sorted(S)[k] /\ x \in S /\ place[x] = k
                      /\ y = Sorted(S)[l] /\ y \in S /\ place[y] = l
      BY <1>7
    <2>2. ~(y < x)
      BY <1>4, <1>9, <2>1
    <2>3. x # y /\ x \in Int /\ y \in Int
      BY <1>9, <2>1
    <2> QED BY <2>1, <2>2, <2>3
  <1>10. \A x \in S : \E k \in 1..n : Sorted(S)[k] = x
    BY <1>3, <1>5, <1>7
  <1> QED BY <1>1, <1>7, <1>8, <1>9, <1>10

-----------------------------------------------------------------------------
(* What a statement settles                                                 *)

\* The records of a file are numbered as their lines are.
LEMMA RecordsOfLines ==
  ASSUME NEW statement \in Files, NEW file, file = ReadPaymentRecords(statement)
  PROVE  /\ DOMAIN file \subseteq DOMAIN statement.lines /\ DOMAIN file \subseteq Nat /\ IsFiniteSet(DOMAIN statement.lines)
         /\ \A i \in DOMAIN statement.lines : statement.lines[i] \in Lines
         /\ \A i \in DOMAIN file : file[i] = PaymentRecord(statement, statement.lines[i])
  <1>1. statement.lines \in Seq(Lines)
    BY FilesAssumption DEF Statement
  <1>2. DOMAIN statement.lines = 1..Len(statement.lines) /\ Len(statement.lines) \in Nat
        /\ \A i \in DOMAIN statement.lines : statement.lines[i] \in Lines
    BY <1>1
  <1>3. IsFiniteSet(DOMAIN statement.lines)
    BY <1>2, FS_Interval
  <1> QED BY <1>2, <1>3 DEF ReadPaymentRecords

\* A booking belongs to the first record that names it, and to no other.
LEMMA MatchedOnce ==
  ASSUME NEW file, DOMAIN file \subseteq Nat, NEW i \in DOMAIN file, NEW j \in DOMAIN file, i # j
  PROVE  Matched(file, i) \cap Matched(file, j) = {}
  <1>1. ASSUME NEW k \in DOMAIN file, NEW l \in DOMAIN file, k < l
        PROVE  Matched(file, k) \cap Matched(file, l) = {}
    BY <1>1 DEF Matched
  <1>2. i < j \/ j < i
    OBVIOUS
  <1> QED BY <1>1, <1>2

\* A record settles only bookings that belong to it, and none if the sum is wrong.
LEMMA VerifiedOfMatched ==
  ASSUME NEW file, NEW i
  PROVE  /\ Verified(file, row, i) \subseteq Matched(file, i)
         /\ Verified(file, row, i) # {} => RightVolume(file, i)
         /\ Matched(file, i) \subseteq Ids
  BY DEF Verified, Matched

LEMMA VerifiedDomain ==
  ASSUME NEW file, NEW b
  PROVE  b \in DOMAIN VerifiedIbans(file, row) <=> \E i \in DOMAIN file : b \in Verified(file, row, i)
  BY DEF VerifiedIbans

\* No id is lost between what is settled and what is reported.
LEMMA IdsReported ==
  ASSUME NEW file, DOMAIN file \subseteq Nat
  PROVE  IdsAreReported(file)
  <1>1. ASSUME NEW i \in DOMAIN file, NEW id \in file[i].ids, i \notin NotMatching(file)
        PROVE  id \in Verified(file, row, i) \/ id \in WithErrors(file, row)
    BY <1>1 DEF NotMatching, WithErrors
  <1>2. DOMAIN VerifiedIbans(file, row) \cap WithErrors(file, row) = {}
    <2> SUFFICES ASSUME NEW i \in DOMAIN file, NEW j \in DOMAIN file, NEW b \in Verified(file, row, i),
                        b \in Matched(file, j) \ Verified(file, row, j)
                 PROVE  FALSE
      BY VerifiedDomain DEF WithErrors
    <2>1. i # j
      OBVIOUS
    <2> QED BY <2>1, MatchedOnce, VerifiedOfMatched
  <1>3. ASSUME NEW i \in DOMAIN file, NEW j \in DOMAIN file, i # j
        PROVE  Verified(file, row, i) \cap Verified(file, row, j) = {}
    BY <1>3, MatchedOnce, VerifiedOfMatched
  <1> QED BY <1>1, <1>2, <1>3 DEF IdsAreReported

\* The list of fields has fields of the table only.
LEMMA FieldsAsked ==
  ASSUME TypeOK
  PROVE  \A i \in DOMAIN Asked : Asked[i] \in Fields
  <1>1. form.table \in Seq(Fields)
    BY FormAssumption DEF TypeOK, Form
  <1>2. PICK places : places = {i \in DOMAIN form.table : form.table[i] \in ToSet(form.first)}
    OBVIOUS
  <1>3. DOMAIN form.table = 1..Len(form.table) /\ Len(form.table) \in Nat
    BY <1>1
  <1>4. places \subseteq 1..Len(form.table) /\ places \subseteq Int /\ IsFiniteSet(places)
    <2>1. places \subseteq 1..Len(form.table)
      BY <1>2, <1>3
    <2>2. PICK n \in Nat : n = Len(form.table)
      BY <1>3
    <2>3. places \in SUBSET (1..n)
      BY <2>1, <2>2
    <2>4. IsFiniteSet(places)
      <3>1. IsFiniteSet(1..n)
        BY FS_Interval
      <3> QED BY <2>3, <3>1, FS_Subset
    <2> QED BY <2>1, <2>2, <2>4
  <1>5. Asked = Those(form.table, places)
    BY <1>2 DEF Asked, Listed
  <1>6. \A i \in DOMAIN Asked : \E j \in places : Asked[i] = form.table[j]
    <2>1. PICK seq, n : seq = form.table /\ n = Cardinality(places) /\ Asked = Those(seq, places)
      BY <1>5
    <2>2. ASSUME NEW i \in DOMAIN Asked PROVE \E j \in places : Asked[i] = form.table[j]
      <3>1. i \in 1..n /\ Asked[i] = seq[Sorted(places)[i]]
        BY <2>1 DEF Those
      <3>2. Sorted(places)[i] \in places
        BY <1>4, <2>1, <3>1, SortedOnce
      <3> QED BY <2>1, <3>1, <3>2
    <2> QED BY <2>2
  <1> QED BY <1>1, <1>4, <1>6

\* Without negative answers no price is negative.
LEMMA PriceTyped ==
  ASSUME TypeOK, NothingNegative, NEW b \in Ids
  PROVE  Price(b) \in Nat
  <1>1. Base[b] \in Nat
    BY PriceAssumption
  <1>2. PICK n : n = Multiplier(ColumnFlags(form.columns), Values(b))
    OBVIOUS
  <1>3. n = None \/ \E i \in DOMAIN Values(b) : n = Values(b)[i]
    BY <1>2 DEF Multiplier
  <1>4. \A i \in DOMAIN Values(b) : Values(b)[i] = None \/ Values(b)[i] \in Nat
    <2>1. ASSUME NEW i \in DOMAIN Values(b) PROVE \E f \in Fields : Values(b)[i] = Answers[b][f]
      BY FieldsAsked DEF Values
    <2>2. \A f \in Fields : Answers[b][f] = None \/ Answers[b][f] \in Nat
      BY PriceAssumption DEF NothingNegative
    <2> QED BY <2>1, <2>2
  <1>5. n = None \/ n \in Nat
    BY <1>3, <1>4
  <1>6. Price(b) = IF n = None THEN Base[b] ELSE Base[b] * n
    BY <1>2 DEF Price, CheckedPrice, TotalPrice
  <1>7. n \in Nat => Base[b] * n \in Nat
    BY <1>1
  <1> QED BY <1>1, <1>5, <1>6, <1>7

\* A statement in the rich format: what its records settle.
LEMMA WhatIsSettledWasPaid ==
  ASSUME TypeOK, NothingNegative, NEW statement \in Files, statement.format = "rich",
         NEW file, file = ReadPaymentRecords(statement)
  PROVE  SumsAgree(statement, file)
  <1>1. PICK D, lines : D = DOMAIN file /\ lines = statement.lines
    OBVIOUS
  <1>2. D \subseteq DOMAIN lines /\ D \subseteq Nat /\ IsFiniteSet(D)
    BY <1>1, RecordsOfLines, FS_Subset
  <1>3. PICK price : price = [b \in Ids |-> Price(b)] /\ \A b \in Ids : price[b] \in Nat
    <2>1. PICK price : price = [b \in Ids |-> Price(b)]
      OBVIOUS
    <2>2. \A b \in Ids : price[b] \in Nat
      BY <2>1, PriceTyped
    <2> QED BY <2>1, <2>2
  <1>4. PICK amount : amount = [i \in DOMAIN lines |-> lines[i].amount]
    OBVIOUS
  <1>5. PICK s : s = [i \in D |-> Total(Verified(file, row, i))]
    OBVIOUS
  <1>6. \A i \in D : amount[i] \in Nat /\ lines[i].credit \in BOOLEAN
    <2>1. ASSUME NEW i \in D PROVE lines[i] \in Lines /\ lines[i].amount >= 0 /\ amount[i] = lines[i].amount
      BY <1>1, <1>2, <1>4, RecordsOfLines DEF NothingNegative
    <2> QED BY <2>1 DEF Lines
  <1>7. \A bookings : Total(bookings) = SumFunctionOnSet(price, bookings)
    BY <1>3 DEF Total
  <1>8. \A i \in D : file[i].volume = IF lines[i].credit THEN amount[i] ELSE -amount[i]
    BY <1>1, <1>2, <1>4, RecordsOfLines DEF PaymentRecord, Volume
  \* Each record pays what it settles, or settles nothing.
  <1>9. ASSUME NEW i \in D
        PROVE  /\ IsFiniteSet(Verified(file, row, i)) /\ s[i] = SumFunctionOnSet(price, Verified(file, row, i))
               /\ s[i] \in Nat /\ s[i] <= amount[i] /\ (~lines[i].credit => s[i] = 0)
    <2>1. PICK v, m : v = Verified(file, row, i) /\ m = Matched(file, i)
      OBVIOUS
    <2>2. v \subseteq m /\ m \subseteq Ids /\ IsFiniteSet(m) /\ IsFiniteSet(v)
      BY <2>1, VerifiedOfMatched, IdsAssumption, FS_Subset
    <2>3. s[i] = SumFunctionOnSet(price, v) /\ s[i] \in Nat
      BY <1>3, <1>5, <1>7, <2>1, <2>2, SumOfNaturals
    <2>4. CASE v = {}
      BY <1>6, <2>1, <2>2, <2>3, <2>4, SumOfNone
    <2>5. CASE v # {}
      <3>1. SumFunctionOnSet(price, m) = file[i].volume
        BY <1>7, <2>1, <2>5, VerifiedOfMatched DEF RightVolume
      <3>2. s[i] <= SumFunctionOnSet(price, m)
        BY <1>3, <2>2, <2>3, SumOfSubset
      <3>3. s[i] <= (IF lines[i].credit THEN amount[i] ELSE -amount[i])
        BY <1>8, <3>1, <3>2
      <3> QED BY <1>6, <2>1, <2>2, <2>3, <3>3
    <2> QED BY <2>4, <2>5
  <1>10. Total(DOMAIN VerifiedIbans(file, row)) = SumFunctionOnSet(s, D)
    <2>1. PICK whole, parts : whole = DOMAIN VerifiedIbans(file, row) /\ parts = [i \in D |-> Verified(file, row, i)]
      OBVIOUS
    <2>2. \A b : b \in whole <=> \E i \in D : b \in parts[i]
      BY <1>1, <2>1, VerifiedDomain
    <2>3. \A i \in D : IsFiniteSet(parts[i]) /\ s[i] = SumFunctionOnSet(price, parts[i])
      BY <1>9, <2>1
    <2>4. \A i \in D : \A b \in parts[i] : price[b] \in Int
      BY <1>3, <2>1, VerifiedOfMatched
    <2>5. \A i, j \in D : i # j => parts[i] \cap parts[j] = {}
      BY <1>1, <1>2, <2>1, MatchedOnce, VerifiedOfMatched
    <2>6. SumFunctionOnSet(price, whole) = SumFunctionOnSet(s, D)
      BY <1>2, <2>2, <2>3, <2>4, <2>5, SumOfParts
    <2> QED BY <1>7, <2>1, <2>6
  <1>11. PICK in, out : /\ in = {i \in D : lines[i].credit} /\ out = {i \in D : ~lines[i].credit}
                        /\ IsFiniteSet(in) /\ IsFiniteSet(out)
    <2>1. PICK in, out : in = {i \in D : lines[i].credit} /\ out = {i \in D : ~lines[i].credit}
      OBVIOUS
    <2>2. in \in SUBSET D /\ out \in SUBSET D
      BY <2>1
    <2> QED BY <1>2, <2>1, <2>2, FS_Subset
  <1>12. Paid(statement, D, TRUE) = SumFunctionOnSet(amount, in) /\ Paid(statement, D, FALSE) = SumFunctionOnSet(amount, out)
    <2>1. in = {i \in D : lines[i].credit = TRUE} /\ out = {i \in D : lines[i].credit = FALSE}
      BY <1>6, <1>11
    <2> QED BY <1>1, <1>4, <2>1 DEF Paid
  <1>13. SumFunctionOnSet(s, D) = SumFunctionOnSet(s, in) + SumFunctionOnSet(s, out)
    <2>1. D = in \cup out /\ in \cap out = {} /\ \A i \in in \cup out : s[i] \in Int
      BY <1>9, <1>11
    <2> QED BY <1>11, <2>1, SumOfBoth
  <1>14. SumFunctionOnSet(s, out) = 0
    BY <1>9, <1>11, SumOfZeros
  <1>15. /\ SumFunctionOnSet(s, in) <= SumFunctionOnSet(amount, in)
         /\ SumFunctionOnSet(s, in) \in Int /\ SumFunctionOnSet(amount, in) \in Int
    <2>1. \A i \in in : s[i] \in Int /\ amount[i] \in Int /\ s[i] <= amount[i]
      BY <1>6, <1>9, <1>11
    <2> QED BY <1>11, <2>1, SumOfLess, SumIsNumber
  <1>16. ASSUME WithErrors(file, row) = {}, NotMatching(file) = {}
         PROVE  SumFunctionOnSet(s, D) = SumFunctionOnSet(amount, in) - SumFunctionOnSet(amount, out)
    <2>1. ASSUME NEW i \in D PROVE s[i] = IF lines[i].credit THEN amount[i] ELSE -amount[i]
      <3>1. Matched(file, i) # {}
        BY <1>1, <1>16 DEF NotMatching
      <3>2. Matched(file, i) \subseteq Verified(file, row, i)
        BY <1>1, <1>16 DEF WithErrors
      <3>3. Verified(file, row, i) = Matched(file, i) /\ RightVolume(file, i)
        BY <3>1, <3>2, VerifiedOfMatched
      <3> QED BY <1>5, <1>8, <3>3 DEF RightVolume
    <2>2. SumFunctionOnSet(s, in) = SumFunctionOnSet(amount, in)
      BY <1>11, <2>1, SumOfEqual
    <2>3. SumFunctionOnSet(s, out) = -SumFunctionOnSet(amount, out)
      <3>1. \A i \in out : amount[i] \in Int /\ s[i] = -amount[i]
        BY <1>6, <1>11, <2>1
      <3> QED BY <1>11, <3>1, SumOfNegated
    <2>4. SumFunctionOnSet(amount, out) \in Int
      BY <1>6, <1>11, SumIsNumber
    <2> QED BY <1>13, <1>15, <2>2, <2>3, <2>4
  <1>17. PICK settled, received, returned :
           /\ settled = Total(DOMAIN VerifiedIbans(file, row))
           /\ received = Paid(statement, D, TRUE) /\ returned = Paid(statement, D, FALSE)
    OBVIOUS
  <1>18. settled <= received
    <2>1. PICK a, b : /\ a = SumFunctionOnSet(s, in) /\ b = SumFunctionOnSet(amount, in)
                      /\ a \in Int /\ b \in Int /\ a <= b
      BY <1>15
    <2>2. settled = a + 0 /\ received = b
      BY <1>10, <1>12, <1>13, <1>14, <1>17, <2>1
    <2> QED BY <2>1, <2>2
  <1>19. WithErrors(file, row) = {} /\ NotMatching(file) = {} => settled = received - returned
    BY <1>10, <1>12, <1>16, <1>17
  <1> QED BY <1>1, <1>17, <1>18, <1>19 DEF SumsAgree

-----------------------------------------------------------------------------
(* The subscribers, and those selected from them                            *)

\* Places that follow each other are in order already.
LEMMA SortedInterval ==
  ASSUME NEW a \in Nat, NEW m \in Nat, NEW S, S = a + 1 .. a + m
  PROVE  Cardinality(S) = m /\ \A k \in 1..m : Sorted(S)[k] = a + k
  <1>1. PICK z \in Int : z = a + m
    OBVIOUS
  <1>2. IsFiniteSet(S) /\ Cardinality(S) = m /\ S \subseteq Int
    <2>1. PICK y \in Int : y = a + 1
      OBVIOUS
    <2>2. IsFiniteSet(y..z) /\ Cardinality(y..z) = IF y > z THEN 0 ELSE z - y + 1
      BY FS_Interval
    <2>3. S = y..z /\ (IF y > z THEN 0 ELSE z - y + 1) = m
      BY <1>1, <2>1
    <2> QED BY <2>2, <2>3
  <1>3. ASSUME NEW x \in S PROVE Cardinality(Below(S, x)) = x - (a + 1)
    <2>1. PICK y \in Int, w \in Int : y = a + 1 /\ w = x - 1
      OBVIOUS
    <2>2. Cardinality(y..w) = IF y > w THEN 0 ELSE w - y + 1
      BY FS_Interval
    <2>3. Below(S, x) = y..w
      BY <2>1 DEF Below
    <2>4. (IF y > w THEN 0 ELSE w - y + 1) = x - (a + 1)
      BY <2>1
    <2> QED BY <2>2, <2>3, <2>4
  <1>4. ASSUME NEW k \in 1..m PROVE Sorted(S)[k] = a + k
    <2>1. Sorted(S)[k] = CHOOSE y \in S : Cardinality(Below(S, y)) = k - 1
      BY <1>2 DEF Sorted, Below
    <2>2. PICK x \in S : x = a + k /\ Cardinality(Below(S, x)) = k - 1
      BY <1>3
    <2>3. PICK z1 \in S : z1 = Sorted(S)[k] /\ Cardinality(Below(S, z1)) = k - 1
      BY <2>1, <2>2
    <2> QED BY <1>3, <2>2, <2>3
  <1> QED BY <1>2, <1>4

\* ORDER BY returns a sequence.
LEMMA SortedTyped ==
  ASSUME NEW S, S \subseteq Int, IsFiniteSet(S)
  PROVE  Sorted(S) \in Seq(S) /\ Len(Sorted(S)) = Cardinality(S)
  <1>1. PICK n \in Nat : n = Cardinality(S)
    BY FS_CardinalityType
  <1>2. \A k \in 1..n : Sorted(S)[k] \in S
    BY <1>1, SortedOnce
  <1>3. PICK pick : pick = [k \in 1..n |-> CHOOSE x \in S : Cardinality({y \in S : y < x}) = k - 1]
    OBVIOUS
  <1>4. Sorted(S) = pick
    BY <1>1, <1>3 DEF Sorted
  <1>5. pick \in [1..n -> S]
    BY <1>2, <1>3, <1>4
  <1> QED BY <1>1, <1>4, <1>5

\* The bookings on a list are finitely many numbers.
LEMMA BookingsFinite ==
  ASSUME NEW debit, NEW enrolled, NEW B, B = BookingsOf(debit, enrolled)
  PROVE  B \subseteq Ids /\ B \subseteq Int /\ IsFiniteSet(B)
  <1>1. B \in SUBSET Ids
    BY DEF BookingsOf
  <1>2. IsFiniteSet(B)
    BY <1>1, IdsAssumption, FS_Subset
  <1>3. ASSUME NEW b \in B PROVE b \in Int
    <2>1. b \in Nat
      BY <1>1, IdsAssumption
    <2> QED BY <2>1
  <1> QED BY <1>1, <1>2, <1>3

\* The list of subscribers: those with a seat, then those who wait.
LEMMA SubscribersListed ==
  ASSUME NEW debit, NEW first, NEW second, first = BookingsOf(debit, {TRUE}), second = BookingsOf(debit, {FALSE})
  PROVE  /\ Cardinality(first) \in Nat /\ Cardinality(second) \in Nat
         /\ DOMAIN Subscribers(debit) = 1 .. Cardinality(first) + Cardinality(second)
         /\ \A k \in 1..Cardinality(first) : Subscribers(debit)[k] = Subscription(Sorted(first)[k])
         /\ \A k \in 1..Cardinality(second) :
              Subscribers(debit)[Cardinality(first) + k] = Subscription(Sorted(second)[k])
  <1>1. PICK n, s : n = Cardinality(first) /\ s = Sorted(first)
    OBVIOUS
  <1>2. PICK m, t : m = Cardinality(second) /\ t = Sorted(second)
    OBVIOUS
  <1>3. n \in Nat /\ DOMAIN s = 1..n /\ \A k \in 1..n : s[k] \in Ids
    BY <1>1, BookingsFinite, SortedOnce
  <1>4. m \in Nat /\ DOMAIN t = 1..m /\ \A k \in 1..m : t[k] \in Ids
    BY <1>2, BookingsFinite, SortedOnce
  <1>5. s \in Seq(Ids) /\ t \in Seq(Ids) /\ Len(s) = n /\ Len(t) = m
    <2>1. s \in Seq(first) /\ t \in Seq(second) /\ Len(s) = n /\ Len(t) = m
      BY <1>1, <1>2, BookingsFinite, SortedTyped
    <2> QED BY <2>1, BookingsFinite
  <1>6. PICK ids : ids = s \o t
    OBVIOUS
  <1>7. DOMAIN ids = 1..n + m /\ (\A k \in 1..n : ids[k] = s[k]) /\ \A k \in 1..m : ids[n + k] = t[k]
    <2>1. ids \in Seq(Ids) /\ Len(ids) = n + m
      <3>1. s \o t \in Seq(Ids)
        BY <1>5
      <3>2. Len(s \o t) = Len(s) + Len(t)
        BY <1>5
      <3> QED BY <1>5, <1>6, <3>1, <3>2
    <2>2. \A k \in 1..n : ids[k] = s[k]
      BY <1>3, <1>4, <1>5, <1>6
    <2>3. ASSUME NEW k \in 1..m PROVE ids[n + k] = t[k]
      BY <1>3, <1>4, <1>5, <1>6
    <2> QED BY <2>1, <2>2, <2>3
  <1>8. Subscribers(debit) = [i \in DOMAIN ids |-> Subscription(ids[i])]
    BY <1>1, <1>2, <1>6 DEF Subscribers
  <1>9. /\ DOMAIN Subscribers(debit) = 1..n + m
        /\ \A k \in 1..n : Subscribers(debit)[k] = Subscription(s[k])
        /\ \A k \in 1..m : Subscribers(debit)[n + k] = Subscription(t[k])
    <2>1. \A k \in 1..n : k \in 1..n + m
      BY <1>3, <1>4
    <2>2. \A k \in 1..m : n + k \in 1..n + m
      BY <1>3, <1>4
    <2> QED BY <1>7, <1>8, <2>1, <2>2
  <1> QED BY <1>1, <1>2, <1>3, <1>4, <1>9

\* Who is put on the sheet, or on the list of participants.
LEMMA SelectedListed ==
  ASSUME NEW debit, NEW enrolled \in BOOLEAN, NEW B, B = BookingsOf(debit, {enrolled}),
         NEW list, list = Selected(Subscribers(debit), enrolled)
  PROVE  /\ Cardinality(B) \in Nat /\ DOMAIN list = 1..Cardinality(B) /\ Len(list) = Cardinality(B)
         /\ \A k \in 1..Cardinality(B) : list[k] = Subscription(Sorted(B)[k]) /\ Sorted(B)[k] \in B
  <1>1. PICK first, second, n, m, subscribers :
          /\ first = BookingsOf(debit, {TRUE}) /\ second = BookingsOf(debit, {FALSE})
          /\ n = Cardinality(first) /\ m = Cardinality(second) /\ subscribers = Subscribers(debit)
    OBVIOUS
  <1>2. n \in Nat /\ m \in Nat /\ DOMAIN subscribers = 1..n + m
    BY <1>1, SubscribersListed
  <1>3. ASSUME NEW k \in 1..n
        PROVE  subscribers[k] = Subscription(Sorted(first)[k]) /\ Sorted(first)[k] \in first /\ subscribers[k].enrolled = TRUE
    <2>1. PICK b : b = Sorted(first)[k] /\ b \in first
      BY <1>1, BookingsFinite, SortedOnce
    <2>2. subscribers[k] = Subscription(b)
      BY <1>1, <2>1, SubscribersListed
    <2>3. row[b].enrolled = TRUE
      BY <1>1, <2>1 DEF BookingsOf
    <2>4. Subscription(b).enrolled = row[b].enrolled
      BY DEF Subscription
    <2> QED BY <2>1, <2>2, <2>3, <2>4
  <1>4. ASSUME NEW k \in 1..m
        PROVE  subscribers[n + k] = Subscription(Sorted(second)[k]) /\ Sorted(second)[k] \in second
               /\ subscribers[n + k].enrolled = FALSE
    <2>1. PICK b : b = Sorted(second)[k] /\ b \in second
      BY <1>1, BookingsFinite, SortedOnce
    <2>2. subscribers[n + k] = Subscription(b)
      BY <1>1, <2>1, SubscribersListed
    <2>3. row[b].enrolled = FALSE
      BY <1>1, <2>1 DEF BookingsOf
    <2>4. Subscription(b).enrolled = row[b].enrolled
      BY DEF Subscription
    <2> QED BY <2>1, <2>2, <2>3, <2>4
  <1>5. PICK places : places = {i \in DOMAIN subscribers : subscribers[i].enrolled = enrolled}
    OBVIOUS
  <1>6. list = Those(subscribers, places)
    BY <1>1, <1>5 DEF Selected
  <1>7. CASE enrolled = TRUE
    <2>1. places = 0 + 1 .. 0 + n
      <3>1. ASSUME NEW i \in 1..n PROVE i \in places
        <4>1. i \in DOMAIN subscribers
          BY <1>2
        <4>2. subscribers[i].enrolled = TRUE
          BY <1>3
        <4> QED BY <1>5, <1>7, <4>1, <4>2
      <3>2. ASSUME NEW i \in places, i \notin 1..n PROVE FALSE
        <4>1. PICK k \in 1..m : i = n + k
          <5>1. i - n \in 1..m /\ i = n + (i - n)
            BY <1>2, <1>5, <3>2
          <5> QED BY <5>1
        <4> QED BY <1>4, <1>5, <1>7, <4>1
      <3>3. 0 + 1 .. 0 + n = 1..n
        BY <1>2
      <3> QED BY <3>1, <3>2, <3>3
    <2>2. Cardinality(places) = n /\ \A k \in 1..n : Sorted(places)[k] = 0 + k
      BY <1>2, <2>1, SortedInterval
    <2>3. list = [k \in 1..n |-> subscribers[Sorted(places)[k]]]
      BY <1>6, <2>2 DEF Those
    <2>4. \A k \in 1..n : list[k] = subscribers[k]
      BY <1>2, <2>2, <2>3
    <2>5. DOMAIN list = 1..n /\ Len(list) = n
      BY <1>2, <2>3
    <2>6. B = first
      BY <1>1, <1>7
    <2> QED BY <1>1, <1>2, <1>3, <2>4, <2>5, <2>6
  <1>8. CASE enrolled = FALSE
    <2>1. places = n + 1 .. n + m
      <3>1. ASSUME NEW i \in n + 1 .. n + m PROVE i \in places
        <4>1. PICK k \in 1..m : i = n + k
          <5>1. i - n \in 1..m /\ i = n + (i - n)
            BY <1>2
          <5> QED BY <5>1
        <4>2. i \in DOMAIN subscribers
          BY <1>2
        <4> QED BY <1>4, <1>5, <1>8, <4>1, <4>2
      <3>2. ASSUME NEW i \in places, i \notin n + 1 .. n + m PROVE FALSE
        <4>1. i \in 1..n
          BY <1>2, <1>5, <3>2
        <4> QED BY <1>3, <1>5, <1>8, <4>1
      <3> QED BY <3>1, <3>2
    <2>2. Cardinality(places) = m /\ \A k \in 1..m : Sorted(places)[k] = n + k
      BY <1>2, <2>1, SortedInterval
    <2>3. list = [k \in 1..m |-> subscribers[Sorted(places)[k]]]
      BY <1>6, <2>2 DEF Those
    <2>4. \A k \in 1..m : list[k] = subscribers[n + k]
      BY <1>2, <2>2, <2>3
    <2>5. DOMAIN list = 1..m /\ Len(list) = m
      BY <1>2, <2>3
    <2>6. B = second
      BY <1>1, <1>8
    <2> QED BY <1>1, <1>2, <1>4, <2>4, <2>5, <2>6
  <1> QED BY <1>7, <1>8

\* Who is written to, in announcements.
LEMMA BookingsListed ==
  ASSUME NEW debit, NEW enrolled, NEW i \in DOMAIN GetBookings(debit, enrolled)
  PROVE  \E b \in Ids : GetBookings(debit, enrolled)[i] = Subscription(b)
  <1>1. PICK B : B = BookingsOf(debit, enrolled)
    OBVIOUS
  <1>2. B \subseteq Ids /\ B \subseteq Int /\ IsFiniteSet(B)
    BY <1>1, BookingsFinite
  <1>3. /\ DOMAIN GetBookings(debit, enrolled) = DOMAIN Sorted(B)
        /\ GetBookings(debit, enrolled)[i] = Subscription(Sorted(B)[i])
    BY <1>1 DEF GetBookings
  <1>4. Sorted(B)[i] \in Ids
    BY <1>2, <1>3, SortedOnce
  <1> QED BY <1>3, <1>4

-----------------------------------------------------------------------------
(* Prices                                                                   *)

\* The smallest of these positions is one of them.
LEMMA MinIsMember ==
  ASSUME NEW S \in SUBSET Positions, S # {}
  PROVE  Min(S) \in S
  <1>1. S \subseteq 1..4
    BY DEF Positions
  <1>2. \E x \in S : \A y \in S : x <= y
    <2>1. 1 \in S => \A y \in S : 1 <= y
      BY <1>1
    <2>2. 1 \notin S /\ 2 \in S => \A y \in S : 2 <= y
      BY <1>1
    <2>3. 1 \notin S /\ 2 \notin S /\ 3 \in S => \A y \in S : 3 <= y
      BY <1>1
    <2>4. 1 \notin S /\ 2 \notin S /\ 3 \notin S => \A y \in S : 4 <= y
      BY <1>1
    <2>5. PICK x \in S : x \in 1..4
      BY <1>1
    <2>6. 1 \in S \/ 2 \in S \/ 3 \in S \/ 4 \in S
      BY <2>5
    <2> QED BY <2>1, <2>2, <2>3, <2>4, <2>6
  <1> QED BY <1>2 DEF Min

\* The field that counts, if the event has one: the number that is multiplied with is what the
\* person answered there.
LEMMA MultiplierIsAnswer ==
  ASSUME NEW columns \in Columns, NEW b \in Ids,
         NEW flags, flags = [i \in Positions |-> i <= Len(columns) /\ columns[i] \in Relevant],
         NEW values, values = [i \in DOMAIN columns |-> Answers[b][columns[i]]]
  PROVE  \/ ToSet(columns) \cap Relevant = {} /\ Multiplier(flags, values) = None
         \/ \E f : ToSet(columns) \cap Relevant = {f} /\ Multiplier(flags, values) = Answers[b][f]
  <1>1. columns \in Seq(Fields) /\ Len(columns) <= 4 /\ \A f, g \in ToSet(columns) \cap Relevant : f = g
    BY FormAssumption
  <1>2. DOMAIN columns \subseteq Positions /\ Len(columns) \in Nat /\ DOMAIN columns = 1..Len(columns)
    BY <1>1 DEF Positions
  <1>3. PICK relevant : relevant = {i \in DOMAIN flags : flags[i]}
    OBVIOUS
  <1>4. relevant = {i \in DOMAIN columns : columns[i] \in Relevant}
    <2>1. DOMAIN flags = Positions /\ \A i \in Positions : flags[i] <=> i <= Len(columns) /\ columns[i] \in Relevant
      OBVIOUS
    <2>2. \A i \in DOMAIN columns : i \in Positions /\ i <= Len(columns)
      BY <1>2 DEF Positions
    <2>3. \A i \in Positions : i <= Len(columns) => i \in DOMAIN columns
      BY <1>2 DEF Positions
    <2> QED BY <1>3, <2>1, <2>2, <2>3
  <1>5. CASE relevant = {}
    <2>1. ToSet(columns) \cap Relevant = {}
      BY <1>4, <1>5 DEF ToSet
    <2>2. Multiplier(flags, values) = None
      BY <1>3, <1>5 DEF Multiplier
    <2> QED BY <2>1, <2>2
  <1>6. CASE relevant # {}
    <2>1. PICK i : i = Min(relevant) /\ i \in relevant
      BY <1>2, <1>4, <1>6, MinIsMember
    <2>2. Multiplier(flags, values) = Answers[b][columns[i]]
      BY <1>3, <1>4, <2>1 DEF Multiplier
    <2>3. columns[i] \in ToSet(columns) \cap Relevant
      BY <1>4, <2>1 DEF ToSet
    <2>4. ToSet(columns) \cap Relevant = {columns[i]}
      BY <1>1, <2>3
    <2> QED BY <2>2, <2>4
  <1> QED BY <1>5, <1>6

\* Fields that are listed in the order of the columns.
SameFields == form.columns = form.first /\ ListedNow = form.columns

LEMMA FieldsInOrder ==
  ASSUME TypeOK, SameFields
  PROVE  /\ form.columns \in Columns /\ Asked = form.columns /\ ListedNow = form.columns
         /\ \A b \in Ids : Values(b) = [i \in DOMAIN form.columns |-> Answers[b][form.columns[i]]]
  BY DEF TypeOK, Form, SameFields, Asked, ListedNow, Values

\* Both ways to find the field that counts lead to the cost.
LEMMA TotalIsCost ==
  ASSUME TypeOK, SameFields, NEW b \in Ids,
         NEW flags, flags = [i \in Positions |-> i <= Len(form.columns) /\ form.columns[i] \in Relevant]
  PROVE  TotalPrice(Base[b], flags, Values(b)) = Cost(b)
  <1>1. PICK columns, values : columns = form.columns /\ values = Values(b)
    OBVIOUS
  <1>2. PICK n : n = Multiplier(flags, values)
    OBVIOUS
  <1>3. \/ ToSet(columns) \cap Relevant = {} /\ n = None
        \/ \E f : ToSet(columns) \cap Relevant = {f} /\ n = Answers[b][f]
    <2>1. columns \in Columns /\ values = [i \in DOMAIN columns |-> Answers[b][columns[i]]]
      BY <1>1, FieldsInOrder
    <2>2. flags = [i \in Positions |-> i <= Len(columns) /\ columns[i] \in Relevant]
      BY <1>1
    <2> QED BY <1>2, <2>1, <2>2, MultiplierIsAnswer
  <1>4. TotalPrice(Base[b], flags, values) = IF n = None THEN Base[b] ELSE Base[b] * n
    BY <1>2 DEF TotalPrice
  <1>5. PICK number : number = {Answers[b][f] : f \in ToSet(columns) \cap Relevant} \ {None}
    OBVIOUS
  <1>6. Cost(b) = IF number = {} THEN Base[b] ELSE Base[b] * (CHOOSE x \in number : TRUE)
    BY <1>1, <1>5 DEF Cost
  <1>7. number = IF n = None THEN {} ELSE {n}
    BY <1>3, <1>5
  <1> QED BY <1>1, <1>4, <1>6, <1>7

LEMMA CostTyped ==
  ASSUME TypeOK, SameFields, NEW b \in Ids
  PROVE  Cost(b) \in Int
  <1>1. PICK columns : columns = form.columns /\ columns \in Columns
    BY FieldsInOrder
  <1>2. PICK number : number = {Answers[b][f] : f \in ToSet(columns) \cap Relevant} \ {None}
    OBVIOUS
  <1>3. \A f \in Relevant : Answers[b][f] \in Int \cup {None}
    BY PriceAssumption, FieldsAssumption
  <1>4. \A x \in number : x \in Int
    BY <1>2, <1>3
  <1>5. number # {} => (CHOOSE x \in number : TRUE) \in Int
    BY <1>4
  <1>6. Cost(b) = IF number = {} THEN Base[b] ELSE Base[b] * (CHOOSE x \in number : TRUE)
    BY <1>1, <1>2 DEF Cost
  <1>7. Base[b] \in Int
    BY PriceAssumption
  <1> QED BY <1>5, <1>6, <1>7

LEMMA EventPriceIsCost ==
  ASSUME TypeOK, SameFields, NEW b \in Ids
  PROVE  EventPrice(Base[b], ListedNow, Values(b)) = Cost(b)
  BY TotalIsCost, FieldsInOrder DEF EventPrice, ListFlags

LEMMA ColumnPriceIsCost ==
  ASSUME TypeOK, SameFields, NEW b \in Ids
  PROVE  TotalPrice(Base[b], ColumnFlags(form.columns), Values(b)) = Cost(b)
  BY TotalIsCost, FieldsInOrder DEF ColumnFlags

\* The price of a subscription, wherever it is computed from the list of the fields.
LEMMA SubscriptionPrice ==
  ASSUME TypeOK, SameFields, NEW b \in Ids, NEW s, s = Subscription(b)
  PROVE  /\ s.id = b /\ EventPrice(s.base, ListedNow, s.values) = Cost(b)
         /\ s.paid = row[b].paid /\ s.enrolled = row[b].enrolled
  <1>1. s.id = b /\ s.base = Base[b] /\ s.values = Values(b) /\ s.paid = row[b].paid /\ s.enrolled = row[b].enrolled
    BY DEF Subscription
  <1> QED BY <1>1, EventPriceIsCost

\* Whoever is selected is one of the bookings.
LEMMA SelectedAreSubscriptions ==
  ASSUME NEW debit, NEW enrolled \in BOOLEAN, NEW list, list = Selected(Subscribers(debit), enrolled),
         NEW i \in DOMAIN list
  PROVE  \E b \in Ids : list[i] = Subscription(b)
  <1>1. PICK B : B = BookingsOf(debit, {enrolled})
    OBVIOUS
  <1>2. B \subseteq Ids
    BY <1>1, BookingsFinite
  <1>3. DOMAIN list = 1..Cardinality(B) /\ \A k \in 1..Cardinality(B) : list[k] = Subscription(Sorted(B)[k]) /\ Sorted(B)[k] \in B
    BY <1>1, SelectedListed
  <1> QED BY <1>2, <1>3

\* The price on a row of either sheet.
LEMMA SheetPrices ==
  ASSUME TypeOK, SameFields, NEW debit, NEW enrolled \in BOOLEAN,
         NEW line \in ToSet(Sheet(Selected(Subscribers(debit), enrolled), ListedNow, debit))
  PROVE  line.price = Cost(line.id)
  <1>1. PICK list : list = Selected(Subscribers(debit), enrolled)
    OBVIOUS
  <1>2. PICK i \in DOMAIN list : line = Line(list[i], ListedNow, debit)
    BY <1>1 DEF Sheet, ToSet
  <1>3. PICK b \in Ids : list[i] = Subscription(b)
    BY <1>1, SelectedAreSubscriptions
  <1>4. line.id = list[i].id /\ line.price = EventPrice(list[i].base, ListedNow, list[i].values)
    BY <1>2 DEF Line
  <1> QED BY <1>3, <1>4, SubscriptionPrice

\* The price in a confirmation.
LEMMA ConfirmationPrices ==
  ASSUME TypeOK, SameFields, NEW debit,
         NEW mail \in ToSet(Confirmations(Subscribers(debit), ListedNow, Dates))
  PROVE  mail.price = Cost(mail.to)
  <1>1. PICK list : list = Selected(Subscribers(debit), TRUE)
    OBVIOUS
  <1>2. PICK i \in DOMAIN list : mail = Confirmation(list[i], ListedNow, Dates)
    <2>1. PICK mails : mails = Confirmations(Subscribers(debit), ListedNow, Dates) /\ mail \in ToSet(mails)
      OBVIOUS
    <2>2. mails # <<>>
      BY <2>1 DEF ToSet
    <2>3. mails = [i \in DOMAIN list |-> Confirmation(list[i], ListedNow, Dates)]
      BY <1>1, <2>1, <2>2 DEF Confirmations
    <2> QED BY <2>1, <2>3 DEF ToSet
  <1>3. PICK b \in Ids : list[i] = Subscription(b)
    <2>1. \A enrolled \in BOOLEAN : \A j \in DOMAIN Selected(Subscribers(debit), enrolled) :
            \E b \in Ids : Selected(Subscribers(debit), enrolled)[j] = Subscription(b)
      BY SelectedAreSubscriptions
    <2>2. \A j \in DOMAIN Selected(Subscribers(debit), TRUE) :
            \E b \in Ids : Selected(Subscribers(debit), TRUE)[j] = Subscription(b)
      BY <2>1, Zenon
    <2> QED BY <1>1, <2>2
  <1>4. mail.to = list[i].id /\ mail.price = EventPrice(list[i].base, ListedNow, list[i].values)
    BY <1>2 DEF Confirmation
  <1> QED BY <1>3, <1>4, SubscriptionPrice

\* The price in an announcement.
LEMMA AnnouncedPrices ==
  ASSUME TypeOK, SameFields, NEW debit,
         NEW mail \in ToSet(EventEmails(GetBookings(debit, BOOLEAN), ListedNow, TRUE, debit))
  PROVE  mail.price = Cost(mail.to)
  <1>1. PICK list : list = GetBookings(debit, BOOLEAN)
    OBVIOUS
  <1>2. PICK i \in DOMAIN list :
          mail = BookingMail(list[i].id, TRUE, EventPrice(list[i].base, ListedNow, list[i].values), TRUE, debit)
    BY <1>1 DEF EventEmails, ToSet
  <1>3. PICK b \in Ids : list[i] = Subscription(b)
    BY <1>1, BookingsListed
  <1>4. mail.to = list[i].id /\ mail.price = EventPrice(list[i].base, ListedNow, list[i].values)
    BY <1>2 DEF BookingMail
  <1> QED BY <1>3, <1>4, SubscriptionPrice

\* The sum that the bank gets is the sum of the costs of the bookings that it debits.
LEMMA DebitedSum ==
  ASSUME TypeOK, SameFields, NEW xml, xml = SepaXml(Selected(Subscribers(TRUE), TRUE), ListedNow)
  PROVE  xml.sum = SumFunctionOnSet([b \in Ids |-> Cost(b)], {d.ref : d \in ToSet(xml.debits)})
  <1>1. PICK list, B : list = Selected(Subscribers(TRUE), TRUE) /\ B = BookingsOf(TRUE, {TRUE})
    OBVIOUS
  <1>2. PICK I, ids : I = DOMAIN list /\ ids = Sorted(B)
    OBVIOUS
  <1>3. Cardinality(B) \in Nat /\ I = 1..Cardinality(B) /\ \A i \in I : list[i] = Subscription(ids[i]) /\ ids[i] \in B
    <2>1. PICK yes \in BOOLEAN : yes = TRUE
      OBVIOUS
    <2>2. list = Selected(Subscribers(yes), yes) /\ B = BookingsOf(yes, {yes})
      BY <1>1, <2>1
    <2>3. /\ Cardinality(B) \in Nat /\ DOMAIN list = 1..Cardinality(B) /\ Len(list) = Cardinality(B)
          /\ \A k \in 1..Cardinality(B) : list[k] = Subscription(Sorted(B)[k]) /\ Sorted(B)[k] \in B
      BY <2>2, SelectedListed
    <2> QED BY <1>2, <2>3
  <1>4. B \subseteq Ids /\ B \subseteq Int /\ IsFiniteSet(B)
    BY <1>1, BookingsFinite
  <1>5. IsFiniteSet(I)
    BY <1>3, FS_Interval
  <1>6. PICK debits : debits = [i \in I |-> Debit(list[i], ListedNow)]
    OBVIOUS
  <1>7. PICK f, g : f = [b \in Ids |-> Cost(b)] /\ g = [i \in I |-> debits[i].amount]
    OBVIOUS
  <1>8. \A i \in I : debits[i].ref = ids[i] /\ debits[i].amount = Cost(ids[i])
    <2>1. ASSUME NEW i \in I PROVE debits[i].ref = ids[i] /\ debits[i].amount = Cost(ids[i])
      <3>1. debits[i].ref = list[i].id /\ debits[i].amount = EventPrice(list[i].base, ListedNow, list[i].values)
        BY <1>6 DEF Debit
      <3>2. ids[i] \in Ids /\ list[i] = Subscription(ids[i])
        BY <1>3, <1>4
      <3> QED BY <3>1, <3>2, SubscriptionPrice
    <2> QED BY <2>1
  <1>9. PICK names : names = {d.ref : d \in ToSet(debits)}
    OBVIOUS
  <1>10. \A x : x \in names <=> \E i \in I : x = ids[i]
    BY <1>6, <1>8, <1>9 DEF ToSet
  <1>11. \A i \in I : f[ids[i]] \in Int /\ g[i] = f[ids[i]]
    <2>1. ASSUME NEW i \in I PROVE f[ids[i]] \in Int /\ g[i] = f[ids[i]]
      <3>1. ids[i] \in Ids
        BY <1>3, <1>4
      <3>2. Cost(ids[i]) \in Int
        BY <3>1, CostTyped
      <3> QED BY <1>7, <1>8, <3>1, <3>2
    <2> QED BY <2>1
  <1>12. \A i \in I : \A j \in I : i # j => ids[i] # ids[j]
    <2>1. \A k, l \in I : k < l => ids[k] < ids[l]
      BY <1>2, <1>3, <1>4, SortedOnce
    <2>2. ASSUME NEW i \in I, NEW j \in I, i # j PROVE ids[i] # ids[j]
      <3>1. ids[i] \in Int /\ ids[j] \in Int
        BY <1>3, <1>4
      <3>2. i < j \/ j < i
        BY <1>3, <2>2
      <3> QED BY <2>1, <3>1, <3>2
    <2> QED BY <2>2
  <1>13. SumFunctionOnSet(g, I) = SumFunctionOnSet(f, names)
    BY <1>5, <1>10, <1>11, <1>12, SumOfNamed
  <1>14. xml.debits = debits /\ xml.sum = SumFunction(g)
    BY <1>1, <1>2, <1>6, <1>7 DEF SepaXml
  <1>15. SumFunction(g) = SumFunctionOnSet(g, I)
    BY <1>7 DEF SumFunction
  <1> QED BY <1>7, <1>9, <1>13, <1>14, <1>15

\* All prices together.
LEMMA EverybodyIsToldTheSame ==
  ASSUME TypeOK
  PROVE  PricesAgree
  <1> SUFFICES ASSUME SameFields PROVE PricesAgree
    BY DEF PricesAgree, SameFields
  <1>1. ASSUME NEW b \in Ids \ promoted
        PROVE  BookingMail(b, row[b].enrolled, EventPrice(Base[b], Asked, MailedValues(b)), TRUE, b \in Sepa).price = Cost(b)
    <2>1. MailedValues(b) = Values(b) /\ Asked = ListedNow
      BY FieldsInOrder DEF MailedValues
    <2> QED BY <2>1, EventPriceIsCost DEF BookingMail
  <1>2. ASSUME NEW b \in Ids
        PROVE  /\ PaymentReminder(b, UnpaidPrice(Base[b], form.columns, Values(b)), TRUE, b \in Sepa).price = Cost(b)
               /\ Price(b) = Cost(b)
    BY ColumnPriceIsCost DEF PaymentReminder, UnpaidPrice, Price, CheckedPrice
  <1>3. ASSUME NEW debit \in BOOLEAN
        PROVE  LET sheets == Workbook(Subscribers(debit), ListedNow, debit) IN
                 \A line \in ToSet(sheets.bookings) \cup ToSet(sheets.waiting) : line.price = Cost(line.id)
    BY SheetPrices DEF Workbook
  <1> QED BY <1>1, <1>2, <1>3, ConfirmationPrices, AnnouncedPrices, DebitedSum DEF PricesAgree

-----------------------------------------------------------------------------
(* Sheets, confirmations and the pages of the list                          *)

\* A list of the numbers of S in ascending order.
LEMMA ListOfSorted ==
  ASSUME NEW S, S \subseteq Int, IsFiniteSet(S),
         NEW ids, ids = [i \in DOMAIN ids |-> ids[i]], DOMAIN ids = 1..Cardinality(S),
         \A i \in DOMAIN ids : ids[i] = Sorted(S)[i]
  PROVE  Lists(ids, S) /\ Ascending(ids)
  <1>1. PICK n : n = Cardinality(S) /\ n \in Nat /\ DOMAIN ids = 1..n
    BY SortedOnce
  <1>2. \A i \in 1..n : ids[i] \in S
    BY <1>1, SortedOnce
  <1>3. \A x \in S : \E i \in 1..n : ids[i] = x
    <2>1. ASSUME NEW x \in S PROVE \E i \in 1..n : ids[i] = x
      <3>1. PICK i \in 1..n : Sorted(S)[i] = x
        BY <1>1, SortedOnce
      <3> QED BY <1>1, <3>1
    <2> QED BY <2>1
  <1>4. \A i, j \in 1..n : i < j => ids[i] < ids[j]
    BY <1>1, SortedOnce
  <1>5. ids \in [1..n -> S]
    BY <1>1, <1>2
  <1>6. Len(ids) = n
    BY <1>1, <1>5
  <1> QED BY <1>1, <1>2, <1>3, <1>4, <1>6 DEF Lists, Ascending, ToSet

\* One sheet, with or without a seat, has a row for each booking.
LEMMA SheetListed ==
  ASSUME NEW debit \in BOOLEAN, NEW enrolled \in BOOLEAN,
         NEW B, B = BookingsOf(debit, {enrolled}),
         NEW lines, lines = Sheet(Selected(Subscribers(debit), enrolled), ListedNow, debit)
  PROVE  /\ Lists([i \in DOMAIN lines |-> lines[i].id], B)
         /\ ~debit => \A line \in ToSet(lines) : line.mark <=> row[line.id].paid
  <1>1. PICK list, ids : list = Selected(Subscribers(debit), enrolled) /\ ids = [i \in DOMAIN lines |-> lines[i].id]
    OBVIOUS
  <1>2. lines = [i \in DOMAIN list |-> Line(list[i], ListedNow, debit)]
    BY <1>1 DEF Sheet
  <1>3. /\ Cardinality(B) \in Nat /\ DOMAIN list = 1..Cardinality(B) /\ Len(list) = Cardinality(B)
        /\ \A k \in 1..Cardinality(B) : list[k] = Subscription(Sorted(B)[k]) /\ Sorted(B)[k] \in B
    BY <1>1, SelectedListed
  <1>4. ASSUME NEW i \in DOMAIN list
        PROVE  lines[i].id = Sorted(B)[i] /\ (~debit => lines[i].mark = row[Sorted(B)[i]].paid)
    <2>1. lines[i].id = list[i].id /\ (~debit => lines[i].mark = list[i].paid)
      BY <1>2 DEF Line
    <2>2. list[i] = Subscription(Sorted(B)[i])
      BY <1>3
    <2>3. list[i].id = Sorted(B)[i] /\ list[i].paid = row[Sorted(B)[i]].paid
      BY <2>2 DEF Subscription
    <2> QED BY <2>1, <2>3
  <1>5. B \subseteq Int /\ IsFiniteSet(B)
    BY BookingsFinite
  <1>6. DOMAIN ids = 1..Cardinality(B) /\ ids = [i \in DOMAIN ids |-> ids[i]] /\ \A i \in DOMAIN ids : ids[i] = Sorted(B)[i]
    BY <1>1, <1>2, <1>3, <1>4
  <1>7. Lists(ids, B)
    BY <1>5, <1>6, ListOfSorted
  <1>8. ASSUME ~debit, NEW line \in ToSet(lines) PROVE line.mark <=> row[line.id].paid
    <2>1. PICK i \in DOMAIN list : line = lines[i]
      BY <1>2 DEF ToSet
    <2>2. line.id = Sorted(B)[i] /\ line.mark = row[Sorted(B)[i]].paid
      BY <1>4, <1>8, <2>1
    <2> QED BY <2>2
  <1> QED BY <1>1, <1>7, <1>8

\* Both sheets.
LEMMA SheetsListed ==
  ASSUME NEW debit \in BOOLEAN
  PROVE  SheetsAreComplete(debit)
  <1>1. PICK sheets : sheets = Workbook(Subscribers(debit), ListedNow, debit)
    OBVIOUS
  <1>2. \A enrolled \in BOOLEAN :
          LET lines == Sheet(Selected(Subscribers(debit), enrolled), ListedNow, debit)
          IN  /\ Lists([i \in DOMAIN lines |-> lines[i].id], BookingsOf(debit, {enrolled}))
              /\ ~debit => \A line \in ToSet(lines) : line.mark <=> row[line.id].paid
    BY SheetListed
  <1>3. /\ sheets.bookings = Sheet(Selected(Subscribers(debit), TRUE), ListedNow, debit)
        /\ sheets.waiting = Sheet(Selected(Subscribers(debit), FALSE), ListedNow, debit)
    BY <1>1 DEF Workbook
  <1>4. /\ Lists([i \in DOMAIN sheets.bookings |-> sheets.bookings[i].id], BookingsOf(debit, {TRUE}))
        /\ ~debit => \A line \in ToSet(sheets.bookings) : line.mark <=> row[line.id].paid
    BY <1>2, <1>3, Zenon
  <1>5. /\ Lists([i \in DOMAIN sheets.waiting |-> sheets.waiting[i].id], BookingsOf(debit, {FALSE}))
        /\ ~debit => \A line \in ToSet(sheets.waiting) : line.mark <=> row[line.id].paid
    BY <1>2, <1>3, Zenon
  <1>6. ~debit => \A line \in ToSet(sheets.bookings) \cup ToSet(sheets.waiting) : line.mark <=> row[line.id].paid
    BY <1>4, <1>5
  <1> QED BY <1>1, <1>4, <1>5, <1>6 DEF SheetsAreComplete

\* Who attends, as the list of participants and the confirmations are made from it.
LEMMA AttendeesListed ==
  ASSUME NEW debit \in BOOLEAN
  PROVE  LET list == Selected(Subscribers(debit), TRUE)
             B == BookingsOf(debit, {TRUE})
         IN  /\ Cardinality(B) \in Nat /\ DOMAIN list = 1..Cardinality(B)
             /\ \A k \in DOMAIN list : list[k].id = Sorted(B)[k]
  <1>1. \A enrolled \in BOOLEAN :
          LET all == Selected(Subscribers(debit), enrolled)
              S == BookingsOf(debit, {enrolled})
          IN  /\ Cardinality(S) \in Nat /\ DOMAIN all = 1..Cardinality(S)
              /\ \A k \in 1..Cardinality(S) : all[k] = Subscription(Sorted(S)[k])
    <2>1. ASSUME NEW enrolled \in BOOLEAN, NEW all, all = Selected(Subscribers(debit), enrolled),
                 NEW S, S = BookingsOf(debit, {enrolled})
          PROVE  /\ Cardinality(S) \in Nat /\ DOMAIN all = 1..Cardinality(S) /\ Len(all) = Cardinality(S)
                 /\ \A k \in 1..Cardinality(S) : all[k] = Subscription(Sorted(S)[k]) /\ Sorted(S)[k] \in S
      BY <2>1, SelectedListed
    <2> QED BY <2>1
  <1>2. LET all == Selected(Subscribers(debit), TRUE)
            S == BookingsOf(debit, {TRUE})
        IN  /\ Cardinality(S) \in Nat /\ DOMAIN all = 1..Cardinality(S)
            /\ \A k \in 1..Cardinality(S) : all[k] = Subscription(Sorted(S)[k])
    BY <1>1, Zenon
  <1>3. \A b : Subscription(b).id = b
    BY DEF Subscription
  <1> QED BY <1>2, <1>3

\* A confirmation for each attendee, in order.
LEMMA ConfirmationsListed ==
  ASSUME NEW debit \in BOOLEAN
  PROVE  ConfirmationsAreComplete(debit)
  <1> SUFFICES ASSUME Dates # <<>> PROVE ConfirmationsAreComplete(debit)
    BY DEF ConfirmationsAreComplete
  <1>1. PICK B, list : B = BookingsOf(debit, {TRUE}) /\ list = Selected(Subscribers(debit), TRUE)
    OBVIOUS
  <1>2. /\ Cardinality(B) \in Nat /\ DOMAIN list = 1..Cardinality(B)
        /\ \A k \in DOMAIN list : list[k].id = Sorted(B)[k]
    <2>1. LET all == Selected(Subscribers(debit), TRUE)
              S == BookingsOf(debit, {TRUE})
          IN  /\ Cardinality(S) \in Nat /\ DOMAIN all = 1..Cardinality(S)
              /\ \A k \in DOMAIN all : all[k].id = Sorted(S)[k]
      BY AttendeesListed, Zenon
    <2> QED BY <1>1, <2>1
  <1>3. PICK mails : mails = Confirmations(Subscribers(debit), ListedNow, Dates)
    OBVIOUS
  <1>4. mails = [i \in DOMAIN list |-> Confirmation(list[i], ListedNow, Dates)]
    BY <1>1, <1>3 DEF Confirmations
  <1>5. PICK to : to = [i \in DOMAIN mails |-> mails[i].to]
    OBVIOUS
  <1>6. \A i \in DOMAIN list : mails[i].to = list[i].id
    BY <1>4 DEF Confirmation
  <1>7. DOMAIN to = 1..Cardinality(B) /\ to = [i \in DOMAIN to |-> to[i]] /\ \A i \in DOMAIN to : to[i] = Sorted(B)[i]
    BY <1>2, <1>4, <1>5, <1>6
  <1>8. B \subseteq Int /\ IsFiniteSet(B)
    BY <1>1, BookingsFinite
  <1>9. Lists(to, B) /\ Ascending(to)
    BY <1>7, <1>8, ListOfSorted
  <1> QED BY <1>1, <1>3, <1>5, <1>9 DEF ConfirmationsAreComplete

\* The elements of a sequence after the first a, up to the c-th.
Stretch(s, a, c) == SubSeq(s, a + 1, c)

\* It has c - a of them,
LEMMA StretchTyped ==
  ASSUME NEW S, NEW s \in Seq(S), NEW a \in Nat, NEW c \in Nat, a <= c, c <= Len(s)
  PROVE  Stretch(s, a, c) \in Seq(S) /\ Len(Stretch(s, a, c)) = c - a
  <1>1. PICK m \in Int : m = a + 1
    OBVIOUS
  <1>2. c \in Int
    OBVIOUS
  <1>3. \A i \in m..c : s[i] \in S
    BY <1>1
  <1>4. PICK t : t = Stretch(s, a, c) /\ t = SubSeq(s, m, c)
    BY <1>1 DEF Stretch
  <1>5. t \in Seq(S)
    BY <1>2, <1>3, <1>4, SubSeqProperties
  <1>6. Len(t) = IF m <= c THEN c - m + 1 ELSE 0
    BY <1>2, <1>3, <1>4, SubSeqProperties
  <1>7. Len(t) = c - a
    BY <1>1, <1>6
  <1> QED BY <1>4, <1>5, <1>7

\* ... which are those after the a-th.
LEMMA StretchAt ==
  ASSUME NEW S, NEW s \in Seq(S), NEW a \in Nat, NEW c \in Nat, a <= c, c <= Len(s), NEW i \in 1 .. c - a
  PROVE  Stretch(s, a, c)[i] = s[a + i]
  <1>1. PICK m \in Int : m = a + 1
    OBVIOUS
  <1>2. c \in Int
    OBVIOUS
  <1>3. \A j \in m..c : s[j] \in S
    BY <1>1
  <1>4. PICK t : t = Stretch(s, a, c) /\ t = SubSeq(s, m, c)
    BY <1>1 DEF Stretch
  <1>5. ASSUME NEW j \in 1 .. c - m + 1
        PROVE  t[j] = s[m + j - 1]
    BY <1>2, <1>3, <1>4, SubSeqProperties
  <1>6. i \in 1 .. c - m + 1 /\ m + i - 1 = a + i
    BY <1>1
  <1>7. t[i] = s[m + i - 1]
    BY <1>5, <1>6
  <1> QED BY <1>4, <1>6, <1>7

LEMMA MinOfTwo ==
  ASSUME NEW a \in Int, NEW b \in Int
  PROVE  Min({a, b}) = IF a <= b THEN a ELSE b
  <1>1. PICK c : c = (IF a <= b THEN a ELSE b)
    OBVIOUS
  <1>2. c \in {a, b} /\ \A y \in {a, b} : c <= y
    BY <1>1
  <1>3. PICK d : d = Min({a, b}) /\ d \in {a, b} /\ \A y \in {a, b} : d <= y
    BY <1>2 DEF Min
  <1> QED BY <1>1, <1>2, <1>3

\* Where the pages are cut.
LEMMA PagesFollow ==
  ASSUME NEW p \in Nat, NEW q \in Nat, p < q
  PROVE  p * PageSize \in Nat /\ (q - 1) * PageSize \in Nat /\ p * PageSize <= (q - 1) * PageSize
  <1>1. PICK size \in Nat : size = PageSize
    BY PagesAssumption
  <1>2. PICK d \in Nat : q = p + 1 + d
    <2>1. q - (p + 1) \in Nat
      OBVIOUS
    <2> QED BY <2>1
  <1>3. q - 1 = p + d
    BY <1>2
  <1>4. (p + d) * size = p * size + d * size
    BY <1>1, <1>2
  <1>5. p * size \in Nat /\ d * size \in Nat
    BY <1>1, <1>2
  <1>6. p * size <= p * size + d * size /\ p * size + d * size \in Nat
    BY <1>5
  <1> QED BY <1>1, <1>3, <1>4, <1>5, <1>6

\* A page ends where the next one starts.
LEMMA PageStarts ==
  ASSUME NEW p \in Nat, p >= 1
  PROVE  (p - 1) * PageSize \in Nat /\ p * PageSize = (p - 1) * PageSize + PageSize /\ p <= p * PageSize
  <1>1. PICK size \in Nat : size = PageSize /\ size >= 1
    BY PagesAssumption
  <1>2. PICK d \in Nat : p = d + 1 /\ d = p - 1
    OBVIOUS
  <1>3. d * size \in Nat /\ p * size = d * size + size
    BY <1>1, <1>2
  <1>4. PICK more \in Nat : size = 1 + more
    <2>1. size - 1 \in Nat
      BY <1>1
    <2> QED BY <2>1
  <1>5. p * size = p + p * more /\ p * more \in Nat
    BY <1>4
  <1>6. p <= p * size
    BY <1>5
  <1> QED BY <1>1, <1>2, <1>3, <1>6

\* Everybody is on a page.
LEMMA PageOf ==
  ASSUME NEW n \in Nat, NEW k \in 1..n
  PROVE  \E p \in PageNumbers(n) : (p - 1) * PageSize < k /\ k <= p * PageSize
  <1>1. PICK enough : enough = {p \in Nat : k <= p * PageSize}
    OBVIOUS
  <1>2. k \in enough
    BY <1>1, PageStarts
  <1>3. enough \subseteq Nat /\ enough # {}
    BY <1>1, <1>2
  <1>4. PICK p \in enough : \A q \in enough : ~(<<q, p>> \in OpToRel(<, Nat))
    BY <1>3, NatLessThanWellFounded, WFMin
  <1>5. \A q \in enough : ~(q < p)
    BY <1>3, <1>4 DEF OpToRel
  <1>6. p \in Nat /\ p <= k /\ k <= p * PageSize
    <2>1. p \in Nat /\ k <= p * PageSize
      BY <1>1
    <2>2. ~(k < p)
      BY <1>2, <1>5
    <2> QED BY <2>1, <2>2
  <1>7. p # 0
    <2>1. 0 * PageSize = 0
      BY PagesAssumption
    <2> QED BY <1>6, <2>1
  <1>8. (p - 1) * PageSize < k
    <2>1. p - 1 \in Nat /\ p - 1 < p
      BY <1>6, <1>7
    <2>2. p - 1 \notin enough
      BY <1>5, <2>1
    <2>3. (p - 1) * PageSize \in Nat
      BY <1>6, <1>7, PageStarts
    <2> QED BY <1>1, <2>1, <2>2, <2>3
  <1>9. p \in 1..n
    BY <1>6, <1>7
  <1>10. (p - 1) * PageSize \in Nat /\ (p - 1) * PageSize < n
    BY <1>6, <1>7, <1>8, PageStarts
  <1> QED BY <1>6, <1>8, <1>9, <1>10 DEF PageNumbers

\* The page holds the participants after Before(p), up to UpTo(p, n) of n.
Before(p) == (p - 1) * PageSize

UpTo(p, n) == Min({p * PageSize, n})

\* What is on a page: it has rows for all participants that are given to it.
LEMMA PageNames ==
  ASSUME NEW s \in Seq(Int), NEW dates, NEW p \in PageNumbers(Len(s)),
         NEW a, a = Before(p), NEW c, c = UpTo(p, Len(s))
  PROVE  /\ a \in Nat /\ c \in Nat /\ a < c /\ c <= Len(s) /\ c <= p * PageSize
         /\ c = Len(s) \/ c = p * PageSize
         /\ Pages(s, dates)[p].names = Stretch(s, a, c)
  <1>0. a = (p - 1) * PageSize /\ c = Min({p * PageSize, Len(s)})
    BY DEF Before, UpTo
  <1>1. PICK n : n = Len(s) /\ n \in Nat
    OBVIOUS
  <1>2. p \in Nat /\ p >= 1 /\ a < n
    BY <1>0, <1>1 DEF PageNumbers
  <1>3. a \in Nat /\ p * PageSize = a + PageSize
    BY <1>0, <1>2, PageStarts
  <1>4. PageSize \in Nat /\ PageSize >= 1 /\ NameRows \in Nat /\ PageSize <= NameRows
    BY PagesAssumption
  <1>5. c = IF a + PageSize <= n THEN a + PageSize ELSE n
    BY <1>0, <1>1, <1>3, <1>4, MinOfTwo
  <1>6. c \in Nat /\ a < c /\ c <= n /\ c <= a + PageSize /\ (c = n \/ c = a + PageSize)
    BY <1>1, <1>2, <1>3, <1>4, <1>5
  <1>7. PICK sub : sub = SubSeq(s, a + 1, c)
    OBVIOUS
  <1>9. sub = Stretch(s, a, c) /\ sub \in Seq(Int) /\ Len(sub) = c - a
    <2>1. a <= c /\ c <= Len(s) /\ sub = Stretch(s, a, c)
      BY <1>1, <1>3, <1>6, <1>7 DEF Stretch
    <2> QED BY <1>3, <1>6, <2>1, StretchTyped
  <1>10. Min({NameRows, Len(sub)}) = Len(sub)
    <2>1. Len(sub) \in Int /\ NameRows \in Int /\ Len(sub) <= NameRows
      BY <1>3, <1>4, <1>6, <1>9
    <2> QED BY <2>1, MinOfTwo
  <1>11. NamesOf(sub) = sub
    BY <1>9, <1>10, SubSeqFull DEF NamesOf
  <1>12. Pages(s, dates)[p] = Page(sub, dates)
    BY <1>0, <1>7 DEF Pages
  <1>13. Pages(s, dates)[p].names = sub
    BY <1>11, <1>12 DEF Page
  <1> QED BY <1>1, <1>3, <1>6, <1>9, <1>13

\* The dates on a page are the first ones.
LEMMA PageDates ==
  ASSUME NEW s, NEW p \in PageNumbers(Len(s))
  PROVE  IsPrefix(Pages(s, Dates)[p].dates, Dates)
  <1>1. PICK S : Dates \in Seq(S)
    BY DatesAssumption
  <1>2. PICK m : m = Min({DateColumns, Len(Dates)}) /\ m \in Nat /\ m <= Len(Dates)
    BY <1>1, PagesAssumption, MinOfTwo
  <1>3. PICK t : t = SubSeq(Dates, 1, m)
    OBVIOUS
  <1>4. t \in Seq(S) /\ Len(t) = m
    <2>1. PICK a \in Nat : a = 0
      OBVIOUS
    <2>2. a <= m /\ t = Stretch(Dates, a, m)
      BY <1>2, <1>3, <2>1 DEF Stretch
    <2>3. t \in Seq(S) /\ Len(t) = m - a
      BY <1>1, <1>2, <2>1, <2>2, StretchTyped
    <2> QED BY <1>2, <2>1, <2>3
  <1>5. SubSeq(t, 1, Len(t)) = t
    BY <1>4, SubSeqFull
  <1>6. Pages(s, Dates)[p].dates = t
    BY <1>2, <1>3 DEF Pages, Page, DatesOf
  <1> QED BY <1>2, <1>3, <1>4, <1>5, <1>6 DEF IsPrefix

\* What the pages tell: these bookings, each page some of them, one after the other.
PagesTell(pages, S) ==
  /\ UNION {ToSet(pages[p].names) : p \in DOMAIN pages} = S
  /\ \A p \in DOMAIN pages : /\ ToSet(pages[p].names) # {} /\ Ascending(pages[p].names)
                             /\ IsPrefix(pages[p].dates, Dates)
  /\ \A p, q \in DOMAIN pages :
       p < q => \A x \in ToSet(pages[p].names), y \in ToSet(pages[q].names) : x < y

\* The pages of the numbers of S in ascending order.
LEMMA PagesOfSorted ==
  ASSUME NEW S, NEW s \in Seq(Int), S \subseteq Int, \A i \in DOMAIN s : s[i] \in S,
         \A x \in S : \E i \in DOMAIN s : s[i] = x,
         \A i, j \in DOMAIN s : i < j => s[i] < s[j],
         NEW pages, pages = Pages(s, Dates)
  PROVE  PagesTell(pages, S)
  <1>1. PICK n \in Nat : n = Len(s) /\ DOMAIN s = 1..n
    OBVIOUS
  <1>2. DOMAIN pages = PageNumbers(n) /\ PageNumbers(n) \subseteq Nat
    BY <1>1 DEF Pages, PageNumbers
  <1> DEFINE first(p) == Before(p)
             last(p) == UpTo(p, n)
             names(p) == pages[p].names
  <1>3. ASSUME NEW p \in PageNumbers(n)
        PROVE  /\ first(p) \in Nat /\ last(p) \in Nat /\ first(p) < last(p) /\ last(p) <= n /\ last(p) <= p * PageSize
               /\ last(p) = n \/ last(p) = p * PageSize
               /\ DOMAIN names(p) = 1 .. last(p) - first(p)
               /\ \A i \in 1 .. last(p) - first(p) : names(p)[i] = s[first(p) + i]
    <2>1. PICK a, c, t : a = first(p) /\ c = last(p) /\ t = names(p)
      OBVIOUS
    <2>2. a = Before(p) /\ c = UpTo(p, Len(s)) /\ t = Pages(s, Dates)[p].names /\ p \in PageNumbers(Len(s))
      BY <1>1, <2>1
    <2>3. /\ a \in Nat /\ c \in Nat /\ a < c /\ c <= Len(s) /\ c <= p * PageSize
          /\ c = Len(s) \/ c = p * PageSize
          /\ t = Stretch(s, a, c)
      BY <2>2, PageNames
    <2>4. a <= c
      BY <2>3
    <2>5. DOMAIN t = 1 .. c - a
      BY <2>3, <2>4, StretchTyped
    <2>6. ASSUME NEW i \in 1 .. c - a PROVE t[i] = s[a + i]
      BY <2>3, <2>4, StretchAt
    <2> QED BY <1>1, <2>1, <2>3, <2>5, <2>6
  <1> HIDE DEF first, last, names
  \* A name on a page stands at one of the page's places.
  <1>4. ASSUME NEW p \in PageNumbers(n), NEW x \in ToSet(names(p))
        PROVE  \E k \in 1..n : x = s[k] /\ first(p) < k /\ k <= last(p)
    <2>1. PICK i \in 1 .. last(p) - first(p) : x = s[first(p) + i]
      BY <1>3 DEF ToSet
    <2>2. first(p) + i \in 1..n /\ first(p) < first(p) + i /\ first(p) + i <= last(p)
      BY <1>3
    <2> QED BY <2>1, <2>2
  <1>5. ASSUME NEW p \in PageNumbers(n), NEW k \in 1..n, first(p) < k, k <= last(p)
        PROVE  s[k] \in ToSet(names(p))
    <2>1. PICK i : i = k - first(p)
      OBVIOUS
    <2>2. i \in 1 .. last(p) - first(p) /\ first(p) + i = k
      BY <1>3, <1>5, <2>1
    <2>3. names(p)[i] = s[k] /\ i \in DOMAIN names(p)
      BY <1>3, <2>2
    <2> QED BY <2>3 DEF ToSet
  <1>6. ASSUME NEW x \in S PROVE \E p \in PageNumbers(n) : x \in ToSet(names(p))
    <2>1. PICK k \in 1..n : s[k] = x
      BY <1>1
    <2>2. PICK p \in PageNumbers(n) : (p - 1) * PageSize < k /\ k <= p * PageSize
      BY PageOf
    <2>3. first(p) < k
      BY <2>2 DEF first, Before
    <2>4. k <= last(p)
      BY <1>3, <2>2
    <2> QED BY <1>5, <2>1, <2>3, <2>4
  <1>7. ASSUME NEW p \in PageNumbers(n), NEW x \in ToSet(names(p)) PROVE x \in S
    BY <1>1, <1>4
  <1>8. ASSUME NEW p \in PageNumbers(n)
        PROVE  ToSet(names(p)) # {} /\ Ascending(names(p)) /\ IsPrefix(pages[p].dates, Dates)
    <2>1. 1 \in DOMAIN names(p)
      BY <1>3
    <2>2. ASSUME NEW i \in DOMAIN names(p), NEW j \in DOMAIN names(p), i < j PROVE names(p)[i] < names(p)[j]
      <3>1. names(p)[i] = s[first(p) + i] /\ names(p)[j] = s[first(p) + j]
        BY <1>3
      <3>2. first(p) + i \in 1..n /\ first(p) + j \in 1..n /\ first(p) + i < first(p) + j
        BY <1>3, <2>2
      <3> QED BY <1>1, <3>1, <3>2
    <2>3. IsPrefix(pages[p].dates, Dates)
      BY <1>1, PageDates
    <2> QED BY <2>1, <2>2, <2>3 DEF ToSet, Ascending
  <1>9. ASSUME NEW p \in PageNumbers(n), NEW q \in PageNumbers(n), p < q,
               NEW x \in ToSet(names(p)), NEW y \in ToSet(names(q))
        PROVE  x < y
    <2>1. PICK k \in 1..n : x = s[k] /\ k <= last(p)
      BY <1>4
    <2>2. PICK l \in 1..n : y = s[l] /\ first(q) < l
      BY <1>4
    <2>3. p * PageSize \in Nat /\ first(q) \in Nat /\ p * PageSize <= first(q)
      BY <1>2, <1>9, PagesFollow DEF first, Before
    <2>4. last(p) \in Nat /\ last(p) <= p * PageSize
      BY <1>3
    <2>5. k < l
      BY <2>1, <2>2, <2>3, <2>4
    <2> QED BY <1>1, <2>1, <2>2, <2>5
  <1>10. \A p : names(p) = pages[p].names
    BY DEF names
  <1>11. UNION {ToSet(pages[p].names) : p \in DOMAIN pages} = S
    <2>1. ASSUME NEW x \in S PROVE x \in UNION {ToSet(pages[p].names) : p \in DOMAIN pages}
      BY <1>2, <1>6, <1>10
    <2>2. ASSUME NEW x \in UNION {ToSet(pages[p].names) : p \in DOMAIN pages} PROVE x \in S
      BY <1>2, <1>7, <1>10
    <2> QED BY <2>1, <2>2
  <1>12. \A p \in DOMAIN pages : /\ ToSet(pages[p].names) # {} /\ Ascending(pages[p].names)
                                 /\ IsPrefix(pages[p].dates, Dates)
    BY <1>2, <1>8, <1>10
  <1>13. \A p, q \in DOMAIN pages :
           p < q => \A x \in ToSet(pages[p].names), y \in ToSet(pages[q].names) : x < y
    BY <1>2, <1>9, <1>10
  <1> QED BY <1>11, <1>12, <1>13 DEF PagesTell

\* The pages of the list of participants.
LEMMA PagesListed ==
  ASSUME NEW debit \in BOOLEAN
  PROVE  PagesAreComplete(debit)
  <1>1. PICK B, list : B = BookingsOf(debit, {TRUE}) /\ list = Selected(Subscribers(debit), TRUE)
    OBVIOUS
  <1>2. /\ Cardinality(B) \in Nat /\ DOMAIN list = 1..Cardinality(B)
        /\ \A k \in DOMAIN list : list[k].id = Sorted(B)[k]
    <2>1. LET all == Selected(Subscribers(debit), TRUE)
              S == BookingsOf(debit, {TRUE})
          IN  /\ Cardinality(S) \in Nat /\ DOMAIN all = 1..Cardinality(S)
              /\ \A k \in DOMAIN all : all[k].id = Sorted(S)[k]
      BY AttendeesListed, Zenon
    <2> QED BY <1>1, <2>1
  <1>3. B \subseteq Int /\ IsFiniteSet(B)
    BY <1>1, BookingsFinite
  <1>4. PICK n \in Nat : n = Cardinality(B)
    BY <1>2
  <1>5. PICK s : s = [i \in DOMAIN list |-> list[i].id]
    OBVIOUS
  <1>6. DOMAIN s = 1..n /\ \A i \in 1..n : s[i] = Sorted(B)[i]
    BY <1>2, <1>4, <1>5
  <1>7. \A i \in DOMAIN s : s[i] \in B
    BY <1>3, <1>4, <1>6, SortedOnce
  <1>8. s \in [1..n -> Int]
    BY <1>3, <1>5, <1>6, <1>7
  <1>9. s \in Seq(Int)
    BY <1>8
  <1>10. \A x \in B : \E i \in DOMAIN s : s[i] = x
    <2>1. ASSUME NEW x \in B PROVE \E i \in DOMAIN s : s[i] = x
      <3>1. PICK i \in 1..n : Sorted(B)[i] = x
        BY <1>3, <1>4, SortedOnce
      <3> QED BY <1>6, <3>1
    <2> QED BY <2>1
  <1>11. \A i, j \in DOMAIN s : i < j => s[i] < s[j]
    BY <1>3, <1>4, <1>6, SortedOnce
  <1>12. PICK pages : pages = Pages(s, Dates)
    OBVIOUS
  <1>13. PagesTell(pages, B)
    BY <1>3, <1>7, <1>9, <1>10, <1>11, <1>12, PagesOfSorted
  <1>14. pages = ParticipantsList(Subscribers(debit), Dates)
    BY <1>1, <1>5, <1>12 DEF ParticipantsList
  <1> QED BY <1>1, <1>13, <1>14 DEF PagesAreComplete, PagesTell

\* All documents are complete, in any state.
LEMMA DocumentsListed == DocumentsAreComplete
  BY SheetsListed, PagesListed, ConfirmationsListed DEF DocumentsAreComplete

-----------------------------------------------------------------------------
(* What holds of all reports                                                *)

\* Whatever the bookings and the statement are, no payment is lost in the comparison: each
\* id that a record names is settled by that record or reported, and by no two records.
THEOREM NoPaymentIsLost == Spec => [](\A statement \in Files : IdsAreReported(ReadPaymentRecords(statement)))
  <1>1. \A statement \in Files : IdsAreReported(ReadPaymentRecords(statement))
    <2>1. ASSUME NEW statement \in Files PROVE DOMAIN ReadPaymentRecords(statement) \subseteq Nat
      BY RecordsOfLines
    <2> QED BY <2>1, IdsReported
  <1> QED BY <1>1, PTL

\* ... and the sums are right, unless somebody pays, or answers, with less than nothing.
THEOREM StatementsAreSettled == ASSUME NothingNegative PROVE Spec => []EveryIdIsReported
  <1>1. TypeOK => EveryIdIsReported
    <2> SUFFICES ASSUME TypeOK, NEW statement \in Files, NEW file, file = ReadPaymentRecords(statement)
                 PROVE  IdsAreReported(file) /\ (statement.format = "rich" => SumsAgree(statement, file))
      BY DEF EveryIdIsReported
    <2>1. DOMAIN file \subseteq Nat
      BY RecordsOfLines
    <2> QED BY <2>1, IdsReported, WhatIsSettledWasPaid
  <1> QED BY <1>1, IInvariant, PTL DEF IInv

\* Eight computations of a price, in two ways, agree for all fields, answers and prices: as
\* long as the columns of the event are what they were, in the order of the table.
THEOREM PricesAlwaysAgree == Spec => []PricesAgree
  <1>1. TypeOK => PricesAgree
    BY EverybodyIsToldTheSame
  <1> QED BY <1>1, IInvariant, PTL DEF IInv

\* The sheets, the pages and the confirmations leave nobody out, however many bookings there
\* are and wherever the pages are cut.
THEOREM DocumentsStayComplete == Spec => []DocumentsAreComplete
  <1>1. DocumentsAreComplete
    BY DocumentsListed
  <1> QED BY <1>1, PTL
=============================================================================
