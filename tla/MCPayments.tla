----------------------------- MODULE MCPayments -----------------------------
(***************************************************************************)
(* Payments on a small instance: bookings 1 and 2 of an event that is paid *)
(* by bank transfer, booking 4 of one that is paid by direct debit. The    *)
(* second field is how many persons come.                                  *)
(***************************************************************************)
EXTENDS Payments

CONSTANTS v1, v2

LastIsDebit == {4}

\* Somebody who is no member pays more.
Prices == [b \in Ids |-> IF b = 2 THEN 3 ELSE 2]

\* 1 brings a friend and says so; 2 gives a number for the other field, too.
Given == [b \in Ids |-> [f \in Fields |-> IF f = 1 THEN (IF b = 2 THEN 2 ELSE None)
                                          ELSE IF b = 1 THEN 2 ELSE 1]]

OneTable == {<<1, 2>>}
Orders == {<<1, 2>>, <<2, 1>>}
Days == <<"d1", "d2">>

Pays(day, ids, amount, credit) ==
  [day |-> day, iban |-> "ann", ids |-> ids, amount |-> amount, credit |-> credit]

Rich(lines) == [format |-> "rich", start |-> None, lines |-> lines]
Since(day, lines) == [format |-> "classic", start |-> day, lines |-> lines]

\* Payments of one and of two bookings, one of them with an unknown id; too much; what was
\* paid back; one before the start date; one of a direct debit.
Statements ==
  {Rich(<<Pays(1, {1, 2}, 7, TRUE), Pays(2, {1, Unknown}, 4, TRUE)>>),
   Rich(<<Pays(1, {1}, 5, TRUE)>>),
   Rich(<<Pays(1, {2}, 3, FALSE), Pays(2, {1}, 4, TRUE)>>),
   Since(2, <<Pays(1, {1}, 4, TRUE), Pays(2, {2}, 3, TRUE)>>),
   Since(1, <<Pays(1, {1}, 4, TRUE), Pays(2, {4}, 2, TRUE)>>)}

ASSUME NoSigns == NothingNegative

\* With the numbers of the code, too, the list has all participants, in order, on pages.
Code == INSTANCE Documents WITH PageSize <- 16, NameRows <- 17, DateColumns <- 10

ASSUME PagesOfTheCode ==
  \A n \in 0..33 :
    LET everybody == [i \in 1..n |-> i]
        pages == Code!Pages(everybody, <<>>)
    IN  FlattenSeq([i \in DOMAIN pages |-> pages[i].names]) = everybody
=============================================================================
