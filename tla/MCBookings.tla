----------------------------- MODULE MCBookings -----------------------------
(***************************************************************************)
(* Bookings on small instances.                                            *)
(***************************************************************************)
EXTENDS BookingsInv

CONSTANTS w1, w2, ann, bob, cem

OneSeat == {[max |-> 1, wait |-> 1], [max |-> 0, wait |-> 1]}
SmallLimits == {[max |-> 1, wait |-> 1], [max |-> 2, wait |-> 2]}
AllLimits == {[max |-> 1, wait |-> 2], [max |-> 2, wait |-> 1], [max |-> Unlimited, wait |-> 0]}

WithFlag == {TRUE}
=============================================================================
