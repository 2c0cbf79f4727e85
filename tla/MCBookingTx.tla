----------------------------- MODULE MCBookingTx -----------------------------
(***************************************************************************)
(* A small instance of BookingTx for TLC: two users, the first of them     *)
(* new, and one or two seats.                                              *)
(***************************************************************************)
EXTENDS BookingTx

CONSTANTS u1, u2

RegisterBy(u) == [op |-> "register", user |-> u]
CancelBy(u) == [op |-> "cancel", user |-> u]
Resize(n) == [op |-> "set_capacity", capacity |-> n]

TwoUsers == {u1, u2}
FirstUser == {u1}

\* The two users compete for the last seat, the first one gives up, and the
\* administrator takes a seat away and adds it again.
Rush == {RegisterBy(u1), CancelBy(u1), RegisterBy(u2),
         Resize(1), Resize(2)}
=============================================================================
