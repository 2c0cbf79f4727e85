--------------------------- MODULE EventLedgerBook ---------------------------
(***************************************************************************)
(* The rows of EventLedger implement the queue of SeatBook: the waitlist   *)
(* is the active rows in the order next_waitlist_entry_for_promotion reads *)
(* them.                                                                   *)
(***************************************************************************)
EXTENDS EventLedger, SequencesExt

\* The waiting users up to u.
UpTo(u, rows) == {v \in Waiting(rows) : rows[v] <= rows[u]}

\* The waiting users in the order of their positions.
InOrder(rows) ==
    [i \in 1 .. Cardinality(Waiting(rows)) |->
        CHOOSE u \in Waiting(rows) : Cardinality(UpTo(u, rows)) = i]

WaitlistInOrder == InOrder(position)

Book == INSTANCE SeatBook WITH
            size <- capacity, seated <- confirmed, queue <- WaitlistInOrder

\* Every committed operation is one step of the book, or none.
ImplementsSeatBook == Book!BookSpec
==============================================================================
