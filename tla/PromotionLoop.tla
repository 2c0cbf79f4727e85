----------------------------- MODULE PromotionLoop -----------------------------
(***************************************************************************)
(* The loop of _promote_waitlist_until_capacity, one iteration per step,   *)
(* over the rows themselves: it reaches in the end what Waitlist says of   *)
(* it in one formula, which is what EventLedger uses.                      *)
(*                                                                         *)
(* A user is also the id of the user's waitlist row.                       *)
(***************************************************************************)
EXTENDS Waitlist, Sequences

CONSTANTS
    MaxPosition,    \* bound of the model on waitlist positions
    MaxFree         \* bound of the model on free seats

ASSUME RowIds == Users \subseteq Nat
ASSUME LoopBounds == MaxPosition \in Nat /\ MaxFree \in Nat

Positions == 1 .. MaxPosition

VARIABLES
    queue,      \* the waitlist when the loop is entered
    free,       \* the seats that were free then
    excluded,   \* exclude_user_ids
    rows,       \* the waitlist rows now: status and position by id
    left,       \* event.capacity - event.reserved_seats
    promoted    \* promoted_user_ids

vars == <<queue, free, excluded, rows, left, promoted>>

Active == {r \in Users : rows[r].status = "active"}

\* Mutation of Before: ORDER BY id
BeforeById(r, s) == r < s

\* ORDER BY position, id
Before(r, s) ==
    \/ rows[r].position < rows[s].position
    \/ rows[r].position = rows[s].position /\ r < s

\* next_waitlist_entry_for_promotion
IsNextEntry(r) ==
    /\ r \in Active \ excluded
    /\ \A s \in (Active \ excluded) \ {r} : Before(r, s)

\* Mutation of Rank: enumerate without start=1
RankFromZero(r, kept) == Cardinality({s \in kept : Before(s, r)})

\* The rank of a row in list_active_waitlist_entries.
Rank(r, kept) == 1 + Cardinality({s \in kept : Before(s, r)})

\* Mutation of FreeSeat: off by one
FreeSeatsTwo == left > 1

\* The condition of the loop.
FreeSeat == left > 0

IsLast(v) == \A u \in Users : queue[u] <= queue[v]

\* Any waitlist an event can have: positions are distinct, not contiguous.
\* The user move_participant excludes is the one it has just put at the end.
Init ==
    /\ queue \in {q \in [Users -> 0 .. MaxPosition] : Distinct(q)}
    /\ free \in 0 .. MaxFree
    /\ excluded \in {{}} \union {{u} : u \in {v \in Waiting(queue) : IsLast(v)}}
    /\ rows = [r \in Users |-> IF queue[r] > 0
                              THEN [status |-> "active", position |-> queue[r]]
                              ELSE [status |-> "none", position |-> 0]]
    /\ left = free
    /\ promoted = <<>>

\* One turn of the loop: the first row becomes a reservation, and the rows
\* still active are renumbered.
Promote(r) ==
    /\ FreeSeat
    /\ IsNextEntry(r)
    /\ left' = left - 1
    /\ promoted' = Append(promoted, r)
    /\ rows' = [s \in Users |->
                    IF s = r THEN [rows[s] EXCEPT !.status = "promoted"]
                    ELSE IF s \in Active
                    THEN [rows[s] EXCEPT !.position = Rank(s, Active \ {r})]
                    ELSE rows[s]]
    /\ UNCHANGED <<queue, free, excluded>>

Next == \E r \in Users : Promote(r)

Spec == Init /\ [][Next]_vars /\ WF_vars(Next)

------------------------------------------------------------------------------

Ended == left <= 0 \/ Active \ excluded = {}

PromotedUsers == {promoted[i] : i \in 1 .. Len(promoted)}

\* The loop promotes the users of PromotionSets, leaves the positions of
\* Resequenced, and leaves on the promoted rows the positions that Settle
\* accounts for: the first keeps its own, every later one has position 1.
LoopMeetsItsFormula ==
    Ended =>
        /\ PromotedUsers \in PromotionSets(queue, free, excluded)
        /\ promoted # <<>> =>
            \A u \in Active : rows[u].position = Resequenced(queue, PromotedUsers)[u]
        /\ \A i \in 1 .. Len(promoted) :
            rows[promoted[i]].position =
                IF i = 1 THEN queue[promoted[1]] ELSE 1

\* Users are promoted one after the other in the order of the waitlist.
PromotedInOrder ==
    \A i, j \in 1 .. Len(promoted) :
        i < j => queue[promoted[i]] < queue[promoted[j]]

\* The loop ends: every turn takes a free seat and an active row.
LoopEnds == <>[]Ended
==============================================================================
