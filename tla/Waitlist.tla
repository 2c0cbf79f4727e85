------------------------------- MODULE Waitlist -------------------------------
(***************************************************************************)
(* The waitlist of one event: what the queries of RegistrationRepository   *)
(* and the helpers of application/services.py compute from its rows.       *)
(* A queue maps a user to the position of the user's active row, and to 0  *)
(* when there is none; gone is the largest position of an inactive row.    *)
(***************************************************************************)
EXTENDS Integers, FiniteSets

CONSTANT Users      \* Telegram users known to the bot

ASSUME UsersAssumption == IsFiniteSet(Users)

Smaller(a, b) == IF a <= b THEN a ELSE b
Larger(a, b) == IF a >= b THEN a ELSE b

Waiting(queue) == {u \in Users : queue[u] > 0}

\* No two waiting users have the same position.
Distinct(queue) ==
    \A u, v \in Waiting(queue) : u # v => queue[u] # queue[v]

\* Mutation of IsNextPosition: the number of waiting users, plus one.
IsNextByCount(p, queue, gone) == p = 1 + Cardinality(Waiting(queue))

\* create_waitlist_entry: one more than the largest position of any row of
\* the event, whatever the status of the row
IsNextPosition(p, queue, gone) ==
    /\ p > gone
    /\ \A u \in Users : p > queue[u]
    /\ p = gone + 1 \/ \E u \in Users : p = queue[u] + 1

\* Mutation of IsFirst: the query without its ORDER BY.
IsAnyWaiting(u, queue) == u \in Waiting(queue)

\* The user whose row next_waitlist_entry_for_promotion returns.
IsFirst(u, queue) ==
    /\ u \in Waiting(queue)
    /\ \A v \in Waiting(queue) : queue[u] <= queue[v]

\* _resequence_waitlist_positions once the users in Gone have left
Resequenced(queue, Gone) ==
    LET rest == Waiting(queue) \ Gone
    IN  [u \in Users |->
            IF u \in rest
            THEN Cardinality({v \in rest : queue[v] <= queue[u]})
            ELSE 0]

\* Mutation of PromotionSets: one promotion, however many seats are free.
PromoteOne(queue, free, Excluded) ==
    {P \in SUBSET (Waiting(queue) \ Excluded) :
        /\ Cardinality(P) = Smaller(1, Smaller(free,
                                Cardinality(Waiting(queue) \ Excluded)))
        /\ \A u \in P : \A v \in Waiting(queue) \ (Excluded \union P) :
                queue[u] < queue[v]}

\* Mutation of PromotionSets: the query without its ORDER BY.
PromoteAnyone(queue, free, Excluded) ==
    {P \in SUBSET (Waiting(queue) \ Excluded) :
        Cardinality(P) = Smaller(free, Cardinality(Waiting(queue) \ Excluded))}

\* The users _promote_waitlist_until_capacity promotes: as many as there are
\* free seats, in the order of their positions, passing over Excluded.
PromotionSets(queue, free, Excluded) ==
    LET candidates == Waiting(queue) \ Excluded
    IN  {P \in SUBSET candidates :
            /\ Cardinality(P) = Smaller(free, Cardinality(candidates))
            /\ \A u \in P, v \in candidates \ P : queue[u] < queue[v]}
==============================================================================
