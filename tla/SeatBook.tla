------------------------------- MODULE SeatBook -------------------------------
(***************************************************************************)
(* What the services promise the visitors of an event, with a real queue   *)
(* in place of rows, positions and counters: seats are never oversold, the *)
(* waitlist is first come, first served, and a freed seat goes to its head *)
(* (specification, sections 3.4 to 3.6 and 6.8).  Only an administrator    *)
(* departs from the order, for one named user at a time.                   *)
(***************************************************************************)
EXTENDS Integers, Sequences, FiniteSets, SequencesExt

CONSTANTS Users, MaxCapacity

VARIABLES
    size,       \* number of seats
    seated,     \* users with a seat
    queue       \* users waiting, in the order in which they will be served

bookVars == <<size, seated, queue>>

Outside == Users \ (seated \union ToSet(queue))

Lesser(a, b) == IF a <= b THEN a ELSE b

\* User u, who may stand anywhere in the waitlist, is not in it any more; the
\* others keep their order.
StepOut(u) ==
    \E i \in DOMAIN queue : queue[i] = u /\ queue' = RemoveAt(queue, i)

\* The first n of a line of waiting users get a seat beside those in S.
Serve(n, S, line) ==
    /\ seated' = S \union ToSet(SubSeq(line, 1, n))
    /\ queue' = SubSeq(line, n + 1, Len(line))

\* A visitor, or an administrator for a visitor, takes a free seat.
Sit(u) ==
    /\ u \in Outside
    /\ Cardinality(seated) < size
    /\ Serve(0, seated \union {u}, queue)
    /\ UNCHANGED size

\* ... or joins the end of the waitlist.
Join(u) ==
    /\ u \in Outside
    /\ queue' = Append(queue, u)
    /\ UNCHANGED <<size, seated>>

\* ... or leaves it.
Leave(u) ==
    /\ StepOut(u)
    /\ UNCHANGED <<size, seated>>

\* A seat is given up.  Its holder leaves or, demoted by an administrator,
\* joins the end of the waitlist; the seat is not left empty while the others
\* wait, and nobody but the head of the waitlist gets it.
Vacate(u, demoted) ==
    /\ u \in seated
    /\ LET room == size - Cardinality(seated) + 1
       IN  \E n \in Lesser(1, Len(queue)) .. Lesser(room, Len(queue)) :
            /\ seated' = (seated \ {u}) \union ToSet(SubSeq(queue, 1, n))
            /\ queue' = SubSeq(queue, n + 1, Len(queue))
                        \o (IF demoted THEN <<u>> ELSE <<>>)
    /\ UNCHANGED size

\* An administrator seats one waiting user out of turn.
Invite(u) ==
    /\ Cardinality(seated) < size
    /\ seated' = seated \union {u}
    /\ StepOut(u)
    /\ UNCHANGED size

\* The number of seats changes, never below the seats taken, or registration
\* reopens; as many waiting users as there is room for get a seat.
Resize(c) ==
    /\ c >= Cardinality(seated)
    /\ size' = c
    /\ Serve(Lesser(c - Cardinality(seated), Len(queue)), seated, queue)

\* The event is cancelled.
Clear ==
    /\ seated' = {}
    /\ queue' = <<>>
    /\ UNCHANGED size

BookInit ==
    /\ size \in 1 .. MaxCapacity
    /\ seated = {}
    /\ queue = <<>>

BookNext ==
    \/ \E u \in Users :
        \/ Sit(u) \/ Join(u) \/ Leave(u) \/ Invite(u)
        \/ \E demoted \in BOOLEAN : Vacate(u, demoted)
    \/ \E c \in 1 .. MaxCapacity : Resize(c)
    \/ Clear

BookSpec == BookInit /\ [][BookNext]_bookVars
==============================================================================
