----------------------------- MODULE EventLedger -----------------------------
(***************************************************************************)
(* The seats, the waitlist and the life cycle of one tasting event, as the *)
(* services of application/services.py change them.                        *)
(*                                                                         *)
(* Every operation of the services is one transaction that first locks the *)
(* row of its event (get_by_id(for_update=True)) and reads or writes only  *)
(* rows of that event, so operations on one event are serial and events do *)
(* not interact: a step of this module is one committed transaction.  An   *)
(* operation that raises rolls back (uow.py) and is a stuttering step.     *)
(*                                                                         *)
(* A clock reading taken before the lock is the parameter t of an action:  *)
(* the reading may be up to MaxLag old when the lock is granted.           *)
(***************************************************************************)
EXTENDS Integers, FiniteSets, Waitlist

CONSTANTS
    MaxCapacity,    \* largest capacity an administrator enters
    MaxPosition,    \* bound of the model on waitlist positions
    MaxTime,        \* bound of the model on the clock
    MaxLag          \* longest wait for the row lock, in clock ticks

ASSUME MaxCapacityAssumption == MaxCapacity \in Nat \ {0}
ASSUME MaxPositionAssumption == MaxPosition \in Nat
ASSUME MaxTimeAssumption == MaxTime \in Nat
ASSUME MaxLagAssumption == MaxLag \in Nat

VARIABLES
    now,                \* the clock of the bot process
    startsAt,           \* event_occurrences.starts_at
    cancelDeadlineAt,   \* event_occurrences.cancel_deadline_at
    status,             \* event_occurrences.status
    capacity,           \* event_occurrences.capacity
    reservedSeats,      \* event_occurrences.reserved_seats
    batchLinked,        \* event_occurrences.publication_batch_id is not null
    posted,             \* published_at and telegram_group_message_id are set
    confirmed,          \* users with a reservations row of status confirmed
    position,           \* position of a user's active waitlist row, 0 if none
    retired,            \* largest position of an inactive waitlist row
    told                \* what the last outbox row for a user says of the user

clockVars == <<now, startsAt, cancelDeadlineAt>>
publicationVars == <<batchLinked, posted>>
waitlistVars == <<position, retired>>
vars == <<now, startsAt, cancelDeadlineAt, status, capacity, reservedSeats,
          batchLinked, posted, confirmed, position, retired, told>>

Time == 0 .. MaxTime
Capacities == 1 .. MaxCapacity
Statuses == {"draft", "published_open", "published_full",
             "registration_closed", "cancelled", "completed"}
PublishedStatuses == {"published_open", "published_full"}

\* "seat": reservation.confirmed or waitlist.promoted; "queue": waitlist.joined;
\* "out": nothing yet, reservation.cancelled, waitlist.cancelled, event.cancelled.
Notices == {"out", "queue", "seat"}

------------------------------------------------------------------------------
(* The event row.                                                          *)

\* EventOccurrenceModel.publish
Published(seats, cap) ==
    IF seats >= cap THEN "published_full" ELSE "published_open"

\* Mutations of SyncStatus: the status is not derived again, or that of an
\* unpublished event is.
KeptStatus(st, seats, cap) == st
StatusOfAny(st, seats, cap) ==
    IF st = "cancelled" THEN st ELSE Published(seats, cap)

\* EventOccurrenceModel.sync_status_from_capacity
SyncStatus(st, seats, cap) ==
    IF st \in PublishedStatuses THEN Published(seats, cap) ELSE st

\* A clock reading from before the wait for the lock.
Readings == {t \in Time : t <= now /\ now <= t + MaxLag}

\* Mutations of Mutable: one of its two tests is missing.
MutableAnyStatus(t) == t < startsAt
MutableAnyTime(t) == status \notin {"cancelled", "completed"}

\* _require_mutable_event, with the reading t of its caller
Mutable(t) ==
    /\ status \notin {"cancelled", "completed"}
    /\ t < startsAt

\* _ensure_registration_allowed; its reading is taken under the lock
RegistrationAllowed ==
    /\ status \in PublishedStatuses
    /\ now < startsAt

\* Mutation of HasFreeSeat: one seat too many.
HasAlmostFreeSeat == reservedSeats <= capacity

HasFreeSeat == reservedSeats < capacity

\* Mutation of NoMembership: the waitlist is not looked at.
NoReservation(u) == u \notin confirmed

\* _ensure_user_has_no_active_event_membership
NoMembership(u) == u \notin confirmed /\ position[u] = 0

------------------------------------------------------------------------------
(* The rows of reservations and of the waitlist.                           *)

\* The rows _promote_waitlist_until_capacity leaves when it promotes P.  The
\* first row promoted keeps its position, every later one was renumbered to 1
\* before its turn.
Settle(P, seats, seated, queue, gone) ==
    /\ confirmed' = seated \union P
    /\ reservedSeats' = seats + Cardinality(P)
    /\ \/ /\ P = {}
          /\ position' = queue
          /\ retired' = gone
       \/ \E first \in P :
            /\ \A u \in P : queue[first] <= queue[u]
            /\ position' = Resequenced(queue, P)
            /\ retired' = Larger(gone, queue[first])

\* Mutation of TakeSeat: the message to the user is forgotten.
TakeSeatSilently(u) ==
    /\ confirmed' = confirmed \union {u}
    /\ reservedSeats' = reservedSeats + 1
    /\ status' = SyncStatus(status, reservedSeats + 1, capacity)
    /\ told' = told

\* create_confirmed_reservation and the count that goes with it
TakeSeat(u) ==
    /\ confirmed' = confirmed \union {u}
    /\ reservedSeats' = reservedSeats + 1
    /\ status' = SyncStatus(status, reservedSeats + 1, capacity)
    /\ told' = [told EXCEPT ![u] = "seat"]

\* create_waitlist_entry
Enqueue(u) ==
    /\ \E p \in 1 .. MaxPosition :
        /\ IsNextPosition(p, position, retired)
        /\ position' = [position EXCEPT ![u] = p]
    /\ told' = [told EXCEPT ![u] = "queue"]
    /\ UNCHANGED <<confirmed, reservedSeats, retired>>

\* Mutation of LeaveQueue: every row moves up, active or not.
LeaveQueueShiftingAll(u) ==
    /\ position' = [v \in Users |-> IF v = u THEN 0 ELSE position[v] - 1]
    /\ retired' = Larger(retired, position[u])

\* A waitlist row becomes inactive and the others are renumbered.
LeaveQueue(u) ==
    /\ position' = Resequenced(position, {u})
    /\ retired' = Larger(retired, position[u])

------------------------------------------------------------------------------
(* RegistrationService                                                     *)

\* register
Register(u) ==
    /\ RegistrationAllowed
    /\ NoMembership(u)
    /\ \/ /\ HasFreeSeat
          /\ TakeSeat(u)
          /\ UNCHANGED waitlistVars
       \/ /\ ~HasFreeSeat
          /\ Enqueue(u)
          /\ status' = SyncStatus(status, reservedSeats, capacity)
    /\ UNCHANGED <<clockVars, publicationVars, capacity>>

\* cancel of a reservation: the freed seat goes to the first in the waitlist,
\* whose row keeps its position and is not followed by a renumbering
CancelReservation(u, override) ==
    /\ u \in confirmed
    /\ override \/ now <= cancelDeadlineAt
    /\ \/ \E next \in Users :
            /\ IsFirst(next, position)
            /\ reservedSeats - 1 < capacity
            /\ confirmed' = (confirmed \ {u}) \union {next}
            /\ reservedSeats' = reservedSeats
            /\ position' = [position EXCEPT ![next] = 0]
            /\ retired' = Larger(retired, position[next])
            /\ told' = [told EXCEPT ![u] = "out", ![next] = "seat"]
       \/ /\ Waiting(position) = {} \/ reservedSeats - 1 >= capacity
          /\ confirmed' = confirmed \ {u}
          /\ reservedSeats' = reservedSeats - 1
          /\ told' = [told EXCEPT ![u] = "out"]
          /\ UNCHANGED waitlistVars
    /\ status' = SyncStatus(status, reservedSeats', capacity)
    /\ UNCHANGED <<clockVars, publicationVars, capacity>>

\* cancel of a waitlist entry: no deadline, no look at the status or the start
CancelWaitlistEntry(u) ==
    /\ u \notin confirmed
    /\ position[u] > 0
    /\ LeaveQueue(u)
    /\ told' = [told EXCEPT ![u] = "out"]
    /\ UNCHANGED <<clockVars, publicationVars, status, capacity, confirmed,
                   reservedSeats>>

------------------------------------------------------------------------------
(* AdminEventService                                                       *)

\* update_event_fields: the name and the description are not modelled; a new
\* start is compared with a second reading, taken under the lock
UpdateEventFields(t) ==
    /\ Mutable(t)
    /\ \E start, deadline \in Time :
        /\ <<start, deadline>> # <<startsAt, cancelDeadlineAt>>
        /\ deadline <= start
        /\ start = startsAt \/ start > now
        /\ startsAt' = start
        /\ cancelDeadlineAt' = deadline
    /\ UNCHANGED <<now, publicationVars, status, capacity, reservedSeats,
                   confirmed, waitlistVars, told>>

\* set_capacity
SetCapacity(c, t) ==
    /\ Mutable(t)
    /\ c >= reservedSeats
    /\ capacity' = c
    /\ \E P \in PromotionSets(position, c - reservedSeats, {}) :
        /\ Settle(P, reservedSeats, confirmed, position, retired)
        /\ told' = [u \in Users |-> IF u \in P THEN "seat" ELSE told[u]]
    /\ status' = SyncStatus(status, reservedSeats', c)
    /\ UNCHANGED <<clockVars, publicationVars>>

\* _set_registration_state(closed=True)
CloseRegistration(t) ==
    /\ Mutable(t)
    /\ status' = "registration_closed"
    /\ UNCHANGED <<clockVars, publicationVars, capacity, reservedSeats,
                   confirmed, waitlistVars, told>>

\* _set_registration_state(closed=False)
ReopenRegistration(t) ==
    /\ Mutable(t)
    /\ status = "registration_closed"
    /\ \E P \in PromotionSets(position, capacity - reservedSeats, {}) :
        /\ Settle(P, reservedSeats, confirmed, position, retired)
        /\ told' = [u \in Users |-> IF u \in P THEN "seat" ELSE told[u]]
    /\ status' = Published(reservedSeats', capacity)
    /\ UNCHANGED <<clockVars, publicationVars, capacity>>

\* cancel_event: every active row of the roster becomes inactive
CancelEvent(t) ==
    /\ Mutable(t)
    /\ status' = "cancelled"
    /\ reservedSeats' = 0
    /\ confirmed' = {}
    /\ position' = [u \in Users |-> 0]
    /\ \/ /\ Waiting(position) = {}
          /\ retired' = retired
       \/ \E last \in Waiting(position) :
            /\ \A u \in Waiting(position) : position[u] <= position[last]
            /\ retired' = Larger(retired, position[last])
    /\ told' = [u \in Users |-> IF NoMembership(u) THEN told[u] ELSE "out"]
    /\ UNCHANGED <<clockVars, publicationVars, capacity>>

\* add_participant(target="confirmed")
AddConfirmed(u, t) ==
    /\ Mutable(t)
    /\ NoMembership(u)
    /\ HasFreeSeat
    /\ TakeSeat(u)
    /\ UNCHANGED <<clockVars, publicationVars, capacity, waitlistVars>>

\* add_participant(target="waitlist"), whether or not there is a free seat
AddWaitlisted(u, t) ==
    /\ Mutable(t)
    /\ NoMembership(u)
    /\ Enqueue(u)
    /\ UNCHANGED <<clockVars, publicationVars, status, capacity>>

\* remove_participant of a confirmed user
RemoveConfirmed(u, t) ==
    /\ Mutable(t)
    /\ u \in confirmed
    /\ \E P \in PromotionSets(position, capacity - (reservedSeats - 1), {}) :
        /\ Settle(P, reservedSeats - 1, confirmed \ {u}, position, retired)
        /\ told' = [v \in Users |-> IF v \in P THEN "seat"
                                    ELSE IF v = u THEN "out" ELSE told[v]]
    /\ status' = SyncStatus(status, reservedSeats', capacity)
    /\ UNCHANGED <<clockVars, publicationVars, capacity>>

\* remove_participant of a waiting user
RemoveWaitlisted(u, t) ==
    /\ Mutable(t)
    /\ CancelWaitlistEntry(u)

\* move_participant(target="confirmed")
MoveToConfirmed(u, t) ==
    /\ Mutable(t)
    /\ u \notin confirmed
    /\ position[u] > 0
    /\ HasFreeSeat
    /\ TakeSeat(u)
    /\ LeaveQueue(u)
    /\ UNCHANGED <<clockVars, publicationVars, capacity>>

\* move_participant(target="waitlist"): the user goes to the end of the
\* waitlist, and the freed seat to the others in it
MoveToWaitlist(u, t) ==
    /\ Mutable(t)
    /\ u \in confirmed
    /\ position[u] = 0
    /\ \E p \in 1 .. MaxPosition :
        /\ IsNextPosition(p, position, retired)
        /\ LET queue == [position EXCEPT ![u] = p]
           IN  \E P \in PromotionSets(queue, capacity - (reservedSeats - 1), {u}) :
                /\ Settle(P, reservedSeats - 1, confirmed \ {u}, queue, retired)
                /\ told' = [v \in Users |-> IF v \in P THEN "seat"
                                            ELSE IF v = u THEN "queue"
                                            ELSE told[v]]
    /\ status' = SyncStatus(status, reservedSeats', capacity)
    /\ UNCHANGED <<clockVars, publicationVars, capacity>>

------------------------------------------------------------------------------
(* PublicationService, on behalf of the worker                             *)

\* request_single_event_publication or request_batch_publication of a saved
\* event: the row joins a batch, whatever its status
RequestPublication ==
    /\ batchLinked' = TRUE
    /\ UNCHANGED <<clockVars, posted, status, capacity, reservedSeats,
                   confirmed, waitlistVars, told>>

\* The worker dispatches the request only while the event has a batch and no
\* group post (_dispatch_publication).  This is the guard of the worker: the
\* service itself marks any event.  That the guard still holds when the service
\* is called is so for one process of the worker, as it is deployed; what
\* more of them do is the subject of PublicationWorker.
Publishable == batchLinked /\ ~posted

\* mark_publication_succeeded, whatever the status of the event
MarkPublicationSucceeded ==
    /\ Publishable
    /\ status' = Published(reservedSeats, capacity)
    /\ posted' = TRUE
    /\ UNCHANGED <<clockVars, batchLinked, capacity, reservedSeats, confirmed,
                   waitlistVars, told>>

\* mark_publication_failed, whatever the status of the event
MarkPublicationFailed ==
    /\ Publishable
    /\ status' = "draft"
    /\ batchLinked' = FALSE
    /\ posted' = FALSE
    /\ UNCHANGED <<clockVars, capacity, reservedSeats, confirmed, waitlistVars,
                   told>>

------------------------------------------------------------------------------

\* save_drafts: an event is born a draft without members; publish_single_draft
\* and publish_batch_drafts link it to a batch in the same transaction
Init ==
    /\ now = 0
    /\ startsAt \in Time \ {0}
    /\ cancelDeadlineAt \in 0 .. startsAt
    /\ status = "draft"
    /\ capacity \in Capacities
    /\ reservedSeats = 0
    /\ batchLinked \in BOOLEAN
    /\ posted = FALSE
    /\ confirmed = {}
    /\ position = [u \in Users |-> 0]
    /\ retired = 0
    /\ told = [u \in Users |-> "out"]

Tick ==
    /\ now < MaxTime
    /\ now' = now + 1
    /\ UNCHANGED <<startsAt, cancelDeadlineAt, status, capacity, reservedSeats,
                   publicationVars, confirmed, waitlistVars, told>>

RegistrationStep ==
    \E u \in Users :
        \/ Register(u)
        \/ \E override \in BOOLEAN : CancelReservation(u, override)
        \/ CancelWaitlistEntry(u)

AdminStep ==
    \E t \in Readings :
        \/ UpdateEventFields(t)
        \/ \E c \in Capacities : SetCapacity(c, t)
        \/ CloseRegistration(t)
        \/ ReopenRegistration(t)
        \/ CancelEvent(t)
        \/ \E u \in Users :
            \/ AddConfirmed(u, t)
            \/ AddWaitlisted(u, t)
            \/ RemoveConfirmed(u, t)
            \/ RemoveWaitlisted(u, t)
            \/ MoveToConfirmed(u, t)
            \/ MoveToWaitlist(u, t)

PublicationStep ==
    \/ RequestPublication
    \/ MarkPublicationSucceeded
    \/ MarkPublicationFailed

Next == RegistrationStep \/ AdminStep \/ PublicationStep \/ Tick

Spec == Init /\ [][Next]_vars

------------------------------------------------------------------------------
(* Properties                                                              *)

\* The rows of the event have values their columns allow.
TypeOK ==
    /\ now \in Time
    /\ startsAt \in Time
    /\ cancelDeadlineAt \in Time
    /\ status \in Statuses
    /\ capacity \in Capacities
    /\ reservedSeats \in Int
    /\ batchLinked \in BOOLEAN
    /\ posted \in BOOLEAN
    /\ confirmed \in SUBSET Users
    /\ position \in [Users -> Nat]
    /\ retired \in Nat
    /\ told \in [Users -> Notices]

\* The counter of the event row and the reservation rows, which are written by
\* separate statements, agree, and no event is overbooked: the deferred effect
\* of every path through register, cancel, promotion and the admin operations.
SeatsCounted ==
    /\ reservedSeats = Cardinality(confirmed)
    /\ reservedSeats <= capacity

\* No user holds a seat and a place in the waitlist at once: the two partial
\* unique indexes of models.py do not exclude it, only the services do.
OneStanding == confirmed \cap Waiting(position) = {}

\* Waitlist positions identify a waiting user: a new row is placed by the
\* largest position of all rows while the active ones are renumbered, and
\* next_waitlist_entry_for_promotion orders by position.
PositionsDistinct == Distinct(position)

\* A published event says it is full exactly when it is, although its status
\* is stored and re-derived by hand at every place that moves a seat.
FullMeansFull ==
    status \in PublishedStatuses => status = Published(reservedSeats, capacity)

\* A cancelled event has nobody left to be served, promoted or notified.
CancelledIsEmpty ==
    status = "cancelled" => confirmed = {} /\ Waiting(position) = {}

Standing(u) == IF u \in confirmed THEN "seat"
               ELSE IF position[u] > 0 THEN "queue" ELSE "out"

\* The last message queued for a user tells the user's standing, whoever
\* changed it: the user, an administrator, or another user's cancellation.
EveryoneIsTold == \A u \in Users : told[u] = Standing(u)

\* A waiting user gets a seat before a user who is ahead and keeps waiting
\* only if an administrator moves that very user.
NobodyOvertakes ==
    [][\A u, v \in Users :
        /\ position[u] > 0
        /\ position[u] < position[v]
        /\ v \in confirmed'
        /\ position'[u] > 0
        => \E t \in Readings : MoveToConfirmed(v, t)]_vars

FreeSeatBesideQueue == HasFreeSeat /\ Waiting(position) # {}

\* A free seat beside a waiting user appears only when an administrator puts
\* a user in the waitlist: every other way to free or add seats promotes.
SeatsGoToTheQueue ==
    [][~FreeSeatBesideQueue /\ FreeSeatBesideQueue'
        => \E u \in Users, t \in Readings :
                AddWaitlisted(u, t) \/ MoveToWaitlist(u, t)]_vars

Members == confirmed \union Waiting(position)

\* Once an event has started and every operation that was waiting for its row
\* at the start is through, its settings are frozen and nobody new gets in; it
\* can only be left, and the seats left be given to those who were waiting
\* ("an event that has started cannot be changed", _require_mutable_event).
StartedEventIsFrozen ==
    [][now >= startsAt + MaxLag =>
        /\ UNCHANGED <<capacity, startsAt, cancelDeadlineAt>>
        /\ Members' \subseteq Members]_vars

Public == status \in PublishedStatuses

\* An event that no group post announces becomes public only when its
\* registration is closed and opened again: administrators may put users into a
\* draft, move them and change its capacity without publishing it.
UnpostedOnlyByReopening ==
    [][(Public => posted) /\ Public' /\ ~posted'
        => \E t \in Readings : ReopenRegistration(t)]_vars

\* Cancelling is terminal (test_cancel_and_complete_are_terminal_transitions).
CancelledIsTerminal ==
    [][status = "cancelled" => status' = "cancelled"]_vars
==============================================================================
