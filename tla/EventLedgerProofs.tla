-------------------------- MODULE EventLedgerProofs --------------------------
(***************************************************************************)
(* Proofs about EventLedger for every set of users, every capacity and     *)
(* every bound of the model, in three parts.                               *)
(*                                                                         *)
(* The invariants.  SeatInv is inductive by itself; the status and the     *)
(* notices of an event follow the seats, so FullMeansFull,                 *)
(* CancelledIsEmpty and EveryoneIsTold are inductive only together with it.*)
(*                                                                         *)
(* The action properties: what one operation may never do, from a state of *)
(* the invariant.  Every operation that frees or adds seats ends in a      *)
(* promotion, and PromotionResult says what that leaves: no free seat or   *)
(* nobody waiting, and nobody served who is behind somebody left.          *)
(*                                                                         *)
(* The refinement of SeatBook.  The waitlist rows in the order of their    *)
(* positions are the queue of the book; a line of all waiting users in     *)
(* that order is the only one (LineUnique), so that an operation on the    *)
(* rows is seen to be one on the queue by giving the line it leaves.       *)
(***************************************************************************)
EXTENDS EventLedgerBook, WaitlistProofs, SequenceTheorems

SeatInv == TypeOK /\ SeatsCounted /\ OneStanding /\ PositionsDistinct

IInv == SeatInv /\ FullMeansFull /\ CancelledIsEmpty /\ EveryoneIsTold

\* The part of SeatInv about the rows, as one formula over their values.
Sound(seats, seated, queue, gone, cap) ==
    /\ seated \in SUBSET Users
    /\ seats = Cardinality(seated)
    /\ seats <= cap
    /\ queue \in [Users -> Nat]
    /\ gone \in Nat
    /\ seated \cap Waiting(queue) = {}
    /\ Distinct(queue)

\* A set of users is finite and its size is a number.
LEMMA UserSets ==
    ASSUME NEW S \in SUBSET Users
    PROVE  IsFiniteSet(S) /\ Cardinality(S) \in Nat
BY UsersAssumption, FS_Subset, FS_CardinalityType

\* Seating waiting users one does not overbook keeps the rows sound, whatever
\* their number: the count of the event row grows by exactly the new rows.
LEMMA SettleSound ==
    ASSUME NEW seats, NEW seated, NEW queue, NEW gone, NEW cap \in Nat,
           NEW Excluded,
           Sound(seats, seated, queue, gone, cap),
           NEW P \in PromotionSets(queue, cap - seats, Excluded),
           Settle(P, seats, seated, queue, gone)
    PROVE  /\ Sound(reservedSeats', confirmed', position', retired', cap)
           /\ confirmed' = seated \union P
           /\ Waiting(position') = Waiting(queue) \ P
           /\ P \in SUBSET (Waiting(queue) \ Excluded)
<1> USE DEF Sound
<1>1. seats \in Nat /\ cap - seats \in Nat /\ IsFiniteSet(seated)
  BY UserSets
<1>2. /\ P \in SUBSET (Waiting(queue) \ Excluded)
      /\ P \in SUBSET Users
      /\ IsFiniteSet(P)
      /\ Cardinality(P) \in Nat
      /\ Cardinality(P) <= cap - seats
  BY <1>1, PromotionSetsType
<1>3. confirmed' = seated \union P /\ reservedSeats' = seats + Cardinality(P)
  BY DEF Settle
<1>4. seated \cap P = {}
  BY <1>2
<1>5. Cardinality(seated \union P) = Cardinality(seated) + Cardinality(P)
  <2>1. Cardinality(seated \cap P) = 0
    BY <1>4, FS_EmptySet
  <2>2. Cardinality(seated \union P)
          = Cardinality(seated) + Cardinality(P) - Cardinality(seated \cap P)
    BY <1>1, <1>2, FS_Union
  <2>3. Cardinality(seated) \in Nat
    BY UserSets
  <2> QED
    BY <1>2, <2>1, <2>2, <2>3
<1>6. /\ position' \in [Users -> Nat]
      /\ Waiting(position') = Waiting(queue) \ P
      /\ Distinct(position')
      /\ retired' \in Nat
  <2>1. CASE P = {} /\ position' = queue /\ retired' = gone
    BY <2>1
  <2>2. CASE \E first \in P : /\ position' = Resequenced(queue, P)
                             /\ retired' = Larger(gone, queue[first])
    <3>1. PICK first \in P : /\ position' = Resequenced(queue, P)
                             /\ retired' = Larger(gone, queue[first])
      BY <2>2
    <3>2. retired' \in Nat
      BY <1>2, <3>1 DEF Larger
    <3> QED
      BY <3>1, <3>2, ResequencedType, ResequencedDistinct
  <2> QED
    BY <2>1, <2>2 DEF Settle
<1>7. confirmed' \cap Waiting(position') = {}
  BY <1>3, <1>6
<1> QED
  BY <1>1, <1>2, <1>3, <1>5, <1>6, <1>7

\* Giving one more user, who is not waiting any more, a free seat.
LEMMA AddSeat ==
    ASSUME NEW seated \in SUBSET Users, NEW u \in Users, u \notin seated
    PROVE  Cardinality(seated \union {u}) = Cardinality(seated) + 1
BY UserSets, FS_AddElement

\* Taking a user's seat away.
LEMMA DropSeat ==
    ASSUME NEW seated \in SUBSET Users, NEW u \in seated
    PROVE  Cardinality(seated \ {u}) = Cardinality(seated) - 1
BY UserSets, FS_RemoveElement

------------------------------------------------------------------------------
(* The rows stay sound.                                                    *)

SoundNow == Sound(reservedSeats, confirmed, position, retired, capacity)

\* What SeatInv says of the rows is Sound.
LEMMA SeatInvSound ==
    SeatInv <=> TypeOK /\ SoundNow
BY DEF SeatInv, SoundNow, Sound, TypeOK, SeatsCounted, OneStanding,
       PositionsDistinct

\* Seating a user who has no membership.
LEMMA TakeSeatSound ==
    ASSUME NEW u \in Users, TypeOK, SoundNow, NoMembership(u),
           HasFreeSeat, TakeSeat(u), UNCHANGED waitlistVars,
           capacity' = capacity
    PROVE  SoundNow'
<1> USE DEF TypeOK, SoundNow, Sound, Capacities, HasFreeSeat
<1>1. Cardinality(confirmed') = reservedSeats + 1
  BY AddSeat DEF NoMembership, TakeSeat
<1>2. confirmed' \cap Waiting(position) = {}
  BY DEF NoMembership, TakeSeat, Waiting
<1> QED
  BY <1>1, <1>2 DEF TakeSeat, waitlistVars

\* Putting a user who has no membership into the waitlist.
LEMMA EnqueueSound ==
    ASSUME NEW u \in Users, TypeOK, SoundNow, NoMembership(u),
           Enqueue(u), capacity' = capacity
    PROVE  SoundNow'
<1> USE DEF TypeOK, SoundNow, Sound
<1>1. PICK p \in 1 .. MaxPosition :
            /\ IsNextPosition(p, position, retired)
            /\ position' = [position EXCEPT ![u] = p]
  BY DEF Enqueue
<1>2. p \in Nat
  BY MaxPositionAssumption
<1>3. position' \in [Users -> Nat] /\ Distinct(position')
  BY <1>1, <1>2, NextPositionDistinct
<1>4. Waiting(position') = Waiting(position) \union {u}
  BY <1>1, <1>2 DEF Waiting, IsNextPosition
<1> QED
  BY <1>3, <1>4 DEF Enqueue, NoMembership

\* A waiting user leaves the waitlist.
LEMMA LeaveQueueRows ==
    ASSUME NEW u \in Users, TypeOK, SoundNow, LeaveQueue(u)
    PROVE  /\ position' \in [Users -> Nat]
           /\ retired' \in Nat
           /\ Waiting(position') = Waiting(position) \ {u}
           /\ Distinct(position')
BY ResequencedType, ResequencedDistinct
   DEF TypeOK, SoundNow, Sound, LeaveQueue, Larger

\* A user cancels a reservation, with or without a successor.
LEMMA CancelReservationSound ==
    ASSUME NEW u \in Users, NEW override \in BOOLEAN, TypeOK, SoundNow,
           CancelReservation(u, override)
    PROVE  /\ SoundNow'
           /\ \A v \in Users : v # u /\ v \in confirmed => v \in confirmed'
<1> USE DEF TypeOK, SoundNow, Sound
<1>1. u \in confirmed /\ capacity' = capacity
  BY DEF CancelReservation
<1>2. /\ confirmed \ {u} \in SUBSET Users
      /\ Cardinality(confirmed \ {u}) = reservedSeats - 1
  BY <1>1, DropSeat
<1>3. CASE \E next \in Users :
            /\ IsFirst(next, position)
            /\ confirmed' = (confirmed \ {u}) \union {next}
            /\ reservedSeats' = reservedSeats
            /\ position' = [position EXCEPT ![next] = 0]
            /\ retired' = Larger(retired, position[next])
  <2>1. PICK next \in Users :
            /\ IsFirst(next, position)
            /\ confirmed' = (confirmed \ {u}) \union {next}
            /\ reservedSeats' = reservedSeats
            /\ position' = [position EXCEPT ![next] = 0]
            /\ retired' = Larger(retired, position[next])
    BY <1>3
  <2>2. next \in Waiting(position) /\ next \notin confirmed
    BY <2>1 DEF IsFirst
  <2>3. Cardinality(confirmed') = reservedSeats
    BY <1>2, <2>1, <2>2, AddSeat
  <2>4. /\ position' \in [Users -> Nat]
        /\ retired' \in Nat
        /\ Waiting(position') = Waiting(position) \ {next}
        /\ Distinct(position')
    BY <2>1 DEF Larger, Waiting, Distinct
  <2> QED
    BY <1>1, <2>1, <2>3, <2>4
<1>4. CASE /\ confirmed' = confirmed \ {u}
           /\ reservedSeats' = reservedSeats - 1
           /\ UNCHANGED waitlistVars
  BY <1>1, <1>2, <1>4 DEF waitlistVars, Capacities
<1> QED
  BY <1>3, <1>4 DEF CancelReservation

------------------------------------------------------------------------------
(* Every action preserves the inductive invariant.                         *)

\* Deriving the status of a published event from its seats says whether it is
\* full, and neither enters nor leaves any other status.
LEMMA SyncStatusFacts ==
    ASSUME NEW st \in Statuses, NEW seats \in Int, NEW cap \in Int
    PROVE  /\ SyncStatus(st, seats, cap) \in Statuses
           /\ SyncStatus(st, seats, cap) \in PublishedStatuses
                => SyncStatus(st, seats, cap) = Published(seats, cap)
           /\ SyncStatus(st, seats, cap) = "cancelled" => st = "cancelled"
           /\ Published(seats, cap) \in PublishedStatuses
           /\ Published(seats, cap) \in Statuses \ {"cancelled"}
BY DEF SyncStatus, Published, Statuses, PublishedStatuses

\* The invariant after a step whose rows are sound, whose status is derived
\* from them, and after which everybody concerned was told.
LEMMA Conclude ==
    ASSUME IInv, SoundNow', EveryoneIsTold',
           told' \in [Users -> Notices],
           capacity' \in Capacities,
           \E st \in Statuses \ {"cancelled"} :
                status' = SyncStatus(st, reservedSeats', capacity'),
           UNCHANGED <<clockVars, publicationVars>>
    PROVE  IInv'
<1> USE DEF IInv
<1>1. TypeOK /\ SoundNow
  BY SeatInvSound
<1>2. reservedSeats' \in Nat /\ capacity' \in Int
  BY UserSets DEF SoundNow, Sound, Capacities
<1>3. /\ status' \in Statuses \ {"cancelled"}
      /\ status' \in PublishedStatuses
            => status' = Published(reservedSeats', capacity')
  BY <1>2, SyncStatusFacts
<1>4. TypeOK'
  BY <1>1, <1>2, <1>3
  DEF TypeOK, SoundNow, Sound, clockVars, publicationVars
<1>5. SeatInv'
  BY <1>4 DEF SeatInv, SoundNow, Sound, SeatsCounted, OneStanding,
              PositionsDistinct
<1> QED
  BY <1>3, <1>5 DEF FullMeansFull, CancelledIsEmpty

\* What IInv says, in the form the steps below use.
LEMMA Unfold ==
    ASSUME IInv
    PROVE  /\ TypeOK /\ SoundNow /\ EveryoneIsTold
           /\ reservedSeats \in Nat /\ capacity \in Nat
           /\ status = "cancelled" => confirmed = {} /\ Waiting(position) = {}
BY SeatInvSound, UserSets
DEF IInv, CancelledIsEmpty, SoundNow, Sound, TypeOK, Capacities

\* Register: the seat is free or the user waits; the row lock makes the count
\* that was read the count that is true.
LEMMA RegisterStep ==
    ASSUME IInv, NEW u \in Users, Register(u)
    PROVE  IInv'
<1>1. TypeOK /\ SoundNow /\ EveryoneIsTold
  BY Unfold
<1>2. SoundNow'
  BY <1>1, TakeSeatSound, EnqueueSound DEF Register
<1>3. /\ told' \in [Users -> Notices]
      /\ EveryoneIsTold'
  <2>1. CASE TakeSeat(u) /\ UNCHANGED waitlistVars
    BY <1>1, <2>1
    DEF TypeOK, EveryoneIsTold, Standing, Notices, TakeSeat, waitlistVars
  <2>2. CASE Enqueue(u)
    <3>1. PICK p \in 1 .. MaxPosition : position' = [position EXCEPT ![u] = p]
      BY <2>2 DEF Enqueue
    <3>2. u \notin confirmed
      BY DEF Register, NoMembership
    <3> QED
      BY <1>1, <2>2, <3>1, <3>2
      DEF TypeOK, EveryoneIsTold, Standing, Notices, Enqueue
  <2> QED
    BY <2>1, <2>2 DEF Register
<1>4. /\ status' = SyncStatus(status, reservedSeats', capacity')
      /\ status \in Statuses \ {"cancelled"}
  BY <1>1 DEF Register, TakeSeat, Enqueue, RegistrationAllowed,
              PublishedStatuses, TypeOK
<1> QED
  BY <1>1, <1>2, <1>3, <1>4, Conclude DEF Register, TypeOK

\* CancelReservation: the seat passes to the first in the waitlist or is free
\* again; a cancelled event has no seat to give up.
LEMMA CancelReservationStep ==
    ASSUME IInv, NEW u \in Users, NEW override \in BOOLEAN,
           CancelReservation(u, override)
    PROVE  IInv'
<1>1. /\ TypeOK /\ SoundNow /\ EveryoneIsTold
      /\ status = "cancelled" => confirmed = {}
  BY Unfold
<1>2. SoundNow'
  BY <1>1, CancelReservationSound
<1>3. u \in confirmed /\ confirmed \cap Waiting(position) = {}
  BY <1>1 DEF SoundNow, Sound, CancelReservation
<1>4. /\ told' \in [Users -> Notices]
      /\ EveryoneIsTold'
  <2>1. CASE \E next \in Users :
            /\ IsFirst(next, position)
            /\ confirmed' = (confirmed \ {u}) \union {next}
            /\ position' = [position EXCEPT ![next] = 0]
            /\ told' = [told EXCEPT ![u] = "out", ![next] = "seat"]
    <3>1. PICK next \in Users :
            /\ IsFirst(next, position)
            /\ confirmed' = (confirmed \ {u}) \union {next}
            /\ position' = [position EXCEPT ![next] = 0]
            /\ told' = [told EXCEPT ![u] = "out", ![next] = "seat"]
      BY <2>1
    <3>2. next \in Waiting(position) /\ next # u /\ position[u] = 0
      BY <1>1, <1>3, <3>1 DEF IsFirst, Waiting, TypeOK
    <3> QED
      BY <1>1, <3>1, <3>2
      DEF TypeOK, EveryoneIsTold, Standing, Notices
  <2>2. CASE /\ confirmed' = confirmed \ {u}
             /\ told' = [told EXCEPT ![u] = "out"]
             /\ UNCHANGED waitlistVars
    <3>1. position[u] = 0
      BY <1>1, <1>3 DEF Waiting, TypeOK
    <3> QED
      BY <1>1, <2>2, <3>1
      DEF TypeOK, EveryoneIsTold, Standing, Notices, waitlistVars
  <2> QED
    BY <2>1, <2>2 DEF CancelReservation
<1>5. /\ status' = SyncStatus(status, reservedSeats', capacity')
      /\ status \in Statuses \ {"cancelled"}
  BY <1>1, <1>3 DEF CancelReservation, TypeOK
<1> QED
  BY <1>1, <1>2, <1>4, <1>5, Conclude DEF CancelReservation, TypeOK

\* CancelWaitlistEntry: the others close the gap; no seat moves.
LEMMA CancelWaitlistEntryStep ==
    ASSUME IInv, NEW u \in Users, CancelWaitlistEntry(u)
    PROVE  IInv'
<1>1. /\ TypeOK /\ SoundNow /\ EveryoneIsTold
      /\ status = "cancelled" => Waiting(position) = {}
      /\ FullMeansFull
  BY Unfold DEF IInv
<1>2. /\ position' \in [Users -> Nat]
      /\ retired' \in Nat
      /\ Waiting(position') = Waiting(position) \ {u}
      /\ Distinct(position')
  BY <1>1, LeaveQueueRows DEF CancelWaitlistEntry
<1>3. SoundNow' /\ UNCHANGED <<confirmed, reservedSeats, capacity, status>>
  BY <1>1, <1>2 DEF SoundNow, Sound, CancelWaitlistEntry
<1>4. /\ told' \in [Users -> Notices]
      /\ EveryoneIsTold'
  <2>1. \A v \in Users : position'[v] > 0 <=> (position[v] > 0 /\ v # u)
    BY <1>2 DEF Waiting
  <2>2. u \notin confirmed /\ told' = [told EXCEPT ![u] = "out"]
    BY DEF CancelWaitlistEntry
  <2> QED
    BY <1>1, <1>3, <2>1, <2>2
    DEF TypeOK, EveryoneIsTold, Standing, Notices
<1>5. status \in Statuses \ {"cancelled"}
  BY <1>1 DEF CancelWaitlistEntry, Waiting, TypeOK
<1>6. status' = SyncStatus(status, reservedSeats', capacity')
  BY <1>1, <1>3 DEF FullMeansFull, SyncStatus
<1> QED
  BY <1>1, <1>3, <1>4, <1>5, <1>6, Conclude DEF CancelWaitlistEntry, TypeOK

\* Every operation that ends with _promote_waitlist_until_capacity: if the
\* rows are sound and said is right before the promotion, the invariant holds
\* after it.
LEMMA SettleStep ==
    ASSUME IInv, NEW seats, NEW seated, NEW queue, NEW Excluded, NEW said,
           capacity' \in Capacities,
           Sound(seats, seated, queue, retired, capacity'),
           NEW P \in PromotionSets(queue, capacity' - seats, Excluded),
           Settle(P, seats, seated, queue, retired),
           said \in [Users -> Notices],
           \A v \in Users : said[v] = IF v \in seated THEN "seat"
                                     ELSE IF queue[v] > 0 THEN "queue"
                                     ELSE "out",
           told' = [v \in Users |-> IF v \in P THEN "seat" ELSE said[v]],
           \E st \in Statuses \ {"cancelled"} :
                status' = SyncStatus(st, reservedSeats', capacity'),
           UNCHANGED <<clockVars, publicationVars>>
    PROVE  IInv'
<1>1. capacity' \in Nat
  BY DEF Capacities
<1>2. /\ Sound(reservedSeats', confirmed', position', retired', capacity')
      /\ confirmed' = seated \union P
      /\ Waiting(position') = Waiting(queue) \ P
      /\ P \in SUBSET (Waiting(queue) \ Excluded)
  BY <1>1, SettleSound
<1>3. SoundNow'
  BY <1>2 DEF SoundNow
<1>4. told' \in [Users -> Notices]
  BY DEF Notices
<1>5. \A v \in Users : position'[v] > 0 <=> (queue[v] > 0 /\ v \notin P)
  BY <1>2 DEF Waiting
<1>6. EveryoneIsTold'
  BY <1>2, <1>5 DEF EveryoneIsTold, Standing
<1> QED
  BY <1>3, <1>4, <1>6, Conclude

\* SetCapacity: never below the seats taken; new seats go to the waitlist.
LEMMA SetCapacityStep ==
    ASSUME IInv, NEW c \in Capacities, NEW t, SetCapacity(c, t)
    PROVE  IInv'
<1>1. TypeOK /\ SoundNow /\ EveryoneIsTold
  BY Unfold
<1>2. PICK P \in PromotionSets(position, c - reservedSeats, {}) :
        /\ Settle(P, reservedSeats, confirmed, position, retired)
        /\ told' = [v \in Users |-> IF v \in P THEN "seat" ELSE told[v]]
  BY DEF SetCapacity
<1>3. capacity' = c /\ c >= reservedSeats
      /\ UNCHANGED <<clockVars, publicationVars>>
  BY DEF SetCapacity
<1>4. Sound(reservedSeats, confirmed, position, retired, capacity')
  BY <1>1, <1>3 DEF SoundNow, Sound, TypeOK, Capacities
<1>5. /\ status \in Statuses \ {"cancelled"}
      /\ status' = SyncStatus(status, reservedSeats', capacity')
  BY <1>1, <1>3 DEF SetCapacity, Mutable, TypeOK
<1>6. /\ told \in [Users -> Notices]
      /\ \A v \in Users : told[v] = IF v \in confirmed THEN "seat"
                                    ELSE IF position[v] > 0 THEN "queue"
                                    ELSE "out"
  BY <1>1 DEF TypeOK, EveryoneIsTold, Standing
<1> QED
  BY <1>2, <1>3, <1>4, <1>5, <1>6, SettleStep

\* ReopenRegistration: seats freed while it was closed go to the waitlist.
LEMMA ReopenStep ==
    ASSUME IInv, NEW t, ReopenRegistration(t)
    PROVE  IInv'
<1>1. TypeOK /\ SoundNow /\ EveryoneIsTold
  BY Unfold
<1>2. capacity' = capacity /\ UNCHANGED <<clockVars, publicationVars>>
  BY DEF ReopenRegistration
<1>3. PICK P \in PromotionSets(position, capacity' - reservedSeats, {}) :
        /\ Settle(P, reservedSeats, confirmed, position, retired)
        /\ told' = [v \in Users |-> IF v \in P THEN "seat" ELSE told[v]]
  BY <1>2 DEF ReopenRegistration
<1>4. Sound(reservedSeats, confirmed, position, retired, capacity')
      /\ capacity' \in Capacities
  BY <1>1, <1>2 DEF SoundNow, TypeOK
<1>5. /\ "published_open" \in Statuses \ {"cancelled"}
      /\ status' = SyncStatus("published_open", reservedSeats', capacity')
  BY <1>2 DEF ReopenRegistration, Statuses, SyncStatus, PublishedStatuses
<1>6. /\ told \in [Users -> Notices]
      /\ \A v \in Users : told[v] = IF v \in confirmed THEN "seat"
                                    ELSE IF position[v] > 0 THEN "queue"
                                    ELSE "out"
  BY <1>1 DEF TypeOK, EveryoneIsTold, Standing
<1> QED
  BY <1>2, <1>3, <1>4, <1>5, <1>6, SettleStep

\* RemoveConfirmed: the freed seat goes to the waitlist.
LEMMA RemoveConfirmedStep ==
    ASSUME IInv, NEW u \in Users, NEW t, RemoveConfirmed(u, t)
    PROVE  IInv'
<1> DEFINE said == [told EXCEPT ![u] = "out"]
           seated == confirmed \ {u}
<1>1. TypeOK /\ SoundNow /\ EveryoneIsTold /\ reservedSeats \in Nat
  BY Unfold
<1>2. /\ capacity' = capacity
      /\ UNCHANGED <<clockVars, publicationVars>>
      /\ u \in confirmed
  BY DEF RemoveConfirmed
<1>3. PICK P \in PromotionSets(position, capacity' - (reservedSeats - 1), {}) :
        /\ Settle(P, reservedSeats - 1, seated, position, retired)
        /\ told' = [v \in Users |-> IF v \in P THEN "seat"
                                    ELSE IF v = u THEN "out" ELSE told[v]]
  BY <1>2 DEF RemoveConfirmed
<1>4. Sound(reservedSeats - 1, seated, position, retired, capacity')
      /\ capacity' \in Capacities
  <2>1. Cardinality(seated) = reservedSeats - 1
    BY <1>1, <1>2, DropSeat DEF SoundNow, Sound
  <2> QED
    BY <1>1, <1>2, <2>1 DEF SoundNow, Sound, TypeOK, Capacities
<1>5. /\ status \in Statuses \ {"cancelled"}
      /\ status' = SyncStatus(status, reservedSeats', capacity')
  BY <1>1, <1>2 DEF RemoveConfirmed, Mutable, TypeOK
<1>6. /\ said \in [Users -> Notices]
      /\ \A v \in Users : said[v] = IF v \in seated THEN "seat"
                                    ELSE IF position[v] > 0 THEN "queue"
                                    ELSE "out"
  <2>1. position[u] = 0
    BY <1>1, <1>2 DEF SoundNow, Sound, Waiting
  <2> QED
    BY <1>1, <1>2, <2>1 DEF TypeOK, EveryoneIsTold, Standing, Notices
<1>7. told' = [v \in Users |-> IF v \in P THEN "seat" ELSE said[v]]
  BY <1>1, <1>3 DEF TypeOK
<1> HIDE DEF said, seated
<1> QED
  BY <1>2, <1>3, <1>4, <1>5, <1>6, <1>7, SettleStep

\* MoveToWaitlist: the user goes behind everybody before the seat is given
\* away, and is passed over when it is.
LEMMA MoveToWaitlistStep ==
    ASSUME IInv, NEW u \in Users, NEW t, MoveToWaitlist(u, t)
    PROVE  IInv'
<1> DEFINE said == [told EXCEPT ![u] = "queue"]
           seated == confirmed \ {u}
<1>1. TypeOK /\ SoundNow /\ EveryoneIsTold /\ reservedSeats \in Nat
  BY Unfold
<1>2. /\ capacity' = capacity
      /\ UNCHANGED <<clockVars, publicationVars>>
      /\ u \in confirmed
  BY DEF MoveToWaitlist
<1>3. PICK p \in 1 .. MaxPosition :
        /\ IsNextPosition(p, position, retired)
        /\ \E P \in PromotionSets([position EXCEPT ![u] = p],
                                  capacity - (reservedSeats - 1), {u}) :
            /\ Settle(P, reservedSeats - 1, seated,
                      [position EXCEPT ![u] = p], retired)
            /\ told' = [v \in Users |-> IF v \in P THEN "seat"
                                        ELSE IF v = u THEN "queue" ELSE told[v]]
  BY DEF MoveToWaitlist
<1> DEFINE queue == [position EXCEPT ![u] = p]
<1>4. PICK P \in PromotionSets(queue, capacity' - (reservedSeats - 1), {u}) :
        /\ Settle(P, reservedSeats - 1, seated, queue, retired)
        /\ told' = [v \in Users |-> IF v \in P THEN "seat"
                                    ELSE IF v = u THEN "queue" ELSE told[v]]
  BY <1>2, <1>3
<1>5. p \in Nat /\ p > 0
  BY MaxPositionAssumption
<1>6. /\ queue \in [Users -> Nat]
      /\ Distinct(queue)
  BY <1>1, <1>3, <1>5, NextPositionDistinct DEF SoundNow, Sound
<1>7. Sound(reservedSeats - 1, seated, queue, retired, capacity')
      /\ capacity' \in Capacities
  <2>1. Cardinality(seated) = reservedSeats - 1
    BY <1>1, <1>2, DropSeat DEF SoundNow, Sound
  <2>2. seated \cap Waiting(queue) = {}
    BY <1>1 DEF SoundNow, Sound, Waiting
  <2>3. seated \in SUBSET Users /\ retired \in Nat /\ capacity' \in Capacities
    BY <1>1, <1>2 DEF TypeOK
  <2>4. reservedSeats - 1 <= capacity'
    BY <1>1, <1>2 DEF SoundNow, Sound, TypeOK, Capacities
  <2> HIDE DEF seated, queue
  <2> QED
    BY <1>6, <2>1, <2>2, <2>3, <2>4 DEF Sound
<1>8. /\ status \in Statuses \ {"cancelled"}
      /\ status' = SyncStatus(status, reservedSeats', capacity')
  BY <1>1, <1>2 DEF MoveToWaitlist, Mutable, TypeOK
<1>9. /\ said \in [Users -> Notices]
      /\ \A v \in Users : said[v] = IF v \in seated THEN "seat"
                                    ELSE IF queue[v] > 0 THEN "queue"
                                    ELSE "out"
  BY <1>1, <1>2, <1>5 DEF TypeOK, EveryoneIsTold, Standing, Notices
<1>10. told' = [v \in Users |-> IF v \in P THEN "seat" ELSE said[v]]
  BY <1>1, <1>4 DEF TypeOK
<1> HIDE DEF said, seated, queue
<1> QED
  BY <1>2, <1>4, <1>7, <1>8, <1>9, <1>10, SettleStep

\* CloseRegistration, from any status that is not terminal.
LEMMA CloseStep ==
    ASSUME IInv, NEW t, CloseRegistration(t)
    PROVE  IInv'
<1>1. TypeOK /\ SoundNow /\ EveryoneIsTold
  BY Unfold
<1>2. /\ SoundNow'
      /\ EveryoneIsTold'
      /\ told' \in [Users -> Notices]
      /\ capacity' \in Capacities
  BY <1>1
  DEF CloseRegistration, waitlistVars, SoundNow, EveryoneIsTold, Standing, TypeOK
<1>3. /\ "registration_closed" \in Statuses \ {"cancelled"}
      /\ status' = SyncStatus("registration_closed", reservedSeats', capacity')
  BY DEF CloseRegistration, Statuses, SyncStatus, PublishedStatuses
<1> QED
  BY <1>2, <1>3, Conclude DEF CloseRegistration

\* CancelEvent: nobody keeps a row, and everybody who had one is told.
LEMMA CancelEventStep ==
    ASSUME IInv, NEW t, CancelEvent(t)
    PROVE  IInv'
<1>1. TypeOK /\ SoundNow /\ EveryoneIsTold /\ capacity \in Nat
  BY Unfold
<1>2. /\ status' = "cancelled"
      /\ reservedSeats' = 0
      /\ confirmed' = {}
      /\ position' = [u \in Users |-> 0]
      /\ told' = [u \in Users |-> IF NoMembership(u) THEN told[u] ELSE "out"]
      /\ UNCHANGED <<clockVars, publicationVars, capacity>>
  BY DEF CancelEvent
<1>3. retired' \in Nat
  BY <1>1 DEF CancelEvent, TypeOK, Larger, Waiting
<1>4. Waiting(position') = {}
  BY <1>2 DEF Waiting
<1>5. told' = [u \in Users |-> "out"]
  <2>1. \A u \in Users : NoMembership(u) => told[u] = "out"
    BY <1>1 DEF NoMembership, EveryoneIsTold, Standing
  <2> QED
    BY <1>2, <2>1
<1>6. TypeOK'
  BY <1>1, <1>2, <1>3, <1>5
  DEF TypeOK, Statuses, Notices, clockVars, publicationVars
<1>7. SeatsCounted' /\ OneStanding' /\ PositionsDistinct'
  BY <1>1, <1>2, <1>4, FS_EmptySet
  DEF SeatsCounted, OneStanding, PositionsDistinct, Distinct
<1>8. FullMeansFull' /\ CancelledIsEmpty'
  BY <1>2, <1>4 DEF FullMeansFull, CancelledIsEmpty, PublishedStatuses
<1>9. EveryoneIsTold'
  BY <1>2, <1>5 DEF EveryoneIsTold, Standing
<1> QED
  BY <1>6, <1>7, <1>8, <1>9 DEF IInv, SeatInv

\* AddConfirmed: the administrator seats a user who has no membership.
LEMMA AddConfirmedStep ==
    ASSUME IInv, NEW u \in Users, NEW t, AddConfirmed(u, t)
    PROVE  IInv'
<1>1. TypeOK /\ SoundNow /\ EveryoneIsTold
  BY Unfold
<1>2. SoundNow'
  BY <1>1, TakeSeatSound DEF AddConfirmed
<1>3. told' \in [Users -> Notices] /\ EveryoneIsTold'
  BY <1>1 DEF AddConfirmed, TypeOK, EveryoneIsTold, Standing, Notices, TakeSeat,
              waitlistVars
<1>4. /\ status \in Statuses \ {"cancelled"}
      /\ status' = SyncStatus(status, reservedSeats', capacity')
  BY <1>1 DEF AddConfirmed, TakeSeat, Mutable, TypeOK
<1> QED
  BY <1>1, <1>2, <1>3, <1>4, Conclude DEF AddConfirmed, TypeOK

\* AddWaitlisted: the administrator puts a user who has no membership behind
\* everybody else.
LEMMA AddWaitlistedStep ==
    ASSUME IInv, NEW u \in Users, NEW t, AddWaitlisted(u, t)
    PROVE  IInv'
<1>1. TypeOK /\ SoundNow /\ EveryoneIsTold /\ FullMeansFull
  BY Unfold DEF IInv
<1>2. SoundNow'
  BY <1>1, EnqueueSound DEF AddWaitlisted
<1>3. told' \in [Users -> Notices] /\ EveryoneIsTold'
  <2>1. PICK p \in 1 .. MaxPosition : position' = [position EXCEPT ![u] = p]
    BY DEF AddWaitlisted, Enqueue
  <2> QED
    BY <1>1, <2>1
    DEF AddWaitlisted, NoMembership, TypeOK, EveryoneIsTold, Standing, Notices,
        Enqueue
<1>4. /\ status \in Statuses \ {"cancelled"}
      /\ status' = SyncStatus(status, reservedSeats', capacity')
  BY <1>1 DEF AddWaitlisted, Enqueue, Mutable, TypeOK, FullMeansFull, SyncStatus
<1> QED
  BY <1>1, <1>2, <1>3, <1>4, Conclude DEF AddWaitlisted, TypeOK

\* MoveToConfirmed: the user leaves the waitlist and takes a free seat.
LEMMA MoveToConfirmedStep ==
    ASSUME IInv, NEW u \in Users, NEW t, MoveToConfirmed(u, t)
    PROVE  IInv'
<1>1. TypeOK /\ SoundNow /\ EveryoneIsTold
  BY Unfold
<1>2. /\ u \notin confirmed
      /\ reservedSeats < capacity
      /\ TakeSeat(u)
      /\ LeaveQueue(u)
      /\ UNCHANGED <<clockVars, publicationVars, capacity>>
  BY DEF MoveToConfirmed, HasFreeSeat
<1>3. /\ position' \in [Users -> Nat]
      /\ retired' \in Nat
      /\ Waiting(position') = Waiting(position) \ {u}
      /\ Distinct(position')
  BY <1>1, <1>2, LeaveQueueRows
<1>4. /\ confirmed' \in SUBSET Users
      /\ Cardinality(confirmed') = reservedSeats'
      /\ reservedSeats' <= capacity'
  BY <1>1, <1>2, AddSeat DEF TypeOK, SoundNow, Sound, TakeSeat, Capacities
<1>5. confirmed' \cap Waiting(position') = {}
  BY <1>1, <1>2, <1>3 DEF SoundNow, Sound, TakeSeat
<1>6. SoundNow'
  BY <1>3, <1>4, <1>5 DEF SoundNow, Sound
<1>7. told' \in [Users -> Notices] /\ EveryoneIsTold'
  <2>1. \A v \in Users : position'[v] > 0 <=> (position[v] > 0 /\ v # u)
    BY <1>3 DEF Waiting
  <2> QED
    BY <1>1, <1>2, <2>1
    DEF TypeOK, EveryoneIsTold, Standing, Notices, TakeSeat
<1>8. /\ status \in Statuses \ {"cancelled"}
      /\ status' = SyncStatus(status, reservedSeats', capacity')
  BY <1>1, <1>2 DEF MoveToConfirmed, TakeSeat, Mutable, TypeOK
<1> QED
  BY <1>1, <1>2, <1>6, <1>7, <1>8, Conclude DEF TypeOK

\* The steps that leave the rows, the seats and the notices alone and give the
\* event a status in which it is empty, or one derived from its seats.
LEMMA QuietStep ==
    ASSUME IInv, UNCHANGED <<capacity, reservedSeats, confirmed, waitlistVars,
                             told>>,
           now' \in Time, startsAt' \in Time, cancelDeadlineAt' \in Time,
           batchLinked' \in BOOLEAN, posted' \in BOOLEAN,
           \/ status' = status
           \/ status' = "draft"
           \/ status' = Published(reservedSeats, capacity)
    PROVE  IInv'
<1>1. TypeOK
  BY DEF IInv, SeatInv
<1>2. /\ Published(reservedSeats, capacity) \in PublishedStatuses
      /\ PublishedStatuses \in SUBSET (Statuses \ {"cancelled"})
      /\ "draft" \in Statuses
      /\ "draft" \notin PublishedStatuses
  BY DEF Published, PublishedStatuses, Statuses
<1>3. status' \in Statuses
  BY <1>1, <1>2 DEF TypeOK
<1>4. TypeOK'
  BY <1>1, <1>3 DEF TypeOK, waitlistVars
<1>5. SeatsCounted' /\ OneStanding' /\ PositionsDistinct' /\ EveryoneIsTold'
  BY DEF IInv, SeatInv, SeatsCounted, OneStanding, PositionsDistinct,
         EveryoneIsTold, Standing, waitlistVars
<1>6. FullMeansFull'
  BY <1>2 DEF IInv, FullMeansFull
<1>7. CancelledIsEmpty'
  BY <1>2 DEF IInv, CancelledIsEmpty, waitlistVars
<1> QED
  BY <1>4, <1>5, <1>6, <1>7 DEF IInv, SeatInv

------------------------------------------------------------------------------
(* The theorems.                                                           *)

\* A new draft satisfies the invariant.
LEMMA Initially ==
    Init => IInv
<1> SUFFICES ASSUME Init PROVE IInv
  OBVIOUS
<1>1. TypeOK
  <2>1. now \in Time /\ startsAt \in Time /\ cancelDeadlineAt \in Time
    BY MaxTimeAssumption DEF Init, Time
  <2>2. position \in [Users -> Nat] /\ told \in [Users -> Notices]
    BY DEF Init, Notices
  <2>3. batchLinked \in BOOLEAN /\ posted \in BOOLEAN
    BY DEF Init
  <2>4. status \in Statuses /\ capacity \in Capacities
    BY DEF Init, Statuses
  <2>5. reservedSeats \in Int /\ retired \in Nat /\ confirmed \in SUBSET Users
    BY DEF Init
  <2> QED
    BY <2>1, <2>2, <2>3, <2>4, <2>5 DEF TypeOK
<1>2. Waiting(position) = {}
  BY DEF Init, Waiting
<1>3. SeatsCounted /\ OneStanding /\ PositionsDistinct
  BY <1>2, FS_EmptySet
  DEF Init, SeatsCounted, OneStanding, PositionsDistinct, Distinct, Capacities
<1>4. FullMeansFull /\ CancelledIsEmpty /\ EveryoneIsTold
  BY DEF Init, FullMeansFull, CancelledIsEmpty, EveryoneIsTold, Standing,
         PublishedStatuses
<1> QED
  BY <1>1, <1>3, <1>4 DEF IInv, SeatInv

\* Every step preserves the invariant.
LEMMA Inductive ==
    IInv /\ [Next]_vars => IInv'
<1> SUFFICES ASSUME IInv, [Next]_vars PROVE IInv'
  OBVIOUS
<1>1. TypeOK
  BY DEF IInv, SeatInv
<1>2. ASSUME RegistrationStep PROVE IInv'
  BY <1>2, RegisterStep, CancelReservationStep, CancelWaitlistEntryStep
  DEF RegistrationStep
<1>3. ASSUME AdminStep PROVE IInv'
  <2>1. PICK t \in Readings :
        \/ UpdateEventFields(t)
        \/ \E c \in Capacities : SetCapacity(c, t)
        \/ CloseRegistration(t)
        \/ ReopenRegistration(t)
        \/ CancelEvent(t)
        \/ \E u \in Users :
            \/ AddConfirmed(u, t)
            \/ AddWaitlisted(u, t)
            \/ RemoveConfirmed(u, t)
            \/ RemoveWaitlisted(u, t)
            \/ MoveToConfirmed(u, t)
            \/ MoveToWaitlist(u, t)
    BY <1>3 DEF AdminStep
  <2>2. CASE UpdateEventFields(t)
    BY <1>1, <2>2, QuietStep DEF UpdateEventFields, TypeOK, publicationVars
  <2>3. CASE \E u \in Users : RemoveWaitlisted(u, t)
    BY <2>3, CancelWaitlistEntryStep DEF RemoveWaitlisted
  <2> QED
    BY <2>1, <2>2, <2>3, SetCapacityStep, CloseStep, ReopenStep,
       CancelEventStep, AddConfirmedStep, AddWaitlistedStep,
       RemoveConfirmedStep, MoveToConfirmedStep, MoveToWaitlistStep
<1>4. ASSUME PublicationStep PROVE IInv'
  BY <1>1, <1>4, QuietStep
  DEF PublicationStep, RequestPublication, MarkPublicationSucceeded,
      MarkPublicationFailed, TypeOK, clockVars
<1>5. ASSUME Tick PROVE IInv'
  BY <1>1, <1>5, MaxTimeAssumption, QuietStep
  DEF Tick, TypeOK, Time, publicationVars
<1>6. ASSUME UNCHANGED vars PROVE IInv'
  BY <1>1, <1>6, QuietStep DEF vars, TypeOK, waitlistVars
<1> QED
  BY <1>2, <1>3, <1>4, <1>5, <1>6 DEF Next

\* The inductive invariant holds of every behaviour of the ledger.
THEOREM Invariant == Spec => []IInv
BY Initially, Inductive, PTL DEF Spec

\* Every variable of the event row, of its members and of their notices keeps
\* its type, for every set of users and every capacity.
THEOREM TypeCorrect == Spec => []TypeOK
<1>1. IInv => TypeOK
  BY DEF IInv, SeatInv
<1> QED
  BY Invariant, <1>1, PTL

\* No event is ever overbooked, and the counter of its row is the number of
\* its confirmed reservations.
THEOREM NeverOverbooked == Spec => []SeatsCounted
<1>1. IInv => SeatsCounted
  BY DEF IInv, SeatInv
<1> QED
  BY Invariant, <1>1, PTL

\* Nobody holds a seat and waits for one.
THEOREM NobodyStandsTwice == Spec => []OneStanding
<1>1. IInv => OneStanding
  BY DEF IInv, SeatInv
<1> QED
  BY Invariant, <1>1, PTL

\* No two users wait at the same position, however rows were renumbered.
THEOREM WaitlistIsOrdered == Spec => []PositionsDistinct
<1>1. IInv => PositionsDistinct
  BY DEF IInv, SeatInv
<1> QED
  BY Invariant, <1>1, PTL

\* The stored status of a published event agrees with its seats.
THEOREM StatusFollowsSeats == Spec => []FullMeansFull
<1>1. IInv => FullMeansFull
  BY DEF IInv
<1> QED
  BY Invariant, <1>1, PTL

\* A cancelled event has no members.
THEOREM CancellingEmpties == Spec => []CancelledIsEmpty
<1>1. IInv => CancelledIsEmpty
  BY DEF IInv
<1> QED
  BY Invariant, <1>1, PTL

\* Every user was told the standing the user has.
THEOREM NoticesAreTrue == Spec => []EveryoneIsTold
<1>1. IInv => EveryoneIsTold
  BY DEF IInv
<1> QED
  BY Invariant, <1>1, PTL

------------------------------------------------------------------------------
(* Action properties.                                                     *)

\* The promotion takes every free seat or every candidate, in their order.
LEMMA PromotionResult ==
  ASSUME NEW seats, NEW seated, NEW queue, NEW gone, NEW cap \in Nat, NEW Excluded,
         Sound(seats, seated, queue, gone, cap),
         NEW P \in PromotionSets(queue, cap - seats, Excluded),
         Settle(P, seats, seated, queue, gone)
  PROVE  /\ confirmed' = seated \union P
         /\ Waiting(position') = Waiting(queue) \ P
         /\ P \in SUBSET (Waiting(queue) \ Excluded)
         /\ \A u \in P, v \in (Waiting(queue) \ Excluded) \ P : queue[u] < queue[v]
         /\ reservedSeats' = cap \/ Waiting(queue) \ (Excluded \union P) = {}
  <1> DEFINE candidates == Waiting(queue) \ Excluded
  <1>1. /\ confirmed' = seated \union P
        /\ Waiting(position') = Waiting(queue) \ P
    BY SettleSound
  <1>2. seats \in Nat /\ cap - seats \in Nat
    BY UserSets DEF Sound
  <1>3. candidates \in SUBSET Users /\ IsFiniteSet(candidates)
    BY WaitingFinite, FS_Subset
  <1>4. /\ P \in SUBSET candidates
        /\ Cardinality(P) = Smaller(cap - seats, Cardinality(candidates))
        /\ \A u \in P, v \in candidates \ P : queue[u] < queue[v]
    BY DEF PromotionSets
  <1>5. Cardinality(P) \in Nat /\ Cardinality(candidates) \in Nat
    BY <1>3, <1>4, FS_CardinalityType, FS_Subset
  <1>6. CASE Cardinality(P) = cap - seats
    <2>1. reservedSeats' = cap
      BY <1>2, <1>6 DEF Settle
    <2> QED BY <1>1, <1>4, <2>1
  <1>7. CASE Cardinality(P) = Cardinality(candidates)
    <2>1. P = candidates
      BY <1>3, <1>4, <1>7, FS_Subset
    <2> QED BY <1>1, <1>4, <2>1
  <1> QED BY <1>2, <1>4, <1>5, <1>6, <1>7 DEF Smaller

\* The rows that the promotion of each operation starts from are sound.
Promotes(seats, seated, queue, Excluded) ==
    /\ Sound(seats, seated, queue, retired, capacity')
    /\ seated \in SUBSET confirmed
    /\ \E P \in PromotionSets(queue, capacity' - seats, Excluded) :
            Settle(P, seats, seated, queue, retired)

\* SetCapacity, ReopenRegistration and RemoveConfirmed promote from the whole
\* waitlist.
LEMMA PromotingOperations ==
  ASSUME IInv, NEW t,
         \/ \E c \in Capacities : SetCapacity(c, t)
         \/ ReopenRegistration(t)
         \/ \E u \in Users : RemoveConfirmed(u, t)
  PROVE  /\ capacity' \in Nat
         /\ \E seats \in Int, seated \in SUBSET confirmed :
                Promotes(seats, seated, position, {})
  <1>1. TypeOK /\ SoundNow /\ reservedSeats \in Nat /\ capacity \in Nat
    BY Unfold
  <1>2. ASSUME NEW c \in Capacities, SetCapacity(c, t)
        PROVE  /\ capacity' \in Nat
               /\ \E seats \in Int, seated \in SUBSET confirmed :
                    Promotes(seats, seated, position, {})
    <2>1. capacity' = c /\ c \in Nat /\ c >= reservedSeats
      BY <1>2 DEF SetCapacity, Capacities
    <2>2. Sound(reservedSeats, confirmed, position, retired, capacity')
      BY <1>1, <2>1 DEF SoundNow, Sound
    <2>3. Promotes(reservedSeats, confirmed, position, {})
      BY <1>2, <2>1, <2>2 DEF SetCapacity, Promotes
    <2> QED BY <1>1, <2>1, <2>3
  <1>3. CASE ReopenRegistration(t)
    <2>1. capacity' = capacity
      BY <1>3 DEF ReopenRegistration
    <2>2. Promotes(reservedSeats, confirmed, position, {})
      BY <1>1, <1>3, <2>1 DEF ReopenRegistration, Promotes, SoundNow
    <2> QED BY <1>1, <2>1, <2>2
  <1>4. ASSUME NEW u \in Users, RemoveConfirmed(u, t)
        PROVE  /\ capacity' \in Nat
               /\ \E seats \in Int, seated \in SUBSET confirmed :
                    Promotes(seats, seated, position, {})
    <2>1. capacity' = capacity /\ u \in confirmed
      BY <1>4 DEF RemoveConfirmed
    <2>2. Cardinality(confirmed \ {u}) = reservedSeats - 1
      BY <1>1, <2>1, DropSeat DEF SoundNow, Sound
    <2>3. Sound(reservedSeats - 1, confirmed \ {u}, position, retired, capacity')
      BY <1>1, <2>1, <2>2 DEF SoundNow, Sound
    <2>4. Promotes(reservedSeats - 1, confirmed \ {u}, position, {})
      BY <1>4, <2>1, <2>3 DEF RemoveConfirmed, Promotes
    <2> QED BY <1>1, <2>1, <2>4
  <1> QED BY <1>2, <1>3, <1>4

\* MoveToWaitlist promotes from the waitlist with the user at its end, whom it
\* passes over.
LEMMA MovePromotes ==
  ASSUME IInv, NEW t, NEW u \in Users, MoveToWaitlist(u, t)
  PROVE  \E p \in Nat \ {0} :
            Promotes(reservedSeats - 1, confirmed \ {u}, [position EXCEPT ![u] = p], {u})
  <1>1. TypeOK /\ SoundNow /\ reservedSeats \in Nat
    BY Unfold
  <1>2. capacity' = capacity /\ u \in confirmed
    BY DEF MoveToWaitlist
  <1>3. PICK p \in 1 .. MaxPosition :
          /\ IsNextPosition(p, position, retired)
          /\ \E P \in PromotionSets([position EXCEPT ![u] = p], capacity - (reservedSeats - 1), {u}) :
                Settle(P, reservedSeats - 1, confirmed \ {u}, [position EXCEPT ![u] = p], retired)
    BY DEF MoveToWaitlist
  <1>4. p \in Nat \ {0}
    BY MaxPositionAssumption
  <1> DEFINE queue == [position EXCEPT ![u] = p]
  <1>5. queue \in [Users -> Nat] /\ Distinct(queue)
    BY <1>1, <1>3, <1>4, NextPositionDistinct DEF SoundNow, Sound
  <1>6. (confirmed \ {u}) \cap Waiting(queue) = {}
    BY <1>1, <1>4 DEF SoundNow, Sound, Waiting
  <1>7. Cardinality(confirmed \ {u}) = reservedSeats - 1
    BY <1>1, <1>2, DropSeat DEF SoundNow, Sound
  <1> HIDE DEF queue
  <1>8. Sound(reservedSeats - 1, confirmed \ {u}, queue, retired, capacity')
    BY <1>1, <1>2, <1>5, <1>7, <1>6 DEF SoundNow, Sound, TypeOK, Capacities
  <1> QED BY <1>2, <1>3, <1>4, <1>8 DEF Promotes, queue

------------------------------------------------------------------------------

\* The operations of an administrator that promote nobody
Plain(t) ==
    \/ UpdateEventFields(t) \/ CloseRegistration(t) \/ CancelEvent(t)
    \/ \E u \in Users :
        AddConfirmed(u, t) \/ AddWaitlisted(u, t) \/ RemoveWaitlisted(u, t) \/ MoveToConfirmed(u, t)

Promoting(t) ==
    \/ \E c \in Capacities : SetCapacity(c, t)
    \/ ReopenRegistration(t)
    \/ \E u \in Users : RemoveConfirmed(u, t)

LEMMA AdminCases ==
  ASSUME AdminStep
  PROVE  \E t \in Readings :
            Plain(t) \/ Promoting(t) \/ \E u \in Users : MoveToWaitlist(u, t)
  BY DEF AdminStep, Plain, Promoting

\* The rows of the event after a step that is neither a registration nor an
\* operation of an administrator
LEMMA OtherSteps ==
  ASSUME [Next]_vars
  PROVE  \/ RegistrationStep \/ AdminStep
         \/ UNCHANGED <<capacity, reservedSeats, confirmed, waitlistVars, startsAt,
                        cancelDeadlineAt>>
  BY DEF Next, PublicationStep, RequestPublication, MarkPublicationSucceeded,
     MarkPublicationFailed, Tick, vars, clockVars, waitlistVars

------------------------------------------------------------------------------
(* Who is served                                                           *)

\* A waiting user is overtaken only by one whom an administrator moves
\* (move_participant): registrations join behind, a freed seat goes to the
\* first, and a promotion of several takes them in order.
THEOREM FirstComeFirstServed == Spec => NobodyOvertakes
  <1> DEFINE Overtaken(u, v) ==
        /\ position[u] > 0
        /\ position[u] < position[v]
        /\ v \in confirmed'
        /\ position'[u] > 0
        => \E t \in Readings : MoveToConfirmed(v, t)
  <1>1. ASSUME IInv, [Next]_vars, NEW u \in Users, NEW v \in Users
        PROVE  Overtaken(u, v)
    <2> SUFFICES ASSUME position[u] > 0, position[u] < position[v], v \in confirmed',
                        position'[u] > 0
                 PROVE  \E t \in Readings : MoveToConfirmed(v, t)
      OBVIOUS
    <2>1. TypeOK /\ SoundNow
      BY <1>1, Unfold
    <2>2. /\ u \in Waiting(position) /\ v \in Waiting(position)
          /\ u \notin confirmed /\ v \notin confirmed /\ u # v
          /\ position \in [Users -> Nat]
      BY <2>1 DEF SoundNow, Sound, Waiting
    <2>3. u \in Waiting(position')
      BY DEF Waiting
    <2>4. CASE RegistrationStep
      <3>1. PICK w \in Users :
              \/ Register(w)
              \/ \E override \in BOOLEAN : CancelReservation(w, override)
              \/ CancelWaitlistEntry(w)
        BY <2>4 DEF RegistrationStep
      <3>2. CASE Register(w)
        BY <2>2, <3>2 DEF Register, NoMembership, TakeSeat, Enqueue
      <3>3. ASSUME NEW override \in BOOLEAN, CancelReservation(w, override)
            PROVE  FALSE
        BY <2>2, <3>3 DEF CancelReservation, IsFirst
      <3>4. CASE CancelWaitlistEntry(w)
        BY <2>2, <3>4 DEF CancelWaitlistEntry
      <3> QED BY <3>1, <3>2, <3>3, <3>4
    <2>5. CASE AdminStep
      <3>1. PICK t \in Readings :
              Plain(t) \/ Promoting(t) \/ \E w \in Users : MoveToWaitlist(w, t)
        BY <2>5, AdminCases
      <3>2. CASE Plain(t)
        BY <2>2, <3>2 DEF Plain, UpdateEventFields, CloseRegistration, CancelEvent, AddConfirmed,
           AddWaitlisted, RemoveWaitlisted, CancelWaitlistEntry, NoMembership, TakeSeat, Enqueue,
           MoveToConfirmed
      <3>3. CASE Promoting(t)
        <4>1. PICK seats \in Int, seated \in SUBSET confirmed : Promotes(seats, seated, position, {})
          BY <1>1, <3>3, PromotingOperations DEF Promoting
        <4>2. capacity' \in Nat
          BY <1>1, <3>3, PromotingOperations DEF Promoting
        <4>3. PICK P \in PromotionSets(position, capacity' - seats, {}) :
                Settle(P, seats, seated, position, retired)
          BY <4>1 DEF Promotes
        <4>4. /\ confirmed' = seated \union P
              /\ Waiting(position') = Waiting(position) \ P
              /\ \A a \in P, b \in (Waiting(position) \ {}) \ P : position[a] < position[b]
          BY <4>1, <4>2, <4>3, PromotionResult DEF Promotes
        <4> QED BY <2>2, <2>3, <4>4
      <3>4. ASSUME NEW w \in Users, MoveToWaitlist(w, t)
            PROVE  FALSE
        <4>1. PICK p \in Nat \ {0} :
                Promotes(reservedSeats - 1, confirmed \ {w}, [position EXCEPT ![w] = p], {w})
          BY <1>1, <3>4, MovePromotes
        <4> DEFINE queue == [position EXCEPT ![w] = p]
        <4>2. capacity' \in Nat /\ w \in confirmed
          BY <2>1, <3>4 DEF MoveToWaitlist, TypeOK, Capacities
        <4>3. /\ u \in Waiting(queue) \ {w} /\ v \in Waiting(queue) \ {w}
              /\ queue[u] = position[u] /\ queue[v] = position[v]
          BY <2>2, <4>2 DEF Waiting
        <4> HIDE DEF queue
        <4>4. PICK P \in PromotionSets(queue, capacity' - (reservedSeats - 1), {w}) :
                Settle(P, reservedSeats - 1, confirmed \ {w}, queue, retired)
          BY <4>1 DEF Promotes, queue
        <4>5. /\ confirmed' = (confirmed \ {w}) \union P
              /\ Waiting(position') = Waiting(queue) \ P
              /\ \A a \in P, b \in (Waiting(queue) \ {w}) \ P : queue[a] < queue[b]
          <5>1. Sound(reservedSeats - 1, confirmed \ {w}, queue, retired, capacity')
            BY <4>1 DEF Promotes, queue
          <5> QED BY <4>2, <4>4, <5>1, PromotionResult
        <4> QED BY <2>2, <2>3, <4>3, <4>5
      <3> QED BY <3>1, <3>2, <3>3, <3>4
    <2> QED BY <1>1, <2>2, <2>4, <2>5, OtherSteps
  <1>2. IInv /\ [Next]_vars => [\A u, v \in Users : Overtaken(u, v)]_vars
    BY <1>1
  <1> QED BY <1>2, Invariant, PTL DEF Spec, NobodyOvertakes

\* A free seat beside a waiting user comes only from putting a user into the
\* waitlist (add_participant, move_participant): every operation that frees or
\* adds seats promotes until one of the two is used up.
THEOREM FreedSeatsAreServed == Spec => SeatsGoToTheQueue
  <1> DEFINE ByHand == \E u \in Users, t \in Readings : AddWaitlisted(u, t) \/ MoveToWaitlist(u, t)
  <1>1. ASSUME IInv, [Next]_vars, ~FreeSeatBesideQueue, ~ByHand
        PROVE  ~FreeSeatBesideQueue'
    <2>1. TypeOK /\ SoundNow /\ reservedSeats \in Nat /\ capacity \in Nat
      BY <1>1, Unfold
    <2>2. HasFreeSeat => Waiting(position) = {}
      BY <1>1 DEF FreeSeatBesideQueue
    <2>3. SUFFICES ASSUME reservedSeats' < capacity' PROVE Waiting(position') = {}
      BY DEF FreeSeatBesideQueue, HasFreeSeat
    <2>4. CASE RegistrationStep
      <3>1. PICK w \in Users :
              \/ Register(w)
              \/ \E override \in BOOLEAN : CancelReservation(w, override)
              \/ CancelWaitlistEntry(w)
        BY <2>4 DEF RegistrationStep
      <3>2. CASE Register(w)
        BY <2>2, <2>3, <3>2 DEF Register, TakeSeat, Enqueue, HasFreeSeat, waitlistVars
      <3>3. ASSUME NEW override \in BOOLEAN, CancelReservation(w, override)
            PROVE  Waiting(position') = {}
        <4>1. CASE \E next \in Users : IsFirst(next, position) /\ reservedSeats' = reservedSeats
          BY <2>2, <2>3, <3>3, <4>1 DEF CancelReservation, IsFirst, HasFreeSeat
        <4>2. CASE /\ Waiting(position) = {} \/ reservedSeats - 1 >= capacity
                   /\ reservedSeats' = reservedSeats - 1
                   /\ UNCHANGED waitlistVars
          BY <2>1, <2>3, <3>3, <4>2 DEF CancelReservation, waitlistVars
        <4> QED BY <3>3, <4>1, <4>2 DEF CancelReservation
      <3>4. CASE CancelWaitlistEntry(w)
        BY <2>1, <2>2, <2>3, <3>4, LeaveQueueRows DEF CancelWaitlistEntry, HasFreeSeat
      <3> QED BY <3>1, <3>2, <3>3, <3>4
    <2>5. CASE AdminStep
      <3>1. PICK t \in Readings :
              Plain(t) \/ Promoting(t) \/ \E w \in Users : MoveToWaitlist(w, t)
        BY <2>5, AdminCases
      <3>2. CASE UpdateEventFields(t) \/ CloseRegistration(t)
        BY <2>2, <2>3, <3>2 DEF UpdateEventFields, CloseRegistration, HasFreeSeat, waitlistVars
      <3>3. CASE CancelEvent(t)
        BY <3>3 DEF CancelEvent, Waiting
      <3>4. ASSUME NEW w \in Users, AddConfirmed(w, t)
            PROVE  Waiting(position') = {}
        BY <2>2, <3>4 DEF AddConfirmed, waitlistVars
      <3>5. ASSUME NEW w \in Users, RemoveWaitlisted(w, t)
            PROVE  Waiting(position') = {}
        BY <2>1, <2>2, <2>3, <3>5, LeaveQueueRows DEF RemoveWaitlisted, CancelWaitlistEntry, HasFreeSeat
      <3>6. ASSUME NEW w \in Users, MoveToConfirmed(w, t)
            PROVE  Waiting(position') = {}
        BY <2>2, <3>6 DEF MoveToConfirmed, Waiting
      <3>7. CASE Promoting(t)
        <4>1. PICK seats \in Int, seated \in SUBSET confirmed : Promotes(seats, seated, position, {})
          BY <1>1, <3>7, PromotingOperations DEF Promoting
        <4>2. capacity' \in Nat
          BY <1>1, <3>7, PromotingOperations DEF Promoting
        <4>3. PICK P \in PromotionSets(position, capacity' - seats, {}) :
                Settle(P, seats, seated, position, retired)
          BY <4>1 DEF Promotes
        <4>4. /\ Waiting(position') = Waiting(position) \ P
              /\ reservedSeats' = capacity' \/ Waiting(position) \ P = {}
          <5>1. Sound(seats, seated, position, retired, capacity')
            BY <4>1 DEF Promotes
          <5>2. Waiting(position') = Waiting(position) \ P
            BY <4>2, <4>3, <5>1, PromotionResult
          <5>3. reservedSeats' = capacity' \/ Waiting(position) \ ({} \union P) = {}
            BY <4>2, <4>3, <5>1, PromotionResult
          <5> QED BY <5>2, <5>3
        <4> QED BY <2>3, <4>2, <4>4
      <3> QED BY <1>1, <3>1, <3>2, <3>3, <3>4, <3>5, <3>6, <3>7 DEF Plain
    <2> QED BY <1>1, <2>2, <2>3, <2>4, <2>5, OtherSteps DEF HasFreeSeat, waitlistVars
  <1>2. IInv /\ [Next]_vars =>
          [~FreeSeatBesideQueue /\ FreeSeatBesideQueue' => ByHand]_vars
    BY <1>1
  <1> QED BY <1>2, Invariant, PTL DEF Spec, SeatsGoToTheQueue

------------------------------------------------------------------------------
(* When and how an event is public                                         *)

\* Once the operations that waited for the row at the start are through
\* (_require_mutable_event, _ensure_registration_allowed), an event keeps its
\* settings and gets no new members.
THEOREM StartedIsFrozen == Spec => StartedEventIsFrozen
  <1> DEFINE Frozen == now >= startsAt + MaxLag =>
        /\ UNCHANGED <<capacity, startsAt, cancelDeadlineAt>>
        /\ Members' \subseteq Members
  <1>1. ASSUME IInv, [Next]_vars
        PROVE  Frozen
    <2> SUFFICES ASSUME now >= startsAt + MaxLag
                 PROVE  /\ UNCHANGED <<capacity, startsAt, cancelDeadlineAt>>
                        /\ Members' \subseteq Members
      OBVIOUS
    <2>1. TypeOK /\ SoundNow
      BY <1>1, Unfold
    <2>2. now \in Int /\ startsAt \in Int /\ MaxLag \in Nat
      BY <2>1, MaxLagAssumption, MaxTimeAssumption DEF TypeOK, Time
    <2>3. ~AdminStep
      <3>1. ASSUME NEW t \in Readings PROVE ~(t < startsAt)
        BY <2>2, MaxTimeAssumption DEF Readings, Time
      <3> QED
        BY <3>1 DEF AdminStep, Mutable, UpdateEventFields, SetCapacity, CloseRegistration,
           ReopenRegistration, CancelEvent, AddConfirmed, AddWaitlisted, RemoveConfirmed,
           RemoveWaitlisted, MoveToConfirmed, MoveToWaitlist
    <2>4. CASE RegistrationStep
      <3>1. PICK w \in Users :
              \/ Register(w)
              \/ \E override \in BOOLEAN : CancelReservation(w, override)
              \/ CancelWaitlistEntry(w)
        BY <2>4 DEF RegistrationStep
      <3>2. CASE Register(w)
        BY <2>2, <3>2 DEF Register, RegistrationAllowed
      <3>3. ASSUME NEW override \in BOOLEAN, CancelReservation(w, override)
            PROVE  /\ UNCHANGED <<capacity, startsAt, cancelDeadlineAt>>
                   /\ Members' \subseteq Members
        <4>1. CASE \E next \in Users :
                    /\ IsFirst(next, position)
                    /\ confirmed' = (confirmed \ {w}) \union {next}
                    /\ position' = [position EXCEPT ![next] = 0]
          BY <2>1, <3>3, <4>1 DEF CancelReservation, clockVars, IsFirst, Members, Waiting, TypeOK
        <4>2. CASE confirmed' = confirmed \ {w} /\ UNCHANGED waitlistVars
          BY <3>3, <4>2 DEF CancelReservation, clockVars, waitlistVars, Members
        <4> QED BY <3>3, <4>1, <4>2 DEF CancelReservation
      <3>4. CASE CancelWaitlistEntry(w)
        BY <2>1, <3>4, LeaveQueueRows DEF CancelWaitlistEntry, clockVars, Members
      <3> QED BY <3>1, <3>2, <3>3, <3>4
    <2> QED BY <1>1, <2>3, <2>4, OtherSteps DEF Members, waitlistVars
  <1>2. IInv /\ [Next]_vars => [Frozen]_vars
    BY <1>1
  <1> QED BY <1>2, Invariant, PTL DEF Spec, StartedEventIsFrozen

\* Deriving the status again publishes nothing (sync_status_from_capacity).
LEMMA SyncPublishesNothing ==
  ASSUME NEW seats, NEW cap, SyncStatus(status, seats, cap) \in PublishedStatuses
  PROVE  Public
  BY DEF SyncStatus, Public

\* An event without a post becomes public only by reopen_registration.
THEOREM UnpostedIsReopened == Spec => UnpostedOnlyByReopening
  <1> DEFINE Reopened == \E t \in Readings : ReopenRegistration(t)
  <1>1. ASSUME IInv, [Next]_vars, Public => posted, Public', ~posted', ~Reopened
        PROVE  FALSE
    <2>1. posted \in BOOLEAN /\ posted' \in BOOLEAN
      BY <1>1, Inductive DEF IInv, SeatInv, TypeOK
    <2>2. CASE Public
      <3>1. posted' # posted
        <4>1. posted /\ ~posted'
          BY <1>1, <2>2
        <4> QED BY <4>1
      <3>2. ~RegistrationStep
        BY <3>1 DEF RegistrationStep, Register, CancelReservation, CancelWaitlistEntry,
           publicationVars
      <3>3. ~AdminStep
        BY <3>1 DEF AdminStep, UpdateEventFields, SetCapacity, CloseRegistration,
           ReopenRegistration, CancelEvent, AddConfirmed, AddWaitlisted, RemoveConfirmed,
           RemoveWaitlisted, CancelWaitlistEntry, MoveToConfirmed, MoveToWaitlist, publicationVars
      <3>4. ~PublicationStep
        BY <1>1, <3>1 DEF PublicationStep, RequestPublication, MarkPublicationSucceeded,
           MarkPublicationFailed, Public, PublishedStatuses
      <3> QED BY <1>1, <3>1, <3>2, <3>3, <3>4 DEF Next, Tick, vars, publicationVars
    <2>3. CASE ~Public
      <3>1. \A seats, cap : SyncStatus(status, seats, cap) \notin PublishedStatuses
        BY <2>3, SyncPublishesNothing
      <3>2. status' \in PublishedStatuses /\ status \notin PublishedStatuses /\ status' # status
        BY <1>1, <2>3 DEF Public
      <3>3. ~RegistrationStep
        BY <3>1, <3>2 DEF RegistrationStep, Register, TakeSeat, CancelReservation, CancelWaitlistEntry
      <3>4. ~AdminStep
        BY <1>1, <3>1, <3>2 DEF AdminStep, UpdateEventFields, SetCapacity, CloseRegistration,
           CancelEvent, AddConfirmed, AddWaitlisted, RemoveConfirmed, RemoveWaitlisted,
           CancelWaitlistEntry, MoveToConfirmed, MoveToWaitlist, TakeSeat, PublishedStatuses
      <3>5. ~PublicationStep
        BY <1>1, <3>2 DEF PublicationStep, RequestPublication, MarkPublicationSucceeded,
           MarkPublicationFailed, PublishedStatuses
      <3> QED BY <1>1, <3>2, <3>3, <3>4, <3>5 DEF Next, Tick, vars
    <2> QED BY <2>2, <2>3
  <1>2. IInv /\ [Next]_vars => [(Public => posted) /\ Public' /\ ~posted' => Reopened]_vars
    BY <1>1
  <1> QED BY <1>2, Invariant, PTL DEF Spec, UnpostedOnlyByReopening

------------------------------------------------------------------------------
(* The refinement of SeatBook.                                            *)

\* A line of users, each one ahead of the next by the positions in queue.
Ordered(line, queue) ==
    /\ line \in Seq(Users)
    /\ \A i, j \in 1 .. Len(line) : i < j => queue[line[i]] < queue[line[j]]

\* The line of everybody who waits.
InLine(line, queue) == Ordered(line, queue) /\ ToSet(line) = Waiting(queue)

\* The members of a line are at its indices.
LEMMA LineMembers ==
    ASSUME NEW line \in Seq(Users)
    PROVE  /\ ToSet(line) = {line[i] : i \in 1 .. Len(line)}
           /\ Len(line) \in Nat
           /\ \A i \in 1 .. Len(line) : line[i] \in Users /\ line[i] \in ToSet(line)
           /\ \A u \in ToSet(line) : \E i \in 1 .. Len(line) : u = line[i]
BY LenProperties DEF ToSet

\* Nobody stands in a line twice, and it is as long as it has members.
LEMMA LineLength ==
    ASSUME NEW queue \in [Users -> Nat], NEW line, Ordered(line, queue),
           NEW n \in 0 .. Len(line)
    PROVE  /\ Cardinality({line[i] : i \in 1 .. n}) = n
           /\ IsFiniteSet({line[i] : i \in 1 .. n})
           /\ \A i, j \in 1 .. Len(line) : line[i] = line[j] => i = j
<1> DEFINE T == {line[i] : i \in 1 .. n}
           f == [i \in 1 .. n |-> line[i]]
<1>1. line \in Seq(Users) /\ Len(line) \in Nat
  BY LenProperties DEF Ordered
<1>2. \A i \in 1 .. Len(line) : line[i] \in Users /\ queue[line[i]] \in Nat
  BY <1>1, LineMembers
<1>3. \A i, j \in 1 .. Len(line) : line[i] = line[j] => i = j
  <2> SUFFICES ASSUME NEW i \in 1 .. Len(line), NEW j \in 1 .. Len(line),
                      line[i] = line[j], i < j
               PROVE  FALSE
    BY <1>1
  <2> QED
    BY <1>2 DEF Ordered
<1>4. n \in Nat /\ 1 .. n \in SUBSET (1 .. Len(line))
  BY <1>1
<1>5. f \in Bijection(1 .. n, T)
  <2>1. f \in [1 .. n -> T]
    OBVIOUS
  <2>2. \A i, j \in 1 .. n : f[i] = f[j] => i = j
    BY <1>3, <1>4
  <2>3. \A t \in T : \E i \in 1 .. n : f[i] = t
    OBVIOUS
  <2> HIDE DEF f, T
  <2> QED
    BY <2>1, <2>2, <2>3 DEF Bijection, Injection, Surjection, IsInjective
<1>6. ExistsBijection(1 .. n, T)
  BY <1>5 DEF ExistsBijection
<1>7. IsFiniteSet(1 .. n) /\ Cardinality(1 .. n) = n
  BY <1>4, FS_Interval
<1>8. IsFiniteSet(T) /\ Cardinality(T) = n
  BY <1>6, <1>7, FS_Bijection
<1> QED
  BY <1>3, <1>8

\* The i-th of the line has i users up to the i-th.
LEMMA LineRank ==
    ASSUME NEW queue \in [Users -> Nat], NEW line, InLine(line, queue),
           NEW i \in 1 .. Len(line)
    PROVE  /\ UpTo(line[i], queue) = {line[k] : k \in 1 .. i}
           /\ Cardinality(UpTo(line[i], queue)) = i
<1>1. /\ line \in Seq(Users) /\ Ordered(line, queue)
      /\ Waiting(queue) = {line[k] : k \in 1 .. Len(line)}
      /\ Len(line) \in Nat
  BY LineMembers DEF InLine, Ordered
<1>2. \A k \in 1 .. Len(line) : line[k] \in Users /\ queue[line[k]] \in Nat
  BY <1>1, LineMembers
<1>3. ASSUME NEW k \in 1 .. Len(line)
      PROVE  queue[line[k]] <= queue[line[i]] <=> k <= i
  <2>1. k < i => queue[line[k]] < queue[line[i]]
    BY <1>1 DEF Ordered
  <2>2. i < k => queue[line[i]] < queue[line[k]]
    BY <1>1 DEF Ordered
  <2> QED
    BY <1>1, <1>2, <2>1, <2>2
<1>4. UpTo(line[i], queue) = {line[k] : k \in 1 .. i}
  BY <1>1, <1>3 DEF UpTo
<1>5. i \in 0 .. Len(line)
  BY <1>1
<1> QED
  BY <1>1, <1>4, <1>5, LineLength

\* There is one line of everybody who waits.
LEMMA LineUnique ==
    ASSUME NEW queue \in [Users -> Nat], NEW line, InLine(line, queue)
    PROVE  /\ line = InOrder(queue)
           /\ Len(line) = Cardinality(Waiting(queue))
<1>1. /\ line \in Seq(Users) /\ Ordered(line, queue)
      /\ Waiting(queue) = {line[k] : k \in 1 .. Len(line)}
      /\ Len(line) \in Nat
      /\ line = [k \in 1 .. Len(line) |-> line[k]]
  BY LineMembers, LenProperties DEF InLine, Ordered
<1>2. Len(line) = Cardinality(Waiting(queue))
  <2>1. Len(line) \in 0 .. Len(line)
    BY <1>1
  <2> QED
    BY <1>1, <2>1, LineLength
<1>3. ASSUME NEW i \in 1 .. Len(line)
      PROVE  line[i] = CHOOSE u \in Waiting(queue) : Cardinality(UpTo(u, queue)) = i
  <2>1. line[i] \in Waiting(queue) /\ Cardinality(UpTo(line[i], queue)) = i
    BY <1>1, LineRank
  <2>2. ASSUME NEW u \in Waiting(queue), Cardinality(UpTo(u, queue)) = i
        PROVE  u = line[i]
    BY <1>1, <2>2, LineRank
  <2> QED
    BY <2>1, <2>2
<1> QED
  BY <1>1, <1>2, <1>3 DEF InOrder

\* The rank of a waiting user lies between one and the number who wait, and
\* grows with the position.
LEMMA RankOrder ==
    ASSUME NEW queue \in [Users -> Nat]
    PROVE  /\ \A u \in Waiting(queue) :
                Cardinality(UpTo(u, queue)) \in 1 .. Cardinality(Waiting(queue))
           /\ \A u, v \in Waiting(queue) :
                queue[u] < queue[v]
                    => Cardinality(UpTo(u, queue)) < Cardinality(UpTo(v, queue))
<1>1. \A u \in Waiting(queue) \ {} :
        Resequenced(queue, {})[u] = Cardinality(UpTo(u, queue))
  <2>1. Waiting(queue) \ {} = Waiting(queue)
    OBVIOUS
  <2> QED
    BY <2>1, WaitingFinite DEF Resequenced, UpTo
<1>2. ASSUME NEW u \in Waiting(queue)
      PROVE  Cardinality(UpTo(u, queue)) \in 1 .. Cardinality(Waiting(queue))
  <2>1. UpTo(u, queue) \in SUBSET Waiting(queue) /\ u \in UpTo(u, queue)
    BY WaitingFinite DEF UpTo
  <2>2. IsFiniteSet(Waiting(queue)) /\ IsFiniteSet(UpTo(u, queue))
    BY <2>1, WaitingFinite, FS_Subset
  <2>3. Cardinality(UpTo(u, queue)) <= Cardinality(Waiting(queue))
    BY <2>1, <2>2, FS_Subset
  <2>4. Cardinality(UpTo(u, queue)) # 0
    BY <2>1, <2>2, FS_EmptySet
  <2> QED
    BY <2>2, <2>3, <2>4, FS_CardinalityType
<1>3. ASSUME NEW u \in Waiting(queue), NEW v \in Waiting(queue), queue[u] < queue[v]
      PROVE  Cardinality(UpTo(u, queue)) < Cardinality(UpTo(v, queue))
  <2>1. u \in Waiting(queue) \ {} /\ v \in Waiting(queue) \ {}
    OBVIOUS
  <2> QED
    BY <1>1, <1>3, <2>1, ResequencedOrder
<1> QED
  BY <1>2, <1>3

\* Distinct positions put everybody who waits in line.
LEMMA LineExists ==
    ASSUME NEW queue \in [Users -> Nat], Distinct(queue)
    PROVE  InLine(InOrder(queue), queue)
<1> DEFINE W == Waiting(queue)
           n == Cardinality(W)
           rank(u) == Cardinality(UpTo(u, queue))
           f == [u \in W |-> rank(u)]
           line == InOrder(queue)
<1>1. IsFiniteSet(W) /\ n \in Nat /\ W \in SUBSET Users
  BY WaitingFinite, FS_CardinalityType
<1>2. \A u \in W : rank(u) \in 1 .. n /\ queue[u] \in Nat
  BY <1>1, RankOrder
<1>3. ASSUME NEW u \in W, NEW v \in W
      PROVE  rank(u) < rank(v) => queue[u] < queue[v]
  <2>1. ~(queue[v] < queue[u]) \/ rank(v) < rank(u)
    BY RankOrder
  <2>2. queue[u] = queue[v] => u = v
    BY DEF Distinct
  <2> HIDE DEF rank
  <2> QED
    BY <1>2, <2>1, <2>2
<1>4. ASSUME NEW u \in W, NEW v \in W, rank(u) = rank(v)
      PROVE  u = v
  <2>1. ~(queue[v] < queue[u]) /\ ~(queue[u] < queue[v])
    BY <1>2, <1>4, RankOrder
  <2> QED
    BY <1>2, <2>1 DEF Distinct
<1>5. f \in Injection(W, 1 .. n)
  <2>1. f \in [W -> 1 .. n]
    BY <1>2
  <2>2. \A u, v \in W : f[u] = f[v] => u = v
    BY <1>4
  <2> HIDE DEF f, W, n
  <2> QED
    BY <2>1, <2>2 DEF Injection, IsInjective
<1>6. f \in Surjection(W, 1 .. n)
  <2>1. IsFiniteSet(1 .. n) /\ Cardinality(1 .. n) = n
    BY <1>1, FS_Interval
  <2> HIDE DEF f
  <2> QED
    BY <1>5, <2>1, FS_Injection
<1>7. \A i \in 1 .. n : \E u \in W : rank(u) = i
  BY <1>6 DEF Surjection
<1>8. /\ \A i \in 1 .. n : line[i] \in W /\ rank(line[i]) = i
      /\ line \in [1 .. n -> Users]
  BY <1>1, <1>7 DEF InOrder
<1>9. line \in Seq(Users) /\ Len(line) = n
  <2>1. line \in Seq(Users)
    BY <1>1, <1>8, SeqDef
  <2> QED
    BY <1>1, <1>8, <2>1, LenProperties
<1> HIDE DEF line, rank
<1>10. ToSet(line) = W
  <2>1. ToSet(line) = {line[i] : i \in 1 .. n}
    BY <1>9, LineMembers
  <2>2. ASSUME NEW u \in W PROVE u = line[rank(u)] /\ rank(u) \in 1 .. n
    BY <1>2, <1>4, <1>8
  <2> QED
    BY <1>8, <2>1, <2>2
<1>11. \A i, j \in 1 .. n : i < j => queue[line[i]] < queue[line[j]]
  BY <1>3, <1>8
<1> QED
  BY <1>9, <1>10, <1>11 DEF InLine, Ordered, line

\* A line stays the line of those who wait when positions change and nobody in
\* it overtakes.
LEMMA Relined ==
    ASSUME NEW queue \in [Users -> Nat], NEW new \in [Users -> Nat], NEW line,
           Ordered(line, queue), ToSet(line) = Waiting(new),
           \A u, v \in Waiting(new) : queue[u] < queue[v] => new[u] < new[v]
    PROVE  line = InOrder(new)
<1>1. \A i \in 1 .. Len(line) : line[i] \in Waiting(new)
  BY LineMembers DEF Ordered
<1>2. InLine(line, new)
  BY <1>1 DEF InLine, Ordered
<1> QED
  BY <1>2, LineUnique

\* Users who are ahead of all others are the first of the line, and without
\* them the others are in order.
LEMMA LinePrefix ==
    ASSUME NEW queue \in [Users -> Nat], NEW line, InLine(line, queue),
           NEW P \in SUBSET Waiting(queue),
           \A u \in P, v \in Waiting(queue) \ P : queue[u] < queue[v]
    PROVE  LET n == Cardinality(P)
               rest == SubSeq(line, n + 1, Len(line))
           IN  /\ n \in 0 .. Len(line)
               /\ P = ToSet(SubSeq(line, 1, n))
               /\ Ordered(rest, queue)
               /\ ToSet(rest) = Waiting(queue) \ P
<1> DEFINE n == Cardinality(P)
           m == Len(line)
           J == {i \in 1 .. m : line[i] \in P}
           first == SubSeq(line, 1, n)
           rest == SubSeq(line, n + 1, m)
<1>1. /\ line \in Seq(Users) /\ Ordered(line, queue)
      /\ Waiting(queue) = {line[k] : k \in 1 .. m}
      /\ m \in Nat
  BY LineMembers DEF InLine, Ordered
<1>2. \A k \in 1 .. m : line[k] \in Users /\ queue[line[k]] \in Nat
  BY <1>1, LineMembers
<1>3. \A i, j \in 1 .. m : line[i] = line[j] => i = j
  <2>1. 0 \in 0 .. m
    BY <1>1
  <2> QED
    BY <1>1, <2>1, LineLength
<1>4. IsFiniteSet(J) /\ J \in SUBSET (1 .. m)
  <2>1. J \in SUBSET (1 .. m)
    OBVIOUS
  <2>2. IsFiniteSet(1 .. m)
    BY <1>1, FS_Interval
  <2> HIDE DEF J
  <2> QED
    BY <2>1, <2>2, FS_Subset
<1>5. IsFiniteSet(P) /\ n = Cardinality(J)
  <2> DEFINE f == [i \in J |-> line[i]]
  <2>1. /\ f \in [J -> P]
        /\ \A i, j \in J : f[i] = f[j] => i = j
        /\ \A u \in P : \E i \in J : f[i] = u
    BY <1>1, <1>3
  <2> HIDE DEF f, J
  <2>2. f \in Bijection(J, P)
    BY <2>1 DEF Bijection, Injection, Surjection, IsInjective
  <2>3. ExistsBijection(J, P)
    BY <2>2 DEF ExistsBijection
  <2> QED
    BY <1>4, <2>3, FS_Bijection
<1>6. n \in Nat
  BY <1>5, FS_CardinalityType
<1>7. ASSUME NEW i \in J, NEW k \in 1 .. i
      PROVE  k \in J
  <2>1. k \in 1 .. m /\ line[k] \in Waiting(queue) /\ line[i] \in P
    BY <1>1
  <2>2. k = i \/ queue[line[k]] < queue[line[i]]
    BY <1>1, <2>1 DEF Ordered
  <2> QED
    BY <1>2, <2>1, <2>2
<1>8. J = 1 .. n
  <2>1. ASSUME NEW i \in J PROVE i <= n
    <3>1. 1 .. i \in SUBSET J
      BY <1>7
    <3>2. i \in Nat /\ Cardinality(1 .. i) = i
      BY <1>1, FS_Interval
    <3> QED
      BY <1>4, <1>5, <3>1, <3>2, FS_Subset
  <2>2. J \in SUBSET (1 .. n)
    BY <1>4, <1>6, <2>1
  <2>3. IsFiniteSet(1 .. n) /\ Cardinality(1 .. n) = n
    BY <1>6, FS_Interval
  <2> HIDE DEF J, n
  <2> QED
    BY <1>5, <2>2, <2>3, FS_Subset
<1>9. n <= m
  <2>1. n = 0 \/ n \in 1 .. n
    BY <1>6
  <2> QED
    BY <1>1, <1>4, <1>8, <2>1
<1> HIDE DEF n
<1>10. /\ P = {line[i] : i \in 1 .. n}
       /\ Waiting(queue) \ P = {line[i] : i \in n + 1 .. m}
  <2>1. \A i \in 1 .. m : line[i] \in P <=> i <= n
    BY <1>6, <1>8
  <2> QED
    BY <1>1, <1>6, <1>9, <2>1
<1>11. P = ToSet(first)
  <2>1. /\ first \in Seq(Users) /\ Len(first) = n
        /\ \A i \in 1 .. n : first[i] = line[i]
    BY <1>1, <1>2, <1>6, <1>9, SubSeqProperties
  <2> HIDE DEF first
  <2> QED
    BY <1>10, <2>1, LineMembers
<1>12. Ordered(rest, queue) /\ ToSet(rest) = Waiting(queue) \ P
  <2>1. /\ rest \in Seq(Users) /\ Len(rest) = m - n
        /\ \A i \in 1 .. m - n : rest[i] = line[i + n]
    BY <1>1, <1>2, <1>6, <1>9, SubSeqProperties
  <2> HIDE DEF rest
  <2>2. \A i \in 1 .. m - n : i + n \in n + 1 .. m /\ i + n \in 1 .. m
    BY <1>1, <1>6, <1>9
  <2>3. \A j \in n + 1 .. m : j - n \in 1 .. m - n /\ j - n + n = j
    BY <1>1, <1>6, <1>9
  <2>4. ToSet(rest) = Waiting(queue) \ P
    <3>1. ToSet(rest) = {rest[i] : i \in 1 .. m - n}
      BY <2>1, LineMembers
    <3>2. \A j \in n + 1 .. m : \E i \in 1 .. m - n : rest[i] = line[j]
      BY <2>1, <2>3
    <3>3. \A i \in 1 .. m - n : \E j \in n + 1 .. m : rest[i] = line[j]
      BY <2>1, <2>2
    <3> QED
      BY <1>10, <3>1, <3>2, <3>3
  <2>5. Ordered(rest, queue)
    <3>1. ASSUME NEW i \in 1 .. m - n, NEW j \in 1 .. m - n, i < j
          PROVE  queue[rest[i]] < queue[rest[j]]
      <4>1. i + n < j + n /\ i + n \in 1 .. m /\ j + n \in 1 .. m
        BY <1>6, <2>2, <3>1
      <4>2. queue[line[i + n]] < queue[line[j + n]]
        BY <1>1, <4>1 DEF Ordered
      <4> QED
        BY <2>1, <4>2
    <3> QED
      BY <2>1, <3>1 DEF Ordered
  <2> QED
    BY <2>4, <2>5
<1> QED
  BY <1>1, <1>6, <1>9, <1>11, <1>12 DEF n

\* A user who waits stands at one place of the line, and without the user the
\* others are in order.
LEMMA LineWithout ==
    ASSUME NEW queue \in [Users -> Nat], NEW line, InLine(line, queue),
           NEW u \in Waiting(queue)
    PROVE  \E i \in DOMAIN line :
                /\ line[i] = u
                /\ Ordered(RemoveAt(line, i), queue)
                /\ ToSet(RemoveAt(line, i)) = Waiting(queue) \ {u}
<1> DEFINE m == Len(line)
<1>1. /\ line \in Seq(Users) /\ Ordered(line, queue)
      /\ Waiting(queue) = {line[k] : k \in 1 .. m}
      /\ m \in Nat /\ DOMAIN line = 1 .. m
  BY LineMembers, LenProperties DEF InLine, Ordered
<1>2. \A k \in 1 .. m : line[k] \in Users
  BY <1>1, LineMembers
<1>3. \A i, j \in 1 .. m : line[i] = line[j] => i = j
  <2>1. 0 \in 0 .. m
    BY <1>1
  <2> QED
    BY <1>1, <2>1, LineLength
<1>4. PICK i \in 1 .. m : line[i] = u
  BY <1>1
<1> DEFINE ahead == SubSeq(line, 1, i - 1)
           behind == SubSeq(line, i + 1, m)
           rest == RemoveAt(line, i)
<1>5. /\ ahead \in Seq(Users) /\ Len(ahead) = i - 1
      /\ \A k \in 1 .. i - 1 : ahead[k] = line[k]
  <2>1. \A k \in 1 .. i - 1 : line[k] \in Users
    BY <1>1, <1>2
  <2> QED
    BY <1>1, <2>1, SubSeqProperties
<1>6. /\ behind \in Seq(Users) /\ Len(behind) = m - i
      /\ \A k \in 1 .. m - i : behind[k] = line[k + i]
  <2>1. \A k \in i + 1 .. m : line[k] \in Users
    BY <1>1, <1>2
  <2> QED
    <3>1. i + 1 \in Int /\ m \in Int /\ m - (i + 1) + 1 = m - i
      BY <1>1
    <3>2. /\ behind \in Seq(Users)
          /\ Len(behind) = IF i + 1 <= m THEN m - (i + 1) + 1 ELSE 0
          /\ \A k \in 1 .. m - (i + 1) + 1 : behind[k] = line[i + 1 + k - 1]
      BY <2>1, <3>1, SubSeqProperties
    <3>3. \A k \in 1 .. m - i : i + 1 + k - 1 = k + i /\ k \in 1 .. m - (i + 1) + 1
      BY <1>1
    <3> HIDE DEF behind
    <3>4. Len(behind) = m - i
      <4>1. Len(behind) = IF i + 1 <= m THEN m - (i + 1) + 1 ELSE 0
        BY <3>2
      <4>2. m \in Nat
        BY <1>1
      <4> QED
        BY <4>1, <4>2
    <3>5. \A k \in 1 .. m - i : behind[k] = line[k + i]
      BY <3>2, <3>3
    <3> QED
      BY <3>2, <3>4, <3>5
<1>7. rest = ahead \o behind
  BY DEF RemoveAt
<1> HIDE DEF ahead, behind, rest
<1>8. /\ rest \in Seq(Users) /\ Len(rest) = m - 1
      /\ \A k \in 1 .. m - 1 : rest[k] = IF k < i THEN line[k] ELSE line[k + 1]
  <2>1. /\ rest \in Seq(Users) /\ Len(rest) = i - 1 + (m - i)
        /\ \A k \in 1 .. i - 1 + (m - i) :
                rest[k] = IF k <= i - 1 THEN ahead[k] ELSE behind[k - (i - 1)]
    <3>1. /\ rest \in Seq(Users) /\ Len(rest) = Len(ahead) + Len(behind)
          /\ \A k \in 1 .. Len(ahead) + Len(behind) :
                rest[k] = IF k <= Len(ahead) THEN ahead[k] ELSE behind[k - Len(ahead)]
      BY <1>5, <1>6, <1>7, ConcatProperties
    <3> QED
      BY <1>5, <1>6, <3>1
  <2>2. Len(rest) = m - 1 /\ i - 1 + (m - i) = m - 1
    BY <1>1, <2>1
  <2>3. ASSUME NEW k \in 1 .. m - 1
        PROVE  rest[k] = IF k < i THEN line[k] ELSE line[k + 1]
    <3>1. CASE k < i
      <4>1. k <= i - 1 /\ k \in 1 .. i - 1 /\ k \in 1 .. i - 1 + (m - i)
        BY <1>1, <2>2, <3>1
      <4> QED
        BY <1>5, <2>1, <3>1, <4>1
    <3>2. CASE ~(k < i)
      <4>1. k - (i - 1) \in 1 .. m - i /\ k - (i - 1) + i = k + 1 /\ ~(k <= i - 1)
        BY <1>1, <3>2
      <4> QED
        BY <1>6, <2>1, <2>2, <3>2, <4>1
    <3> QED
      BY <3>1, <3>2
  <2> QED
    BY <2>1, <2>2, <2>3
<1>9. Ordered(rest, queue)
  <2>1. ASSUME NEW k \in 1 .. m - 1, NEW l \in 1 .. m - 1, k < l
        PROVE  queue[rest[k]] < queue[rest[l]]
    <3>1. k \in 1 .. m /\ k + 1 \in 1 .. m /\ l \in 1 .. m /\ l + 1 \in 1 .. m
          /\ k < l + 1 /\ k + 1 < l + 1 /\ (k < i \/ ~(l < i))
      BY <1>1, <2>1
    <3> QED
      BY <1>1, <1>8, <2>1, <3>1 DEF Ordered
  <2> QED
    BY <1>8, <2>1 DEF Ordered
<1>10. ToSet(rest) = Waiting(queue) \ {u}
  <2>1. ToSet(rest) = {rest[k] : k \in 1 .. m - 1}
    BY <1>8, LineMembers
  <2>2. ASSUME NEW k \in 1 .. m - 1 PROVE rest[k] \in Waiting(queue) \ {u}
    <3>1. k \in 1 .. m /\ k + 1 \in 1 .. m /\ (k + 1 # i \/ k < i)
      BY <1>1
    <3> QED
      BY <1>1, <1>3, <1>4, <1>8
  <2>3. ASSUME NEW k \in 1 .. m, k # i PROVE \E l \in 1 .. m - 1 : line[k] = rest[l]
    <3>1. CASE k < i
      <4>1. k \in 1 .. m - 1
        BY <1>1, <3>1
      <4> QED
        BY <1>8, <3>1, <4>1
    <3>2. CASE i < k
      <4>1. k - 1 \in 1 .. m - 1 /\ ~(k - 1 < i) /\ k - 1 + 1 = k
        BY <1>1, <3>2
      <4> QED
        BY <1>8, <4>1
    <3> QED
      BY <1>1, <2>3, <3>1, <3>2
  <2> QED
    BY <1>1, <1>4, <2>1, <2>2, <2>3
<1> QED
  BY <1>1, <1>4, <1>9, <1>10 DEF rest

\* A user who comes behind everybody is the last of the line.
LEMMA LineEnd ==
    ASSUME NEW queue \in [Users -> Nat], NEW line, Ordered(line, queue),
           NEW u \in Users, \A v \in ToSet(line) : queue[v] < queue[u]
    PROVE  /\ Ordered(Append(line, u), queue)
           /\ ToSet(Append(line, u)) = ToSet(line) \union {u}
<1> DEFINE m == Len(line)
           longer == Append(line, u)
<1>1. /\ line \in Seq(Users) /\ m \in Nat
      /\ ToSet(line) = {line[k] : k \in 1 .. m}
  BY LineMembers DEF Ordered
<1>2. /\ longer \in Seq(Users) /\ Len(longer) = m + 1
      /\ \A k \in 1 .. m : longer[k] = line[k]
      /\ longer[m + 1] = u
  BY <1>1, AppendProperties
<1> HIDE DEF longer
<1>3. ToSet(longer) = {longer[k] : k \in 1 .. m + 1}
  BY <1>2, LineMembers
<1>4. 1 .. m + 1 = (1 .. m) \union {m + 1}
  BY <1>1
<1>5. Ordered(longer, queue)
  <2>1. ASSUME NEW i \in 1 .. m + 1, NEW j \in 1 .. m + 1, i < j
        PROVE  queue[longer[i]] < queue[longer[j]]
    <3>1. i \in 1 .. m /\ (j \in 1 .. m \/ j = m + 1)
      BY <1>1, <2>1
    <3> QED
      BY <1>1, <1>2, <2>1, <3>1 DEF Ordered
  <2> QED
    BY <1>2, <2>1 DEF Ordered
<1> QED
  BY <1>1, <1>2, <1>3, <1>4, <1>5 DEF longer

------------------------------------------------------------------------------
(* Each operation is a step of the book.                                   *)

LEMMA BookState ==
    ASSUME IInv
    PROVE  /\ TypeOK /\ SoundNow
           /\ InLine(WaitlistInOrder, position)
           /\ Ordered(WaitlistInOrder, position)
           /\ WaitlistInOrder \in Seq(Users)
           /\ ToSet(WaitlistInOrder) = Waiting(position)
           /\ Len(WaitlistInOrder) = Cardinality(Waiting(position))
           /\ Cardinality(confirmed) = reservedSeats
           /\ reservedSeats \in Nat /\ capacity \in Nat /\ reservedSeats <= capacity
<1>1. TypeOK /\ SoundNow /\ reservedSeats \in Nat /\ capacity \in Nat
  BY Unfold
<1>2. InLine(WaitlistInOrder, position)
  BY <1>1, LineExists DEF SoundNow, Sound, WaitlistInOrder
<1>3. Len(WaitlistInOrder) = Cardinality(Waiting(position))
  BY <1>1, <1>2, LineUnique DEF SoundNow, Sound
<1> QED
  BY <1>1, <1>2, <1>3 DEF InLine, Ordered, SoundNow, Sound

\* Settling leaves those who were not promoted in their order.
LEMMA SettleKeepsOrder ==
    ASSUME NEW seats, NEW seated, NEW queue, NEW gone, NEW cap \in Nat, NEW Excluded,
           Sound(seats, seated, queue, gone, cap),
           NEW P \in PromotionSets(queue, cap - seats, Excluded),
           Settle(P, seats, seated, queue, gone)
    PROVE  /\ queue \in [Users -> Nat] /\ position' \in [Users -> Nat]
           /\ Waiting(position') = Waiting(queue) \ P
           /\ \A u, v \in Waiting(position') :
                queue[u] < queue[v] => position'[u] < position'[v]
<1>1. /\ queue \in [Users -> Nat] /\ position' \in [Users -> Nat]
      /\ Waiting(position') = Waiting(queue) \ P
  <2>1. Sound(reservedSeats', confirmed', position', retired', cap)
        /\ Waiting(position') = Waiting(queue) \ P
    BY SettleSound
  <2> QED
    BY <2>1 DEF Sound
<1>2. position' = queue \/ position' = Resequenced(queue, P)
  BY DEF Settle
<1>3. \A u, v \in Waiting(queue) \ P :
        queue[u] < queue[v] => Resequenced(queue, P)[u] < Resequenced(queue, P)[v]
  BY <1>1, ResequencedOrder
<1> QED
  BY <1>1, <1>2, <1>3

\* The number of users a promotion takes.
LEMMA PromotionSize ==
    ASSUME NEW queue, NEW free \in Nat, NEW Excluded,
           NEW P \in PromotionSets(queue, free, Excluded)
    PROVE  /\ Cardinality(P) = Smaller(free, Cardinality(Waiting(queue) \ Excluded))
           /\ \A u \in P, v \in (Waiting(queue) \ Excluded) \ P : queue[u] < queue[v]
BY DEF PromotionSets

\* A promotion from the whole waitlist serves the first of the line, as many as
\* there are free seats, and leaves the others in line.
LEMMA PromotionServes ==
    ASSUME IInv, NEW seats, NEW seated, seats \in Nat, capacity' \in Nat,
           Sound(seats, seated, position, retired, capacity'),
           NEW P \in PromotionSets(position, capacity' - seats, {}),
           Settle(P, seats, seated, position, retired)
    PROVE  LET n == Smaller(capacity' - seats, Len(WaitlistInOrder))
           IN  /\ confirmed' = seated \union ToSet(SubSeq(WaitlistInOrder, 1, n))
               /\ WaitlistInOrder' = SubSeq(WaitlistInOrder, n + 1, Len(WaitlistInOrder))
<1> DEFINE line == WaitlistInOrder
           n == Smaller(capacity' - seats, Len(line))
           rest == SubSeq(line, n + 1, Len(line))
<1>1. /\ InLine(line, position) /\ Len(line) = Cardinality(Waiting(position))
      /\ TypeOK
  BY BookState
<1> HIDE DEF line
<1>2. capacity' - seats \in Nat
  BY DEF Sound
<1>3. Waiting(position) \ {} = Waiting(position)
  OBVIOUS
<1>4. /\ Cardinality(P) = n
      /\ \A u \in P, v \in Waiting(position) \ P : position[u] < position[v]
  <2>1. /\ Cardinality(P) = Smaller(capacity' - seats, Cardinality(Waiting(position) \ {}))
        /\ \A u \in P, v \in (Waiting(position) \ {}) \ P : position[u] < position[v]
    BY <1>2, PromotionSize
  <2> QED
    BY <1>1, <1>3, <2>1
<1>5. /\ confirmed' = seated \union P
      /\ P \in SUBSET Waiting(position)
  BY <1>3, SettleSound
<1>6. /\ position \in [Users -> Nat] /\ position' \in [Users -> Nat]
      /\ Waiting(position') = Waiting(position) \ P
      /\ \A u, v \in Waiting(position') : position[u] < position[v] => position'[u] < position'[v]
  BY SettleKeepsOrder
<1> HIDE DEF n
<1>7. /\ P = ToSet(SubSeq(line, 1, n))
      /\ Ordered(rest, position)
      /\ ToSet(rest) = Waiting(position')
  BY <1>1, <1>4, <1>5, <1>6, LinePrefix
<1> HIDE DEF rest
<1>8. rest = InOrder(position')
  BY <1>6, <1>7, Relined
<1> QED
  BY <1>5, <1>7, <1>8 DEF WaitlistInOrder, line, n, rest

\* What SeatBook says of numbers and sequences, in the words of the ledger.
LEMMA BookWords ==
    /\ \A a, b : Book!Lesser(a, b) = Smaller(a, b)
    /\ \A s : Book!ToSet(s) = ToSet(s)
    /\ \A s, i : Book!RemoveAt(s, i) = RemoveAt(s, i)
    /\ \A S : Book!Cardinality(S) = Cardinality(S)
<1>1. \A S : Book!Cardinality(S) = Cardinality(S)
  BY DEF Book!Cardinality, Cardinality
<1> QED
  BY <1>1 DEF Book!Lesser, Smaller, Book!ToSet, ToSet, Book!RemoveAt, RemoveAt

\* A user who does not stand in the book.
LEMMA BookOutside ==
    ASSUME IInv, NEW u \in Users, NoMembership(u)
    PROVE  u \in Book!Outside
<1>1. ToSet(WaitlistInOrder) = Waiting(position)
  BY BookState
<1> QED
  BY <1>1, BookWords DEF Book!Outside, NoMembership, Waiting

\* Taking a free seat: register and add_participant.
LEMMA TakeSeatSits ==
    ASSUME IInv, NEW u \in Users, NoMembership(u), HasFreeSeat, TakeSeat(u),
           UNCHANGED <<capacity, position>>
    PROVE  Book!Sit(u)
<1>1. /\ WaitlistInOrder \in Seq(Users) /\ Cardinality(confirmed) = reservedSeats
      /\ Len(WaitlistInOrder) \in Nat
  BY BookState, LineMembers
<1>2. u \in Book!Outside
  BY BookOutside
<1>3. WaitlistInOrder' = WaitlistInOrder
  BY DEF WaitlistInOrder
<1>4. SubSeq(WaitlistInOrder, 0 + 1, Len(WaitlistInOrder)) = WaitlistInOrder
  BY <1>1, SubSeqFull
<1>5. SubSeq(WaitlistInOrder, 1, 0) = << >>
  BY SubSeqEmpty
<1>6. ToSet(<< >>) = {}
  BY DEF ToSet
<1> QED
  BY <1>1, <1>2, <1>3, <1>4, <1>5, <1>6, BookWords
  DEF Book!Sit, Book!Serve, HasFreeSeat, TakeSeat

\* Joining the waitlist: register without a free seat and add_participant.
LEMMA EnqueueJoins ==
    ASSUME IInv, NEW u \in Users, NoMembership(u), Enqueue(u), UNCHANGED capacity
    PROVE  Book!Join(u)
<1> DEFINE line == WaitlistInOrder
<1>1. /\ TypeOK /\ SoundNow /\ Ordered(line, position)
      /\ line \in Seq(Users) /\ ToSet(line) = Waiting(position)
  BY BookState
<1>2. PICK p \in 1 .. MaxPosition :
        IsNextPosition(p, position, retired) /\ position' = [position EXCEPT ![u] = p]
  BY DEF Enqueue
<1>3. p \in Nat /\ p > 0 /\ \A v \in Users : position[v] < p
  BY <1>1, <1>2, MaxPositionAssumption DEF IsNextPosition, TypeOK
<1>4. /\ position' \in [Users -> Nat]
      /\ Waiting(position') = Waiting(position) \union {u}
  BY <1>1, <1>2, <1>3 DEF TypeOK, Waiting
<1>5. \A v \in Users \ {u} : position'[v] = position[v]
  BY <1>1, <1>2 DEF TypeOK
<1>6. position'[u] = p /\ u \notin Waiting(position)
  BY <1>1, <1>2 DEF TypeOK, NoMembership, Waiting
<1> HIDE DEF line
<1>7. Ordered(line, position')
  BY <1>1, <1>5, <1>6, LineMembers DEF Ordered
<1>8. \A v \in ToSet(line) : position'[v] < position'[u]
  BY <1>1, <1>3, <1>5, <1>6, WaitingFinite
<1>9. Ordered(Append(line, u), position') /\ ToSet(Append(line, u)) = Waiting(position')
  BY <1>1, <1>4, <1>7, <1>8, LineEnd
<1>10. Append(line, u) = WaitlistInOrder'
  BY <1>4, <1>9, Relined DEF WaitlistInOrder
<1> QED
  BY <1>10, BookOutside DEF Book!Join, Enqueue, line

\* Leaving the waitlist: cancel, remove_participant and move_participant.
LEMMA LeaveQueueStepsOut ==
    ASSUME IInv, NEW u \in Users, position[u] > 0, LeaveQueue(u)
    PROVE  Book!StepOut(u)
<1> DEFINE line == WaitlistInOrder
<1>1. TypeOK /\ SoundNow /\ InLine(line, position)
  BY BookState
<1>2. position \in [Users -> Nat] /\ u \in Waiting(position)
  BY <1>1 DEF TypeOK, Waiting
<1> HIDE DEF line
<1>3. PICK i \in DOMAIN line :
        /\ line[i] = u
        /\ Ordered(RemoveAt(line, i), position)
        /\ ToSet(RemoveAt(line, i)) = Waiting(position) \ {u}
  BY <1>1, <1>2, LineWithout
<1>4. /\ position' \in [Users -> Nat]
      /\ Waiting(position') = Waiting(position) \ {u}
  BY <1>1, LeaveQueueRows
<1>5. \A v, w \in Waiting(position') :
        position[v] < position[w] => position'[v] < position'[w]
  BY <1>2, <1>4, ResequencedOrder DEF LeaveQueue
<1>6. RemoveAt(line, i) = WaitlistInOrder'
  BY <1>2, <1>3, <1>4, <1>5, Relined DEF WaitlistInOrder
<1> QED
  BY <1>3, <1>6, BookWords DEF Book!StepOut, line

\* Giving up a seat, in the words of the ledger.
LEMMA VacateBy ==
    ASSUME IInv, NEW u \in confirmed, NEW demoted \in BOOLEAN, NEW n \in Nat,
           NEW tail, tail = IF demoted THEN <<u>> ELSE << >>,
           LET line == WaitlistInOrder
               room == capacity - (reservedSeats - 1)
           IN  /\ Smaller(1, Len(line)) <= n
               /\ n <= Smaller(room, Len(line))
               /\ confirmed' = (confirmed \ {u}) \union ToSet(SubSeq(line, 1, n))
               /\ WaitlistInOrder' = SubSeq(line, n + 1, Len(line)) \o tail,
           UNCHANGED capacity
    PROVE  Book!Vacate(u, demoted)
<1> DEFINE line == WaitlistInOrder
           low == Smaller(1, Len(line))
           high == Smaller(capacity - Cardinality(confirmed) + 1, Len(line))
<1>1. /\ Cardinality(confirmed) = reservedSeats /\ line \in Seq(Users)
      /\ reservedSeats \in Nat /\ capacity \in Nat /\ reservedSeats <= capacity
  BY BookState
<1>2. Len(line) \in Nat
  BY <1>1, LineMembers
<1>3. capacity - Cardinality(confirmed) + 1 = capacity - (reservedSeats - 1)
  BY <1>1
<1>4. low \in Int /\ high \in Int
  BY <1>1, <1>2 DEF Smaller
<1>5. n \in low .. high
  BY <1>3, <1>4
<1> HIDE DEF low, high
<1> QED
  BY <1>5, BookWords DEF Book!Vacate, line, low, high

\* What is left of the line is a line of users.
LEMMA RestIsLine ==
    ASSUME NEW line \in Seq(Users), NEW n \in Nat
    PROVE  /\ SubSeq(line, n + 1, Len(line)) \in Seq(Users)
           /\ SubSeq(line, n + 1, Len(line)) \o << >> = SubSeq(line, n + 1, Len(line))
<1>1. Len(line) \in Nat /\ \A i \in 1 .. Len(line) : line[i] \in Users
  BY LineMembers
<1>2. n + 1 \in Int /\ Len(line) \in Int /\ \A i \in n + 1 .. Len(line) : line[i] \in Users
  BY <1>1
<1>3. SubSeq(line, n + 1, Len(line)) \in Seq(Users)
  BY <1>2, SubSeqProperties
<1> QED
  BY <1>3, ConcatEmptySeq

\* The numbers of users promoted into a vacated seat.
LEMMA VacateBounds ==
    ASSUME IInv
    PROVE  LET room == capacity - (reservedSeats - 1)
               n == Smaller(room, Len(WaitlistInOrder))
           IN  /\ room \in Nat /\ room >= 1
               /\ n \in Nat
               /\ Smaller(1, Len(WaitlistInOrder)) <= n
<1>1. /\ WaitlistInOrder \in Seq(Users)
      /\ reservedSeats \in Nat /\ capacity \in Nat /\ reservedSeats <= capacity
  BY BookState
<1>2. Len(WaitlistInOrder) \in Nat
  BY <1>1, LineMembers
<1> QED
  BY <1>1, <1>2 DEF Smaller

\* cancel of a reservation: at most the head of the waitlist gets the seat.
LEMMA CancelReservationVacates ==
    ASSUME IInv, NEW u \in Users, NEW override \in BOOLEAN,
           CancelReservation(u, override)
    PROVE  Book!Vacate(u, FALSE)
<1> DEFINE line == WaitlistInOrder
           room == capacity - (reservedSeats - 1)
<1>1. /\ TypeOK /\ SoundNow /\ InLine(line, position) /\ line \in Seq(Users)
      /\ ToSet(line) = Waiting(position) /\ Len(line) = Cardinality(Waiting(position))
      /\ reservedSeats \in Nat /\ capacity \in Nat /\ reservedSeats <= capacity
  BY BookState
<1>2. u \in confirmed /\ capacity' = capacity
  BY DEF CancelReservation
<1>3. position \in [Users -> Nat] /\ Len(line) \in Nat
  BY <1>1, LineMembers DEF TypeOK
<1> HIDE DEF line
<1>4. ASSUME NEW next \in Users, IsFirst(next, position),
             confirmed' = (confirmed \ {u}) \union {next},
             position' = [position EXCEPT ![next] = 0]
      PROVE  Book!Vacate(u, FALSE)
  <2>1. /\ {next} \in SUBSET Waiting(position)
        /\ \A a \in {next}, v \in Waiting(position) \ {next} : position[a] < position[v]
    <3>1. \A v \in Waiting(position) \ {next} :
            position[next] <= position[v] /\ position[next] # position[v]
      BY <1>1, <1>4 DEF IsFirst, SoundNow, Sound, Distinct
    <3>2. \A v \in Waiting(position) : position[v] \in Nat
      BY <1>3, WaitingFinite
    <3> QED
      BY <1>4, <3>1, <3>2 DEF IsFirst
  <2>2. Cardinality({next}) = 1
    BY FS_Singleton
  <2>3. /\ 1 \in 0 .. Len(line)
        /\ {next} = ToSet(SubSeq(line, 1, 1))
        /\ Ordered(SubSeq(line, 1 + 1, Len(line)), position)
        /\ ToSet(SubSeq(line, 1 + 1, Len(line))) = Waiting(position) \ {next}
    BY <1>1, <1>3, <2>1, <2>2, LinePrefix
  <2>4. /\ position' \in [Users -> Nat]
        /\ Waiting(position') = Waiting(position) \ {next}
        /\ \A v \in Waiting(position') : position'[v] = position[v]
    BY <1>3, <1>4 DEF Waiting
  <2>5. WaitlistInOrder' = SubSeq(line, 1 + 1, Len(line)) \o << >>
    <3>1. SubSeq(line, 1 + 1, Len(line)) = InOrder(position')
      BY <1>3, <2>3, <2>4, Relined
    <3> QED
      BY <1>1, <3>1, RestIsLine DEF WaitlistInOrder
  <2>6. Smaller(1, Len(line)) <= 1 /\ 1 <= Smaller(room, Len(line))
    BY <1>1, <1>3, <2>3 DEF Smaller
  <2> QED
    BY <1>2, <1>4, <2>3, <2>5, <2>6, VacateBy DEF line
<1>5. CASE /\ Waiting(position) = {} \/ reservedSeats - 1 >= capacity
           /\ confirmed' = confirmed \ {u}
           /\ UNCHANGED waitlistVars
  <2>1. Len(line) = 0
    <3>1. Waiting(position) = {}
      BY <1>1, <1>5
    <3> QED
      BY <1>1, <3>1, FS_EmptySet
  <2>2. SubSeq(line, 0 + 1, Len(line)) = line /\ SubSeq(line, 1, 0) = << >>
    BY <1>1, SubSeqFull, SubSeqEmpty
  <2>3. ToSet(<< >>) = {}
    BY DEF ToSet
  <2>4. WaitlistInOrder' = SubSeq(line, 0 + 1, Len(line)) \o << >>
    <3>1. WaitlistInOrder' = line
      BY <1>5 DEF WaitlistInOrder, waitlistVars, line
    <3> QED
      BY <1>1, <2>2, <3>1, ConcatEmptySeq
  <2>5. Smaller(1, Len(line)) <= 0 /\ 0 <= Smaller(room, Len(line))
    BY <1>1, <2>1 DEF Smaller
  <2> QED
    BY <1>2, <1>5, <2>2, <2>3, <2>4, <2>5, VacateBy DEF line
<1> QED
  BY <1>4, <1>5 DEF CancelReservation

\* remove_participant of a confirmed user.
LEMMA RemoveConfirmedVacates ==
    ASSUME IInv, NEW u \in Users, NEW t, RemoveConfirmed(u, t)
    PROVE  Book!Vacate(u, FALSE)
<1> DEFINE line == WaitlistInOrder
           room == capacity - (reservedSeats - 1)
           n == Smaller(room, Len(line))
<1>1. /\ TypeOK /\ SoundNow /\ line \in Seq(Users)
      /\ reservedSeats \in Nat /\ capacity \in Nat
  BY BookState
<1>2. u \in confirmed /\ capacity' = capacity
  BY DEF RemoveConfirmed
<1>3. Cardinality(confirmed \ {u}) = reservedSeats - 1
  BY <1>1, <1>2, DropSeat DEF SoundNow, Sound
<1>4. Sound(reservedSeats - 1, confirmed \ {u}, position, retired, capacity')
  BY <1>1, <1>2, <1>3 DEF SoundNow, Sound
<1>5. reservedSeats - 1 \in Nat
  BY <1>4, UserSets DEF Sound
<1>6. PICK P \in PromotionSets(position, capacity' - (reservedSeats - 1), {}) :
        Settle(P, reservedSeats - 1, confirmed \ {u}, position, retired)
  BY <1>2 DEF RemoveConfirmed
<1>7. /\ confirmed' = (confirmed \ {u}) \union ToSet(SubSeq(line, 1, n))
      /\ WaitlistInOrder' = SubSeq(line, n + 1, Len(line))
  BY <1>1, <1>2, <1>4, <1>5, <1>6, PromotionServes
<1>8. n \in Nat /\ Smaller(1, Len(line)) <= n
  BY VacateBounds
<1> HIDE DEF n
<1>9. SubSeq(line, n + 1, Len(line)) \o << >> = SubSeq(line, n + 1, Len(line))
  BY <1>1, <1>8, RestIsLine
<1>10. Smaller(1, Len(line)) <= n /\ n <= Smaller(room, Len(line))
  BY <1>8 DEF n
<1>11. << >> = IF FALSE THEN <<u>> ELSE << >>
  OBVIOUS
<1> HIDE DEF line
<1> QED
  BY <1>2, <1>7, <1>8, <1>9, <1>10, <1>11, VacateBy DEF line

\* move_participant to the waitlist: the user is the last of the line, and the
\* first of those who waited before get the seat.
LEMMA MoveToWaitlistVacates ==
    ASSUME IInv, NEW u \in Users, NEW t, MoveToWaitlist(u, t)
    PROVE  Book!Vacate(u, TRUE)
<1> DEFINE line == WaitlistInOrder
           room == capacity - (reservedSeats - 1)
           n == Smaller(room, Len(line))
           rest == SubSeq(line, n + 1, Len(line))
<1>1. /\ TypeOK /\ SoundNow /\ InLine(line, position) /\ line \in Seq(Users)
      /\ ToSet(line) = Waiting(position) /\ Len(line) = Cardinality(Waiting(position))
      /\ reservedSeats \in Nat /\ capacity \in Nat
  BY BookState
<1>2. u \in confirmed /\ capacity' = capacity /\ position[u] = 0
  BY DEF MoveToWaitlist
<1>3. PICK p \in 1 .. MaxPosition :
        /\ IsNextPosition(p, position, retired)
        /\ \E P \in PromotionSets([position EXCEPT ![u] = p], room, {u}) :
              Settle(P, reservedSeats - 1, confirmed \ {u}, [position EXCEPT ![u] = p], retired)
  BY DEF MoveToWaitlist
<1>4. p \in Nat /\ p > 0 /\ \A v \in Users : p > position[v]
  BY <1>3, MaxPositionAssumption DEF IsNextPosition
<1> DEFINE queue == [position EXCEPT ![u] = p]
<1>5. PICK P \in PromotionSets(queue, capacity' - (reservedSeats - 1), {u}) :
        Settle(P, reservedSeats - 1, confirmed \ {u}, queue, retired)
  BY <1>2, <1>3
<1>6. /\ queue \in [Users -> Nat] /\ Distinct(queue)
      /\ Waiting(queue) = Waiting(position) \union {u}
  <2>1. /\ position \in [Users -> Nat] /\ Distinct(position)
        /\ retired \in Nat
    BY <1>1 DEF SoundNow, Sound
  <2>2. queue \in [Users -> Nat] /\ Distinct(queue)
    BY <1>3, <1>4, <2>1, NextPositionDistinct
  <2>3. Waiting(queue) = Waiting(position) \union {u}
    BY <1>4, <2>1 DEF Waiting
  <2> QED
    BY <2>2, <2>3
<1>7. /\ position \in [Users -> Nat]
      /\ queue[u] = p /\ u \notin Waiting(position)
      /\ \A v \in Waiting(position) : queue[v] = position[v] /\ queue[v] < p
  BY <1>1, <1>2, <1>4 DEF TypeOK, Waiting
<1>8. Sound(reservedSeats - 1, confirmed \ {u}, queue, retired, capacity')
  <2>1. Cardinality(confirmed \ {u}) = reservedSeats - 1
    BY <1>1, <1>2, DropSeat DEF SoundNow, Sound
  <2>2. (confirmed \ {u}) \cap Waiting(queue) = {}
    BY <1>1, <1>6 DEF SoundNow, Sound
  <2> HIDE DEF queue
  <2> QED
    BY <1>1, <1>2, <1>6, <2>1, <2>2 DEF SoundNow, Sound, TypeOK, Capacities
<1>9. n \in Nat /\ Smaller(1, Len(line)) <= n /\ room \in Nat
  BY VacateBounds
<1> HIDE DEF queue, line, room
<1>10. /\ confirmed' = (confirmed \ {u}) \union P
       /\ P \in SUBSET Waiting(position)
       /\ Waiting(queue) \ {u} = Waiting(position)
  <2>1. capacity' \in Nat
    BY <1>1, <1>2
  <2>2. confirmed' = (confirmed \ {u}) \union P /\ P \in SUBSET (Waiting(queue) \ {u})
    BY <1>5, <1>8, <2>1, SettleSound
  <2> QED
    BY <1>6, <1>7, <2>2
<1>11. /\ Cardinality(P) = n
       /\ \A a \in P, v \in Waiting(position) \ P : position[a] < position[v]
  <2>1. capacity' - (reservedSeats - 1) = room
    BY <1>2 DEF room
  <2>2. /\ Cardinality(P) = Smaller(room, Cardinality(Waiting(queue) \ {u}))
        /\ \A a \in P, v \in (Waiting(queue) \ {u}) \ P : queue[a] < queue[v]
    <3>1. P \in PromotionSets(queue, room, {u})
      BY <2>1
    <3> QED
      BY <1>9, <3>1, PromotionSize
  <2> QED
    BY <1>1, <1>7, <1>10, <2>2
<1>12. /\ P = ToSet(SubSeq(line, 1, n))
       /\ Ordered(rest, position)
       /\ ToSet(rest) = Waiting(position) \ P
  <2> HIDE DEF n
  <2> QED
    BY <1>1, <1>7, <1>10, <1>11, LinePrefix
<1> HIDE DEF n
<1>13. Ordered(rest, queue) /\ rest \in Seq(Users)
  <2> HIDE DEF rest
  <2>1. \A i \in 1 .. Len(rest) : rest[i] \in Waiting(position)
    BY <1>12, LineMembers DEF Ordered
  <2> QED
    BY <1>7, <1>12, <2>1 DEF Ordered
<1>14. /\ Ordered(Append(rest, u), queue)
       /\ ToSet(Append(rest, u)) = Waiting(queue) \ P
  <2> HIDE DEF rest
  <2>1. \A v \in ToSet(rest) : queue[v] < queue[u]
    BY <1>7, <1>12
  <2>2. /\ Ordered(Append(rest, u), queue)
        /\ ToSet(Append(rest, u)) = ToSet(rest) \union {u}
    BY <1>6, <1>13, <2>1, LineEnd
  <2>3. u \notin P
    BY <1>7, <1>10
  <2> QED
    BY <1>6, <1>12, <2>2, <2>3
<1>15. Append(rest, u) = InOrder(position')
  <2>1. /\ queue \in [Users -> Nat] /\ position' \in [Users -> Nat]
        /\ Waiting(position') = Waiting(queue) \ P
        /\ \A a, v \in Waiting(position') : queue[a] < queue[v] => position'[a] < position'[v]
    BY <1>1, <1>2, <1>5, <1>8, SettleKeepsOrder
  <2> HIDE DEF rest
  <2> QED
    BY <1>14, <2>1, Relined
<1>16. WaitlistInOrder' = rest \o <<u>>
  BY <1>13, <1>15, AppendIsConcat DEF WaitlistInOrder
<1>17. Smaller(1, Len(line)) <= n /\ n <= Smaller(room, Len(line))
  BY <1>9 DEF n
<1>18. <<u>> = IF TRUE THEN <<u>> ELSE << >>
  OBVIOUS
<1> QED
  BY <1>2, <1>9, <1>10, <1>12, <1>16, <1>17, <1>18, VacateBy DEF line, room

\* A change of the number of seats, or none with registration reopened.
LEMMA PromotionResizes ==
    ASSUME IInv, capacity' \in Capacities, capacity' >= reservedSeats,
           NEW P \in PromotionSets(position, capacity' - reservedSeats, {}),
           Settle(P, reservedSeats, confirmed, position, retired)
    PROVE  Book!Resize(capacity')
<1> DEFINE line == WaitlistInOrder
           n == Smaller(capacity' - reservedSeats, Len(line))
<1>1. /\ SoundNow /\ reservedSeats \in Nat /\ Cardinality(confirmed) = reservedSeats
  BY BookState
<1>2. capacity' \in Nat
  BY DEF Capacities
<1>3. Sound(reservedSeats, confirmed, position, retired, capacity')
  BY <1>1, <1>2 DEF SoundNow, Sound
<1>4. /\ confirmed' = confirmed \union ToSet(SubSeq(line, 1, n))
      /\ WaitlistInOrder' = SubSeq(line, n + 1, Len(line))
  BY <1>1, <1>2, <1>3, PromotionServes
<1>5. n = Smaller(capacity' - Cardinality(confirmed), Len(line))
  BY <1>1
<1>6. capacity' >= Cardinality(confirmed)
  BY <1>1
<1> HIDE DEF line, n
<1> QED
  BY <1>4, <1>5, <1>6, BookWords DEF Book!Resize, Book!Serve, line

\* The line is empty when nobody waits.
LEMMA EmptyLine ==
    ASSUME NEW queue \in [Users -> Nat], Waiting(queue) = {}
    PROVE  << >> = InOrder(queue)
<1>1. << >> \in Seq(Users) /\ Len(<< >>) = 0
  BY EmptySeq
<1>2. 1 .. Len(<< >>) = {}
  BY <1>1
<1>3. ToSet(<< >>) = {}
  BY <1>1, <1>2, LenProperties DEF ToSet
<1>4. Ordered(<< >>, queue)
  BY <1>1, <1>2 DEF Ordered
<1> QED
  BY <1>3, <1>4, Relined

\* cancel_event
LEMMA CancelEventClears ==
    ASSUME IInv, NEW t, CancelEvent(t)
    PROVE  Book!Clear
<1>1. confirmed' = {} /\ capacity' = capacity /\ position' = [u \in Users |-> 0]
  BY DEF CancelEvent
<1>2. /\ position' \in [Users -> Nat] /\ Waiting(position') = {}
  BY <1>1 DEF Waiting
<1>3. << >> = WaitlistInOrder'
  BY <1>2, EmptyLine DEF WaitlistInOrder
<1> QED
  BY <1>1, <1>3 DEF Book!Clear

\* A draft that was just saved is an empty book.
LEMMA BookInitially ==
    ASSUME Init
    PROVE  Book!BookInit
<1>1. /\ position \in [Users -> Nat] /\ Waiting(position) = {}
  BY DEF Init, Waiting
<1>2. << >> = WaitlistInOrder
  BY <1>1, EmptyLine DEF WaitlistInOrder
<1> QED
  BY <1>2 DEF Book!BookInit, Init, Capacities

\* Every step of the ledger is a step of the book, or leaves it alone.
LEMMA BookStep ==
    ASSUME IInv, [Next]_vars
    PROVE  [Book!BookNext]_(Book!bookVars)
<1>1. /\ TypeOK /\ SoundNow /\ reservedSeats \in Nat /\ capacity \in Nat
      /\ reservedSeats <= capacity /\ Cardinality(confirmed) = reservedSeats
  BY BookState
<1>2. ASSUME UNCHANGED <<capacity, confirmed, position>>
      PROVE  UNCHANGED Book!bookVars
  BY <1>2 DEF Book!bookVars, WaitlistInOrder
<1>3. ASSUME NEW u \in Users, CancelWaitlistEntry(u)
      PROVE  Book!Leave(u)
  BY <1>3, LeaveQueueStepsOut DEF CancelWaitlistEntry, Book!Leave
<1>4. CASE RegistrationStep
  <2>1. PICK u \in Users :
          \/ Register(u)
          \/ \E override \in BOOLEAN : CancelReservation(u, override)
          \/ CancelWaitlistEntry(u)
    BY <1>4 DEF RegistrationStep
  <2>2. CASE Register(u)
    <3>1. Book!Sit(u) \/ Book!Join(u)
      BY <2>2, TakeSeatSits, EnqueueJoins DEF Register, waitlistVars
    <3> QED
      BY <3>1 DEF Book!BookNext
  <2>3. CASE \E override \in BOOLEAN : CancelReservation(u, override)
    BY <2>3, CancelReservationVacates DEF Book!BookNext
  <2>4. CASE CancelWaitlistEntry(u)
    BY <1>3, <2>4 DEF Book!BookNext
  <2> QED
    BY <2>1, <2>2, <2>3, <2>4
<1>5. CASE AdminStep
  <2>1. PICK t \in Readings :
          Plain(t) \/ Promoting(t) \/ \E u \in Users : MoveToWaitlist(u, t)
    BY <1>5, AdminCases
  <2>2. CASE UpdateEventFields(t) \/ CloseRegistration(t)
    BY <1>2, <2>2 DEF UpdateEventFields, CloseRegistration, waitlistVars
  <2>3. CASE CancelEvent(t)
    BY <2>3, CancelEventClears DEF Book!BookNext
  <2>4. ASSUME NEW u \in Users, AddConfirmed(u, t)
        PROVE  Book!Sit(u)
    BY <2>4, TakeSeatSits DEF AddConfirmed, waitlistVars
  <2>5. ASSUME NEW u \in Users, AddWaitlisted(u, t)
        PROVE  Book!Join(u)
    BY <2>5, EnqueueJoins DEF AddWaitlisted
  <2>6. ASSUME NEW u \in Users, RemoveWaitlisted(u, t)
        PROVE  Book!Leave(u)
    BY <1>3, <2>6 DEF RemoveWaitlisted
  <2>7. ASSUME NEW u \in Users, MoveToConfirmed(u, t)
        PROVE  Book!Invite(u)
    <3>1. Book!StepOut(u)
      BY <2>7, LeaveQueueStepsOut DEF MoveToConfirmed
    <3>2. Cardinality(confirmed) < capacity /\ confirmed' = confirmed \union {u}
          /\ capacity' = capacity
      BY <1>1, <2>7 DEF MoveToConfirmed, HasFreeSeat, TakeSeat
    <3> QED
      BY <3>1, <3>2, BookWords DEF Book!Invite
  <2>8. ASSUME NEW c \in Capacities, SetCapacity(c, t)
        PROVE  Book!Resize(c) /\ c \in 1 .. MaxCapacity
    BY <2>8, PromotionResizes DEF SetCapacity, Capacities
  <2>9. CASE ReopenRegistration(t)
    <3>1. /\ capacity' = capacity /\ capacity \in Capacities
          /\ \E P \in PromotionSets(position, capacity - reservedSeats, {}) :
                Settle(P, reservedSeats, confirmed, position, retired)
      BY <1>1, <2>9 DEF ReopenRegistration, TypeOK
    <3>2. capacity \in 1 .. MaxCapacity /\ Book!Resize(capacity)
      BY <1>1, <3>1, PromotionResizes DEF Capacities
    <3> QED
      BY <3>2 DEF Book!BookNext
  <2>10. ASSUME NEW u \in Users, RemoveConfirmed(u, t) \/ MoveToWaitlist(u, t)
         PROVE  \E demoted \in BOOLEAN : Book!Vacate(u, demoted)
    BY <2>10, RemoveConfirmedVacates, MoveToWaitlistVacates
  <2> QED
    BY <2>1, <2>2, <2>3, <2>4, <2>5, <2>6, <2>7, <2>8, <2>9, <2>10
    DEF Plain, Promoting, Book!BookNext
<1> QED
  BY <1>2, <1>4, <1>5, OtherSteps DEF waitlistVars

\* The rows, positions and counters that the operations keep in step are a
\* queue that is served in its order.
THEOREM LedgerImplementsBook == Spec => ImplementsSeatBook
<1>1. Init => Book!BookInit
  BY BookInitially
<1>2. IInv /\ [Next]_vars => [Book!BookNext]_(Book!bookVars)
  BY BookStep
<1> QED
  BY <1>1, <1>2, Invariant, PTL DEF Spec, ImplementsSeatBook, Book!BookSpec
==============================================================================
