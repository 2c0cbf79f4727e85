------------------------------ MODULE BookingTx ------------------------------
(***************************************************************************)
(* Registrations, cancellations and changes of the capacity of one event   *)
(* as concurrent transactions over one database, one SQL statement per     *)
(* step.  A command is one Telegram update: its (source, idempotency_key)  *)
(* in processed_commands.  It may be delivered any number of times, to     *)
(* several handlers at once, and the bot may stop at any point.            *)
(*                                                                         *)
(* Transactions run at READ COMMITTED: a statement reads what is committed *)
(* when it runs, and what a transaction writes is seen by the others when  *)
(* it commits.  The event row is read once, under its lock, kept in memory *)
(* by the session and written back with literal values.  Time and the      *)
(* publication of the event do not change here.                            *)
(***************************************************************************)
EXTENDS Waitlist

CONSTANTS
    NewUsers,           \* users who have not used the bot before
    Handlers,           \* update handlers of the bot running at once
    Commands,           \* the commands users and administrators may send
    NoCommand,          \* not a command
    InitialCapacity,    \* event_occurrences.capacity at first
    MaxCapacity,        \* largest capacity an administrator enters
    MaxPosition         \* bound of the model on waitlist positions

ASSUME CapacityAssumption ==
    MaxCapacity \in Nat /\ InitialCapacity \in 1 .. MaxCapacity
ASSUME NewUsersAssumption == NewUsers \subseteq Users
ASSUME PositionAssumption == MaxPosition \in Nat
ASSUME CommandsAssumption ==
    /\ NoCommand \notin Commands
    /\ \A c \in Commands :
        \/ c.op \in {"register", "cancel"} /\ c.user \in Users
        \/ c.op = "set_capacity" /\ c.capacity \in 1 .. MaxCapacity

VARIABLES
    status, capacity, reservedSeats,    \* the event row
    confirmed, position, retired, told, \* as in EventLedger
    known,      \* users with a row in users
    processed,  \* processed_commands: the stored result of a command
    pc,         \* the next statement of a handler
    cmd,        \* the command it handles
    tx,         \* what its session holds and has written
    effects,    \* history: commits of a command
    answers     \* history: keyed commands and the answers given to them

store == <<status, capacity, reservedSeats, confirmed, position, retired, told,
           known, processed>>
vars == <<status, capacity, reservedSeats, confirmed, position, retired, told,
          known, processed, pc, cmd, tx, effects, answers>>

Ledger == INSTANCE EventLedger WITH
            MaxTime <- 1, MaxLag <- 0, now <- 0, startsAt <- 1,
            cancelDeadlineAt <- 1, batchLinked <- TRUE, posted <- TRUE

Results == {"seat", "queue", "cancelled"}
Steps == {"idle", "precheck", "user", "insert_user", "lock", "members", "work",
          "record", "commit", "reread", "answer"}
Holding == {"members", "work", "record", "commit"}

\* The rows a session has written: sit and unsit are users whose reservation is
\* inserted or cancelled, moved the waitlist rows written, gone the largest
\* position of those made inactive, tells the outbox rows.
NoRows == [sit |-> {}, unsit |-> {}, moved |-> <<>>, gone |-> 0, tells |-> <<>>]

\* A row for user u, and what rows written over others leave.
Row(u, value) == [v \in {u} |-> value]
Over(new, old) == [u \in Users |-> IF u \in DOMAIN new THEN new[u] ELSE old[u]]

\* A session that has read and written nothing
Fresh == [status |-> "none", capacity |-> 0, seats |-> 0, standing |-> "none",
          newUser |-> FALSE, writes |-> NoRows, outcome |-> "none"]

Keyed(c) == c.op \in {"register", "cancel"}

\* Mutation of EventLocked: the row is read without FOR UPDATE.
ReadUnlocked(h) == FALSE

\* Mutation of EventLocked: a handler waits for the row of its own new user.
WaitsForItself(h) == \E g \in Handlers : pc[g] \in Holding \/ tx[g].newUser

\* get_by_id(for_update=True) waits: another transaction has the event row.
EventLocked(h) == \E g \in Handlers \ {h} : pc[g] \in Holding

\* Another transaction has inserted the same user and is not committed.
UserPending(h) ==
    \E g \in Handlers \ {h} : tx[g].newUser /\ cmd[g].user = cmd[h].user

------------------------------------------------------------------------------

Goto(h, step) ==
    /\ pc' = [pc EXCEPT ![h] = step]
    /\ UNCHANGED <<store, cmd, effects, answers>>

\* The transaction is over, committed or rolled back, and the user is told.
Reply(h, answer) ==
    /\ answers' = IF Keyed(cmd[h]) THEN answers \union {<<cmd[h], answer>>}
                  ELSE answers
    /\ pc' = [pc EXCEPT ![h] = "idle"]
    /\ cmd' = [cmd EXCEPT ![h] = NoCommand]
    /\ tx' = [tx EXCEPT ![h] = Fresh]
    /\ UNCHANGED <<store, effects>>

\* An update arrives, for the first time or again.  Administrator commands
\* have no idempotency key.
Deliver(h, c) ==
    /\ pc[h] = "idle"
    /\ pc' = [pc EXCEPT ![h] = IF Keyed(c) THEN "precheck" ELSE "lock"]
    /\ cmd' = [cmd EXCEPT ![h] = c]
    /\ UNCHANGED <<store, tx, effects, answers>>

\* _run_idempotent: the first transaction looks the key up
Precheck(h) ==
    /\ pc[h] = "precheck"
    /\ IF processed[cmd[h]] # "none"
       THEN Reply(h, processed[cmd[h]])
       ELSE Goto(h, "user") /\ UNCHANGED tx

\* _require_existing_user, or the SELECT of ensure_from_telegram_profile.  The
\* UPDATE of a known user whose profile has changed is left out: it changes
\* names only, and locks the row of the user before that of the event, so that
\* it adds a wait and no cycle of waits.
FindUser(h) ==
    /\ pc[h] = "user"
    /\ \/ cmd[h].user \in known /\ Goto(h, "lock") /\ UNCHANGED tx
       \/ /\ cmd[h].user \notin known
          /\ IF cmd[h].op = "register"
             THEN Goto(h, "insert_user") /\ UNCHANGED tx
             ELSE Reply(h, "refused")

\* The INSERT of ensure_from_telegram_profile waits for an uncommitted row of
\* the same user, and fails if that is committed.
InsertUser(h) ==
    /\ pc[h] = "insert_user"
    /\ ~UserPending(h)
    /\ IF cmd[h].user \in known
       THEN Goto(h, "reread") /\ UNCHANGED tx
       ELSE Goto(h, "lock") /\ tx' = [tx EXCEPT ![h].newUser = TRUE]

\* The event row is locked and read.  It is published and has not started.
LockEvent(h) ==
    /\ pc[h] = "lock"
    /\ ~EventLocked(h)
    /\ tx' = [tx EXCEPT ![h].status = status, ![h].capacity = capacity,
                        ![h].seats = reservedSeats]
    /\ Goto(h, IF Keyed(cmd[h]) THEN "members" ELSE "work")

\* get_active_reservation and get_active_waitlist_entry
ReadMembers(h) ==
    /\ pc[h] = "members"
    /\ LET u == cmd[h].user
           standing == IF u \in confirmed THEN "seat"
                       ELSE IF position[u] > 0 THEN "queue" ELSE "none"
       IN  IF (cmd[h].op = "register") = (standing = "none")
           THEN /\ tx' = [tx EXCEPT ![h].standing = standing]
                /\ Goto(h, "work")
           ELSE Reply(h, "refused")

------------------------------------------------------------------------------
(* What an operation writes once it holds the event row.                   *)

\* The session after a write: the event row has these seats, and its status
\* follows.
Written(h, seats, rows, outcome) ==
    /\ tx' = [tx EXCEPT
                ![h].seats = seats,
                ![h].status = Ledger!SyncStatus(@, seats, tx[h].capacity),
                ![h].writes = rows,
                ![h].outcome = outcome]
    /\ Goto(h, "record")

RegisterSeat(h) ==
    /\ pc[h] = "work"
    /\ cmd[h].op = "register"
    /\ tx[h].seats < tx[h].capacity
    /\ Written(h, tx[h].seats + 1,
               [NoRows EXCEPT !.sit = {cmd[h].user},
                              !.tells = Row(cmd[h].user, "seat")], "seat")

RegisterQueue(h) ==
    /\ pc[h] = "work"
    /\ cmd[h].op = "register"
    /\ tx[h].seats >= tx[h].capacity
    /\ \E p \in 1 .. MaxPosition :
        /\ IsNextPosition(p, position, retired)
        /\ Written(h, tx[h].seats,
                   [NoRows EXCEPT !.moved = Row(cmd[h].user, p),
                                  !.tells = Row(cmd[h].user, "queue")], "queue")

\* cancel of a reservation, and the promotion of the first in the waitlist
CancelSeat(h) ==
    /\ pc[h] = "work"
    /\ cmd[h].op = "cancel"
    /\ tx[h].standing = "seat"
    /\ \/ \E next \in Users :
            /\ IsFirst(next, position)
            /\ tx[h].seats - 1 < tx[h].capacity
            /\ Written(h, tx[h].seats,
                       [sit |-> {next}, unsit |-> {cmd[h].user},
                        moved |-> Row(next, 0), gone |-> position[next],
                        tells |-> [u \in {next, cmd[h].user} |->
                                        IF u = next THEN "seat" ELSE "out"]],
                       "cancelled")
       \/ /\ Waiting(position) = {}
          /\ Written(h, tx[h].seats - 1,
                     [NoRows EXCEPT !.unsit = {cmd[h].user},
                                    !.tells = Row(cmd[h].user, "out")],
                     "cancelled")

\* Mutation of QueueWithout: every row moves up, active or not.
QueueShifted(u) == [v \in Users |-> IF v = u THEN 0 ELSE position[v] - 1]

\* The waitlist rows once u has left.
QueueWithout(u) == Resequenced(position, {u})

CancelQueue(h) ==
    /\ pc[h] = "work"
    /\ cmd[h].op = "cancel"
    /\ tx[h].standing = "queue"
    /\ Written(h, tx[h].seats,
               [NoRows EXCEPT !.moved = QueueWithout(cmd[h].user),
                              !.gone = position[cmd[h].user],
                              !.tells = Row(cmd[h].user, "out")], "cancelled")

\* The largest position of a row that the promotion of P makes inactive: the
\* first one promoted keeps its own, later ones have been renumbered to 1.
IsGone(gone, P) ==
    \/ P = {} /\ gone = 0
    \/ \E first \in P :
        gone = position[first] /\ \A u \in P : position[first] <= position[u]

\* set_capacity, refused below the seats taken
SetCapacity(h) ==
    /\ pc[h] = "work"
    /\ cmd[h].op = "set_capacity"
    /\ IF cmd[h].capacity < tx[h].seats
       THEN Reply(h, "refused")
       ELSE \E P \in PromotionSets(position, cmd[h].capacity - tx[h].seats, {}),
               gone \in 0 .. MaxPosition :
             LET seats == tx[h].seats + Cardinality(P)
             IN  /\ IsGone(gone, P)
                 /\ tx' = [tx EXCEPT
                        ![h].capacity = cmd[h].capacity,
                        ![h].seats = seats,
                        ![h].status =
                            Ledger!SyncStatus(@, seats, cmd[h].capacity),
                        ![h].writes =
                            [sit |-> P, unsit |-> {},
                             moved |-> IF P = {} THEN <<>>
                                       ELSE Resequenced(position, P),
                             gone |-> gone, tells |-> [u \in P |-> "seat"]],
                        ![h].outcome = "set"]
                 /\ Goto(h, "commit")

------------------------------------------------------------------------------

\* Mutation of KeyIsTaken: processed_commands without its unique constraint.
KeyIsFree(c) == FALSE

\* The unique key of processed_commands.
KeyIsTaken(c) == processed[c] # "none"

\* IdempotencyRepository.record: a taken key is an IntegrityError, and what
\* the transaction has written is rolled back.
RecordKey(h) ==
    /\ pc[h] = "record"
    /\ IF KeyIsTaken(cmd[h])
       THEN /\ Goto(h, "reread")
            /\ tx' = [tx EXCEPT ![h] = [Fresh EXCEPT !.outcome = tx[h].outcome]]
       ELSE Goto(h, "commit") /\ UNCHANGED tx

\* processed_commands with the result of the command
StoredKey(h) ==
    IF Keyed(cmd[h])
    THEN [processed EXCEPT ![cmd[h]] = tx[h].outcome]
    ELSE processed

Commit(h) ==
    /\ pc[h] = "commit"
    /\ status' = tx[h].status
    /\ capacity' = tx[h].capacity
    /\ reservedSeats' = tx[h].seats
    /\ LET rows == tx[h].writes
       IN  /\ confirmed' = (confirmed \ rows.unsit) \union rows.sit
           /\ position' = Over(rows.moved, position)
           /\ retired' = Larger(retired, rows.gone)
           /\ told' = Over(rows.tells, told)
    /\ known' = IF tx[h].newUser THEN known \union {cmd[h].user} ELSE known
    /\ processed' = StoredKey(h)
    /\ effects' = IF Keyed(cmd[h]) THEN [effects EXCEPT ![cmd[h]] = @ + 1]
                  ELSE effects
    /\ pc' = [pc EXCEPT ![h] = "answer"]
    /\ tx' = [tx EXCEPT ![h] = [Fresh EXCEPT !.outcome = tx[h].outcome]]
    /\ UNCHANGED <<cmd, answers>>

Answer(h) ==
    /\ pc[h] = "answer"
    /\ Reply(h, tx[h].outcome)

\* Mutation of AfterIntegrityError: the result of the work rolled back.
OwnOutcome(h) == IF tx[h].outcome # "none" THEN tx[h].outcome ELSE "error"

\* After an IntegrityError: the result stored for the key, or the error.
AfterIntegrityError(h) ==
    IF processed[cmd[h]] # "none" THEN processed[cmd[h]] ELSE "error"

Reread(h) ==
    /\ pc[h] = "reread"
    /\ Reply(h, AfterIntegrityError(h))

\* The bot stops and is started again: what was not committed is rolled back.
Crash ==
    /\ \E h \in Handlers : pc[h] # "idle"
    /\ pc' = [h \in Handlers |-> "idle"]
    /\ cmd' = [h \in Handlers |-> NoCommand]
    /\ tx' = [h \in Handlers |-> Fresh]
    /\ UNCHANGED <<store, effects, answers>>

------------------------------------------------------------------------------

\* The event has just been published.
Init ==
    /\ status = "published_open"
    /\ capacity = InitialCapacity
    /\ reservedSeats = 0
    /\ confirmed = {}
    /\ position = [u \in Users |-> 0]
    /\ retired = 0
    /\ told = [u \in Users |-> "out"]
    /\ known = Users \ NewUsers
    /\ processed = [c \in Commands |-> "none"]
    /\ pc = [h \in Handlers |-> "idle"]
    /\ cmd = [h \in Handlers |-> NoCommand]
    /\ tx = [h \in Handlers |-> Fresh]
    /\ effects = [c \in Commands |-> 0]
    /\ answers = {}

Continue(h) ==
    \/ Precheck(h) \/ FindUser(h) \/ InsertUser(h)
    \/ LockEvent(h) \/ ReadMembers(h)
    \/ RegisterSeat(h) \/ RegisterQueue(h)
    \/ CancelSeat(h) \/ CancelQueue(h) \/ SetCapacity(h)
    \/ RecordKey(h) \/ Commit(h) \/ Answer(h) \/ Reread(h)

Next ==
    \/ \E h \in Handlers :
        \/ \E c \in Commands : Deliver(h, c)
        \/ Continue(h)
    \/ Crash

\* PostgreSQL grants a lock to each transaction that waits for it in turn, so
\* a handler that can go on again and again does.
Spec ==
    /\ Init
    /\ [][Next]_vars
    /\ \A h \in Handlers : SF_vars(Continue(h))

------------------------------------------------------------------------------

\* The committed rows have values their columns allow.
TypeOK ==
    /\ status \in Ledger!PublishedStatuses
    /\ capacity \in 1 .. MaxCapacity
    /\ reservedSeats \in 0 .. MaxCapacity
    /\ confirmed \subseteq Users
    /\ position \in [Users -> 0 .. MaxPosition]
    /\ retired \in 0 .. MaxPosition
    /\ told \in [Users -> Ledger!Notices]
    /\ known \subseteq Users
    /\ processed \in [Commands -> Results \union {"none"}]
    /\ pc \in [Handlers -> Steps]
    /\ cmd \in [Handlers -> Commands \union {NoCommand}]

\* A command takes effect once, exactly when its key is stored: however often
\* and to however many handlers it is delivered, and also when the user has
\* undone it with another command in between ("repeated processing of the
\* same update must not duplicate a booking, promotion, or cancellation").
DoneOnce ==
    \A c \in Commands :
        effects[c] = IF processed[c] = "none" THEN 0 ELSE 1

\* A user who is told a result is told the one that was committed.
AnswersAreTrue ==
    \A c \in Commands, r \in Results :
        <<c, r>> \in answers => processed[c] = r

\* Concurrent transactions are serial to the ledger: every commit, computed
\* from reads made in earlier steps, is one operation of EventLedger on the
\* rows as they are at the commit.
CommitsAreSerial ==
    [][Ledger!RegistrationStep \/ Ledger!AdminStep]_
        <<status, capacity, reservedSeats, confirmed, position, retired, told>>

\* Every delivery ends: handlers that wait for the row of a user, of the event
\* and for a key do not wait for each other.
DeliveriesEnd == \A h \in Handlers : pc[h] # "idle" ~> pc[h] = "idle"
==============================================================================
