---------------------------- MODULE NoticeDelivery ----------------------------
(***************************************************************************)
(* The delivery of the messages that the services queue for the users of   *)
(* one event: the rows of outbox_events, the worker that dispatches them   *)
(* one after the other, the direct messages and the group post, in which   *)
(* the worker keeps the free seats up to date.                             *)
(*                                                                         *)
(* The delay between two attempts is not modelled: a row that failed is    *)
(* fetched again by the next poll.  A poll fetches every row (its limit is *)
(* 100 by default).                                                        *)
(***************************************************************************)
EXTENDS Naturals, Sequences, FiniteSets

CONSTANTS
    MaxFree,        \* bound of the model on free seats
    MaxNotices,     \* bound of the model on rows
    MaxCrashes,     \* bound of the model on stops of the worker
    MaxFaults,      \* bound of the model on failed calls
    MaxSilentEdits  \* bound of the model on edits of an event without users

ASSUME BoundsAssumption ==
    /\ MaxFree \in Nat /\ MaxNotices \in Nat
    /\ MaxCrashes \in Nat /\ MaxFaults \in Nat /\ MaxSilentEdits \in Nat

VARIABLES
    posted,     \* the event row names a group post
    free,       \* what the event row says: capacity - reserved_seats
    members,    \* how many users have a seat or a place in the waitlist
    shown,      \* what the group post says
    rows,       \* outbox_events in the order of created_at, id
    sent,       \* the rows with sent_at
    arrivals,   \* how often the direct message of a row has arrived
    queue,      \* the rows of this poll still to be dispatched
    pc,         \* where the worker is
    rendered,   \* the free seats in the text of the next edit
    crashes,    \* stops so far
    faults,     \* failed calls so far
    silent,     \* edits that queued no row so far
    refused     \* the last edit of the post was refused for missing rights

botVars == <<posted, free, members, rows, silent>>
workerVars == <<queue, pc, rendered, refused>>
vars == <<posted, free, members, shown, rows, sent, arrivals, queue, pc, rendered,
          crashes, faults, silent, refused>>

Kinds == {"reservation.confirmed", "reservation.cancelled", "waitlist.joined",
          "waitlist.promoted", "waitlist.cancelled", "event.updated",
          "event.cancelled", "event.announced"}

\* addressed: the payload has the field from which the recipient is taken
Notice(kind, addressed) == [kind |-> kind, addressed |-> addressed]

\* The rows of one transaction, and the free seats and members it leaves.
Commit(notices, seats, people) ==
    /\ Len(rows) + Len(notices) <= MaxNotices
    /\ rows' = rows \o notices
    /\ free' = seats
    /\ members' = people
    /\ UNCHANGED <<posted, shown, sent, arrivals, workerVars, crashes, faults,
                   silent>>

------------------------------------------------------------------------------
(* The operations of the bot, as far as the worker sees them               *)

\* register, or an administrator's add_participant
TakeSeat ==
    /\ free > 0
    /\ Commit(<<Notice("reservation.confirmed", TRUE)>>, free - 1, members + 1)

JoinWaitlist ==
    Commit(<<Notice("waitlist.joined", TRUE)>>, free, members + 1)

\* cancel of a reservation: nobody is waiting, or the seat goes to the first
\* in the waitlist
CancelReservation ==
    \/ /\ free < MaxFree
       /\ members > 0
       /\ Commit(<<Notice("reservation.cancelled", TRUE)>>,
                 free + 1, members - 1)
    \/ /\ members > 1
       /\ Commit(<<Notice("waitlist.promoted", TRUE),
                   Notice("reservation.cancelled", TRUE)>>, free, members - 1)

\* cancel of a waitlist entry: the payload has user_id, but the worker takes
\* the recipient of this kind from telegram_user_id
LeaveWaitlist ==
    /\ members > 0
    /\ Commit(<<Notice("waitlist.cancelled", FALSE)>>, free, members - 1)

\* remove_participant of a waiting user, whose payload has telegram_user_id
RemoveFromWaitlist ==
    /\ members > 0
    /\ Commit(<<Notice("waitlist.cancelled", TRUE)>>, free, members - 1)

\* move_participant into a free seat
MoveToSeat ==
    /\ free > 0
    /\ members > 0
    /\ Commit(<<Notice("waitlist.promoted", TRUE)>>, free - 1, members)

\* move_participant to the end of the waitlist: nobody else is waiting, or the
\* seat goes to the first in the waitlist
MoveToWaitlist ==
    \/ /\ free < MaxFree
       /\ members > 0
       /\ Commit(<<Notice("waitlist.joined", TRUE)>>, free + 1, members)
    \/ /\ members > 1
       /\ Commit(<<Notice("waitlist.joined", TRUE),
                   Notice("waitlist.promoted", TRUE)>>, free, members)

\* set_capacity, which tells the members, here one of them; and set_capacity
\* of an event without members.  free stands for all that the post shows, so
\* that update_event_fields and closing or reopening the registration do the
\* same; new seats that go to the waitlist leave free as it was.
EditEvent(seats) ==
    /\ members > 0
    /\ Commit(<<Notice("event.updated", TRUE)>>, seats, members)

EditEventSilently(seats) ==
    /\ seats # free
    /\ members = 0
    /\ silent < MaxSilentEdits
    /\ silent' = silent + 1
    /\ free' = seats
    /\ UNCHANGED <<posted, members, shown, rows, sent, arrivals, workerVars,
                   crashes, faults>>

\* cancel_event: every seat is free again, and the members are told, here one
CancelEvent ==
    /\ members > 0
    /\ \E seats \in free .. MaxFree :
        Commit(<<Notice("event.cancelled", TRUE)>>, seats, 0)

\* mark_publication_succeeded announces the event to a subscriber
Announce ==
    /\ posted
    /\ Commit(<<Notice("event.announced", TRUE)>>, free, members)

------------------------------------------------------------------------------
(* The worker: run_once, _process_messages and _dispatch_notification      *)

Unsent == {i \in 1 .. Len(rows) : i \notin sent}

\* The oldest of a set of rows: fetch_pending orders by created_at, id.
Oldest(due) == CHOOSE i \in due : \A j \in due : i <= j

\* Mutation of Fetched: the oldest row only, whether it can be sent or not.
FetchedOne(due) == {Oldest(due)}

\* fetch_pending: the rows that are due
Fetched(due) == due

Fetch ==
    /\ pc = "idle"
    /\ Unsent # {}
    /\ queue' = Fetched(Unsent)
    /\ pc' = "dispatch"
    /\ UNCHANGED <<botVars, shown, sent, arrivals, rendered, crashes,
                   faults, refused>>

\* The row that is dispatched: the rows of a poll are, one after the other.
Dispatched == Oldest(queue)

Current == rows[Dispatched]

\* A call fails for a reason of its own.
Fault == faults < MaxFaults /\ faults' = faults + 1

\* Mutation of Refreshes: a change of seats is shown, any other is not.
RefreshesRarely(notice) ==
    /\ posted
    /\ notice.kind \in {"reservation.confirmed", "reservation.cancelled"}

\* _refresh_group_post is called, and the event has a post
Refreshes(notice) == posted /\ notice.kind # "event.announced"

\* The event and the recipient are loaded; a missing field is a KeyError.
Dispatch ==
    /\ pc = "dispatch"
    /\ pc' = IF ~Current.addressed THEN "fail"
             ELSE IF Refreshes(Current) THEN "render" ELSE "send"
    /\ UNCHANGED <<botVars, shown, sent, arrivals, queue, rendered, crashes,
                   faults, refused>>

\* _refresh_group_post loads the events of the batch once more
Render ==
    /\ pc = "render"
    /\ rendered' = free
    /\ pc' = "edit"
    /\ UNCHANGED <<botVars, shown, sent, arrivals, queue, crashes, faults,
                   refused>>

\* edit_group_post.  Telegram rejects an edit that changes nothing, and the
\* TelegramBadRequest is an error of the whole dispatch; missing rights are
\* passed over and the direct message is sent.
Edit ==
    /\ pc = "edit"
    /\ \/ /\ rendered # shown
          /\ shown' = rendered
          /\ refused' = FALSE
          /\ pc' = "send"
          /\ UNCHANGED faults
       \/ /\ rendered = shown
          /\ pc' = "fail"
          /\ UNCHANGED <<shown, refused, faults>>
       \/ /\ refused' = TRUE
          /\ pc' = "send"
          /\ UNCHANGED <<shown, faults>>
       \/ Fault /\ pc' = "fail" /\ UNCHANGED <<shown, refused>>
    /\ rendered' = 0
    /\ UNCHANGED <<botVars, sent, arrivals, queue, crashes>>

\* send_direct_message
Send ==
    /\ pc = "send"
    /\ \/ /\ arrivals' = [arrivals EXCEPT ![Dispatched] = @ + 1]
          /\ pc' = "sent"
          /\ UNCHANGED faults
       \/ Fault /\ pc' = "fail" /\ UNCHANGED arrivals
    /\ UNCHANGED <<botVars, shown, sent, queue, rendered, crashes, refused>>

\* Mutation of Settled: a row that was sent is fetched again.
NeverSettled(i) == sent

\* The rows with sent_at after row i was dispatched: mark_sent, or mark_failed
Settled(i) == IF pc = "sent" THEN sent \union {i} ELSE sent

Settle ==
    /\ pc \in {"sent", "fail"}
    /\ sent' = Settled(Dispatched)
    /\ queue' = queue \ {Dispatched}
    /\ pc' = IF queue' = {} THEN "idle" ELSE "dispatch"
    /\ UNCHANGED <<botVars, shown, arrivals, rendered, crashes, faults,
                   refused>>

\* The worker stops and is started again.
Crash ==
    /\ crashes < MaxCrashes
    /\ pc # "idle"
    /\ crashes' = crashes + 1
    /\ pc' = "idle"
    /\ queue' = {}
    /\ rendered' = 0
    /\ UNCHANGED <<botVars, shown, sent, arrivals, faults, refused>>

------------------------------------------------------------------------------

\* mark_publication_succeeded has just committed; or the event is a draft that
\* was closed and reopened.  A member may have been there before.
Init ==
    /\ posted \in BOOLEAN
    /\ free \in 0 .. MaxFree
    /\ members \in 0 .. 1
    /\ free + members > 0
    /\ shown = free
    /\ rows = <<>>
    /\ sent = {}
    /\ arrivals = [i \in 1 .. MaxNotices |-> 0]
    /\ queue = {}
    /\ pc = "idle"
    /\ rendered = 0
    /\ crashes = 0
    /\ faults = 0
    /\ silent = 0
    /\ refused = FALSE

BotStep ==
    \/ TakeSeat
    \/ JoinWaitlist
    \/ CancelReservation
    \/ LeaveWaitlist
    \/ RemoveFromWaitlist
    \/ MoveToSeat
    \/ MoveToWaitlist
    \/ CancelEvent
    \/ Announce
    \/ \E seats \in 0 .. MaxFree :
        EditEvent(seats) \/ EditEventSilently(seats)

WorkerStep == Fetch \/ Dispatch \/ Render \/ Edit \/ Send \/ Settle

Next == BotStep \/ WorkerStep \/ Crash

\* The worker goes on polling; the bot need not do anything.
Spec == Init /\ [][Next]_vars /\ WF_vars(WorkerStep)

------------------------------------------------------------------------------

\* A message is repeated only when the worker stopped after sending it.
OncePerStart == \A i \in 1 .. MaxNotices : arrivals[i] <= 1 + crashes

\* When the users of an event have nothing more to do, its group post shows
\* the free seats it has, although it is edited from texts rendered earlier,
\* through rows that fail, and after restarts (_refresh_group_post).  There are
\* two exceptions: the last edit was refused, or the event was edited and has
\* no members whose messages would refresh the post.
PostCatchesUp ==
    posted => <>[](\/ shown = free
                   \/ refused
                   \/ silent > 0 /\ members = 0)

\* Of an event without a post, a row with a recipient is sent, whatever rows
\* before it cannot: the loop goes on after an error.
SoundNoticesArrive ==
    \A i \in 1 .. MaxNotices :
        ~posted /\ i <= Len(rows) /\ rows[i].addressed ~> arrivals[i] > 0

\* A user who joins the waitlist is told ("transactional notifications are
\* sent for waitlist joined").
JoinersAreTold ==
    \A i \in 1 .. MaxNotices :
        i <= Len(rows) /\ rows[i].kind = "waitlist.joined"
            ~> arrivals[i] > 0
==============================================================================
