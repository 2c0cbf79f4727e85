----------------------------- MODULE VisitorChat -----------------------------
(***************************************************************************)
(* What the chats of a visitor and of an administrator say about an event, *)
(* composed with the ledger of the event.                                  *)
(*                                                                         *)
(* A handler commits its command or takes its reads, and answers later:    *)
(* between its steps anybody may change the event, and the worker may      *)
(* deliver the messages those changes queue.  One handler at a time is     *)
(* followed, of the visitor or of an administrator who looks at the        *)
(* roster; all others are the steps of the ledger.  A refused command      *)
(* rolls back; what is answered then, if anything is, is modelled for      *)
(* cancellations only: nothing answers a refused registration.             *)
(***************************************************************************)
EXTENDS EventLedger, Sequences, SequencesExt

CONSTANTS
    Visitor,    \* the user whose chat is followed
    MaxRows     \* bound of the model on undelivered messages to the visitor

ASSUME VisitorAssumption == Visitor \in Users
ASSUME MaxRowsAssumption == MaxRows \in Nat \ {0}

VARIABLES
    handler,     \* the handler that is followed, and what it knows
    stored,      \* the result stored under the key of the last command
    overridable, \* a roster with a button to cancel the visitor's seat is shown
    rows,        \* messages for the visitor that wait in the outbox
    lastWord,    \* the standing told by the last message in the visitor's chat,
                 \* "stale" when it was said too late
    \* History, for the properties only
    outdated,    \* every row that waits is older than something said since
    overtaken,   \* something newer was said, or happened without a message,
                 \* since the handler's transaction or first read
    gone,        \* the event was not public at some time since the commit
    seated,      \* users who got a seat since the handler's first read
    queued       \* users who got into the waitlist since then

ledgerVars == vars
chatVars == <<stored, overridable>>
wordVars == <<rows, lastWord, outdated>>
sinceVars == <<overtaken, gone, seated, queued>>
allVars == <<ledgerVars, handler, chatVars, wordVars, sinceVars>>

Idle == [step |-> "idle"]

\* RegistrationResult, LookupError, and the two results of cancel_registration
Replies == {"confirmed", "waitlist", "unavailable", "cancelled", "too late"}

\* The two statements of a query for the members of events
Statements == {"reservations", "waitlist"}

Handlers ==
    {Idle}
    \union [step : {"reread", "answer"}, reply : Replies]
    \union [step : {"second"}, first : SUBSET Users]
    \union [step : {"show"}, view : [Statements -> SUBSET Users]]

\* Mutation of PublicEvent: a full event is left out.
PublicOpenEvent == status = "published_open" /\ now < startsAt

\* get_public_event and list_public_events
PublicEvent == status \in PublishedStatuses /\ now < startsAt

------------------------------------------------------------------------------
(* What a committed step of the ledger means for the chats.                *)

\* What has happened since the last step of the handler
Since ==
    /\ gone' = (handler.step \in {"reread", "answer"} /\ (gone \/ ~PublicEvent'))
    /\ seated' = IF handler.step # "second" THEN {}
                 ELSE seated \union (confirmed' \ confirmed)
    /\ queued' = IF handler.step # "second" THEN {}
                 ELSE queued \union (Waiting(position') \ Waiting(position))

\* A row of the outbox names the visitor.
Notified ==
    IF told'[Visitor] = told[Visitor]
    THEN UNCHANGED <<rows, outdated>>
    ELSE /\ Len(rows) < MaxRows
         /\ rows' = Append(rows, told'[Visitor])
         /\ outdated' = FALSE

\* The row of cancel for a waitlist entry has no telegram_user_id: the worker
\* cannot send it.
Unnotified ==
    /\ UNCHANGED rows
    /\ outdated' = (rows # <<>>)

\* Other visitors, the commands of administrators, the worker and the clock
Elsewhere ==
    /\ \/ \E u \in Users \ {Visitor} :
            \/ Register(u)
            \/ \E override \in BOOLEAN : CancelReservation(u, override)
            \/ CancelWaitlistEntry(u)
       \/ AdminStep
       \/ PublicationStep
       \/ Tick
    /\ Notified
    /\ Since
    /\ UNCHANGED <<handler, chatVars, lastWord, overtaken>>

------------------------------------------------------------------------------
(* Registration                                                            *)

\* Mutation of Outcome: the outcome of the service is not translated.
RawOutcome == IF Visitor \in confirmed' THEN "confirmed" ELSE "waitlisted"

\* RegistrationResult.outcome of the step
Outcome == IF Visitor \in confirmed' THEN "confirmed" ELSE "waitlist"

\* register_for_event, the transaction of the service
TapRegister ==
    /\ handler = Idle
    /\ Register(Visitor)
    /\ Notified
    /\ Since
    /\ stored' = Outcome
    /\ handler' = [step |-> "reread", reply |-> Outcome]
    /\ UNCHANGED <<overridable, lastWord, overtaken>>

\* The last update once more: its stored result is answered.
Repeat ==
    /\ handler = Idle
    /\ stored # "none"
    /\ handler' = [step |-> IF stored = "cancelled" THEN "answer" ELSE "reread",
                   reply |-> stored]
    /\ overtaken' = TRUE
    /\ UNCHANGED <<ledgerVars, chatVars, wordVars, gone, seated, queued>>

\* register_for_event, the read of the event after the commit
Reread ==
    /\ handler.step = "reread"
    /\ handler' = [step |-> "answer",
                   reply |-> IF PublicEvent THEN handler.reply
                             ELSE "unavailable"]
    /\ UNCHANGED <<ledgerVars, chatVars, wordVars, sinceVars>>

------------------------------------------------------------------------------
(* Cancellation                                                            *)

\* confirm_cancel_registration of a seat.  The button names the event, so that
\* the tap cancels whatever standing the visitor has in it by now.
TapCancelSeat ==
    /\ handler = Idle
    /\ CancelReservation(Visitor, FALSE)
    /\ Notified
    /\ Since
    /\ stored' = "cancelled"
    /\ handler' = [step |-> "answer", reply |-> "cancelled"]
    /\ UNCHANGED <<overridable, lastWord, overtaken>>

\* ... and of a place in the waitlist
TapLeaveWaitlist ==
    /\ handler = Idle
    /\ CancelWaitlistEntry(Visitor)
    /\ Unnotified
    /\ Since
    /\ stored' = "cancelled"
    /\ lastWord' = "stale"
    /\ handler' = [step |-> "answer", reply |-> "cancelled"]
    /\ UNCHANGED <<overridable, overtaken>>

\* ConflictError and NotFoundError have the same answer.
TapCancelRefused ==
    /\ handler = Idle
    /\ position[Visitor] = 0
    /\ Visitor \in confirmed => now > cancelDeadlineAt
    /\ handler' = [step |-> "answer", reply |-> "too late"]
    /\ UNCHANGED <<ledgerVars, chatVars, wordVars, sinceVars>>

\* admin_cancel_override, whatever the standing of the visitor is by now
OverrideSeat ==
    /\ overridable
    /\ CancelReservation(Visitor, TRUE)
    /\ Notified
    /\ Since
    /\ UNCHANGED <<handler, chatVars, lastWord, overtaken>>

OverrideWaitlistEntry ==
    /\ overridable
    /\ CancelWaitlistEntry(Visitor)
    /\ Unnotified
    /\ Since
    /\ lastWord' = "stale"
    /\ overtaken' = (handler # Idle)
    /\ UNCHANGED <<handler, chatVars>>

------------------------------------------------------------------------------
(* Views: one statement for the reservations, then one for the waitlist    *)

RowsOf(statement) ==
    IF statement = "reservations" THEN confirmed ELSE Waiting(position)

\* Mutation of FirstStatement: the statements are swapped.
WaitlistFirst == "waitlist"

FirstStatement == "reservations"

\* list_active_registrations_for_user or get_event_roster; whose rows are asked
\* for makes no difference until the answer
ReadFirst ==
    /\ handler = Idle
    /\ handler' = [step |-> "second", first |-> RowsOf(FirstStatement)]
    /\ UNCHANGED <<ledgerVars, chatVars, wordVars, sinceVars>>

ReadSecond ==
    /\ handler.step = "second"
    /\ handler' = [step |-> "show",
                   view |-> [statement \in Statements |->
                                IF statement = FirstStatement THEN handler.first
                                ELSE RowsOf(statement)]]
    /\ seated' = {}
    /\ queued' = {}
    /\ UNCHANGED <<ledgerVars, chatVars, wordVars, overtaken, gone>>

------------------------------------------------------------------------------
(* Answers and messages                                                    *)

Finish ==
    /\ handler' = Idle
    /\ overtaken' = FALSE
    /\ gone' = FALSE
    /\ seated' = {}
    /\ queued' = {}

\* A message in the visitor's chat tells a standing.
Tell(standing, late) == lastWord' = IF late THEN "stale" ELSE standing

\* The standing an answer says the visitor has
ToldBy(reply) ==
    CASE reply = "confirmed" -> "seat"
      [] reply = "waitlist" -> "queue"
      [] OTHER -> "out"

\* The answer to a registration or a cancellation arrives; that it is too late
\* to cancel is no news.
AnswerCommand ==
    /\ handler.step = "answer"
    /\ IF handler.reply = "too late" THEN UNCHANGED lastWord
       ELSE Tell(ToldBy(handler.reply), overtaken)
    /\ Finish
    /\ UNCHANGED <<ledgerVars, chatVars, rows, outdated>>

\* Mutation of Shown: an entry of the waitlist is shown as a confirmed seat.
ShownAsConfirmed(view) ==
    IF \E statement \in Statements : Visitor \in view[statement]
    THEN "seat" ELSE "out"

\* The status of the registrations in a view: when a torn read has two, they
\* are listed by position, and a seat has none.
Shown(view) ==
    IF Visitor \in view["reservations"] THEN "seat"
    ELSE IF Visitor \in view["waitlist"] THEN "queue" ELSE "out"

\* send_my_registrations
AnswerMyRegistrations ==
    /\ handler.step = "show"
    /\ Tell(Shown(handler.view), overtaken)
    /\ Finish
    /\ UNCHANGED <<ledgerVars, chatVars, rows, outdated>>

\* admin_roster, with a button for every participant (roster_actions_keyboard)
AnswerRoster ==
    /\ handler.step = "show"
    /\ overridable' = (overridable \/ Visitor \in handler.view["reservations"])
    /\ Finish
    /\ UNCHANGED <<ledgerVars, stored, wordVars>>

\* The bot stops, or Telegram refuses the answer.
AnswerLost ==
    /\ handler # Idle
    /\ Finish
    /\ UNCHANGED <<ledgerVars, chatVars, wordVars>>

\* The worker sends a row; rows before it have failed and are tried later.
Deliver(i) ==
    /\ i \in DOMAIN rows
    /\ Tell(rows[i], outdated)
    /\ rows' = RemoveAt(rows, i)
    /\ outdated' = (Len(rows) > 1 /\ (outdated \/ i = Len(rows)))
    /\ overtaken' = (handler # Idle)
    /\ UNCHANGED <<ledgerVars, handler, chatVars, gone, seated, queued>>

------------------------------------------------------------------------------

ChatInit ==
    /\ Init
    /\ handler = Idle
    /\ stored = "none"
    /\ overridable = FALSE
    /\ rows = <<>>
    /\ lastWord = "out"
    /\ outdated = FALSE
    /\ overtaken = FALSE
    /\ gone = FALSE
    /\ seated = {}
    /\ queued = {}

ChatNext ==
    \/ Elsewhere
    \/ TapRegister \/ Repeat \/ Reread
    \/ TapCancelSeat \/ TapLeaveWaitlist \/ TapCancelRefused
    \/ OverrideSeat \/ OverrideWaitlistEntry
    \/ ReadFirst \/ ReadSecond
    \/ AnswerCommand \/ AnswerMyRegistrations \/ AnswerRoster \/ AnswerLost
    \/ \E i \in 1 .. MaxRows : Deliver(i)

ChatSpec == ChatInit /\ [][ChatNext]_allVars

------------------------------------------------------------------------------

\* A handler, and what is told in the chats, have the values the code gives
\* them.
ChatTypeOK ==
    /\ handler \in Handlers
    /\ stored \in {"none", "confirmed", "waitlist", "cancelled"}
    /\ overridable \in BOOLEAN
    /\ rows \in BoundedSeq(Notices, MaxRows)
    /\ lastWord \in Notices \union {"stale"}
    /\ outdated \in BOOLEAN /\ overtaken \in BOOLEAN /\ gone \in BOOLEAN
    /\ seated \subseteq Users /\ queued \subseteq Users

\* When all its messages are delivered, the last message in the visitor's chat
\* tells the visitor's standing, whoever changed it and whatever answers were
\* lost, unless it was said too late: a message was retried after a newer one,
\* an answer came after a newer message or repeated an old result, or the
\* visitor left the waitlist and was not answered or was taken out of it by a
\* button that had been made for a seat (cancel names no recipient then).
LastWordIsTrue ==
    rows = <<>> /\ lastWord # "stale" => lastWord = Standing(Visitor)

\* "Visitor receives immediate status": a registration is answered by its
\* outcome, unless the event was closed, cancelled, unpublished or started
\* before the second read, or the answer repeats an old result.
ImmediateStatus ==
    handler.step = "answer" /\ handler.reply = "unavailable"
        => gone \/ overtaken

\* A list shows a user who has some standing twice only when the user has come
\* to the waitlist between its two statements, and misses such a user only
\* when the user has got a seat between them.
ListedOnce ==
    [][handler.step = "second" /\ handler'.step = "show" =>
        LET seats == handler'.view["reservations"]
            queue == handler'.view["waitlist"]
        IN  \A u \in Users :
                /\ u \in seats \intersect queue => u \in queued
                /\ u \in Members \ (seats \union queue) => u \in seated]_allVars
==============================================================================
