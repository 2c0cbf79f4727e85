# Formal models of the tea party reservation bot

TLA+ modules for the parts of this program whose correctness depends on the
order of events: the seats and the waitlist of a tasting, the transactions that
change them, what the chats of visitors and administrators are told about them,
the dialog in which events are entered and published, the worker that posts and
announces them and delivers messages, the notification switch, and the
administrator roles. TLC checks every module on small instances. TLAPS proves
every invariant, every action property and the refinement that the runs check,
for every number of users and handlers and for every bound; liveness stays with
TLC.

`PROJECT.json` lists the runs, the code lines each definition stands for, the
hazards and the findings. Paths below are relative to
`src/src/tea_party_reservation_bot/`.

## 1. The system

Two processes share one PostgreSQL database.

* **bot** (`presentation/telegram`, `infrastructure/telegram/backends.py`,
  `application`): handles Telegram updates, several at once (asyncio). Every
  service operation is one unit of work (`infrastructure/db/uow.py`): one
  READ COMMITTED transaction, committed when the operation returns and rolled
  back when it raises.
* **worker** (`background`): polls `outbox_events`, sends direct messages, and
  posts and edits the announcements in a group chat. A second job of the same
  process reconciles publications; an asyncio lock keeps the two apart.

The bot never calls the group chat, the worker never takes a registration. They
interact through rows only: the services queue outbox rows in the transaction of
the operation, and the worker changes events by `mark_publication_succeeded` and
`mark_publication_failed`.

| Component | State | Operations | Hard because |
|---|---|---|---|
| Registration (`RegistrationService`) | reservations, waitlist entries, `reserved_seats` and status of the event row | register, cancel | concurrent sign-ups, promotion inside cancel, stored counters and statuses |
| Administrator operations (`AdminEventService`) | the same, and start, deadline, capacity | update fields, set capacity, close, reopen, cancel event, add, remove and move a participant | clock read before the row lock, promotion loop, renumbering of the waitlist |
| Chats of visitors (`backends.py`, `handlers.py`) | the messages on the screen, the outbox rows that wait | register, cancel, list of registrations, roster and its override buttons | the answer is made after the commit, in part from a second read; buttons outlive what they were made for; lists of two statements; messages of the worker in between |
| Publication (`PublicationService`) | publication batch, link of events to it, post id | publish drafts, request, mark succeeded, mark failed | results that arrive after the event has changed |
| Idempotency (`_run_idempotent`) | `processed_commands` | look-up, record, second look-up | duplicate deliveries, restarts between commit and answer |
| Worker, publications (`OutboxProcessor`) | the outbox row of the request, the group chat | dispatch, reconcile, compensate, settle | no transaction spans the database and Telegram |
| Worker, notifications | outbox rows, the group post | dispatch, refresh the post, send | failing rows, repeated rows, stale texts |
| Notification switch (`NotificationPreferenceService`) | `notification_preferences` | show, turn | read and written in two transactions, no idempotency key |
| Administrator roles (`AdminRoleManagementService`) | `role_assignments` | assign, revoke | reads without locks, actor loaded earlier |
| Draft dialog (`handlers.py`) | state and data of the dialog of a chat, in memory | input, edit, cancel, publish | handlers selected by a state that has changed when they read the data; double taps; the dialog is cleared after the effect |
| Draft parser (`domain/parsing.py`) | none | parse, validate, default deadline | boundaries of times, all or nothing |
| Settings, event queries | their rows | set, list | default deadline read again at publication |

What makes each correct: no overbooking, one standing per user, first come first
served, and truthful messages (ledger); a last word in the chat that is true, an
answer to every registration, lists that show everybody once (chats); commands
done once, serially and answered truthfully (transactions); drafts published
as they were offered and soundly (draft dialog); one post per batch, requests that are settled,
and posts that exist (worker, publications); an announcement once to each user
whose settings say so (switch); messages that arrive, and a post that catches up
(worker, notifications); an owner who remains (roles).

## 2. Modules

| Module | What it models | Granularity of a step |
|---|---|---|
| `Waitlist` | waitlist queries and `_promote_waitlist_until_capacity` as formulas | no steps |
| `EventLedger` | one event: all operations of the three services on its seats, waitlist, status and messages | a committed transaction |
| `MCEventLedger` | its instances | |
| `SeatBook`, `EventLedgerBook` | the promise to visitors with a real queue, and the mapping of the rows to it | |
| `VisitorChat` | the chat of one visitor and the roster of an administrator, beside the ledger | the transaction, a read or the answer of a handler; a delivered message; a step of the ledger by anybody else |
| `PromotionLoop` | the promotion loop over the rows | one turn of the loop |
| `BookingTx`, `MCBookingTx` | register, cancel and set_capacity as concurrent transactions with idempotency keys, new users, redelivery and restarts | an SQL statement, or a few reads of rows that the held lock protects |
| `DraftDialog`, `MCDraftDialog` | the dialog of one chat and the times of the draft parser, with the settings and the idempotency of a publication | what a handler does between two waits |
| `AdminRoles` | grants and revocations by concurrent handlers | an SQL statement |
| `PublicationWorker` | the publication of one batch by one or more workers | a query, a transaction or a Telegram call |
| `Announcements` | the notification switches and the announcement of the batch to their users, beside that worker | an SQL statement or the answer of a handler; a step of the worker |
| `NoticeDelivery` | the delivery of the messages of one event and the refresh of its group post | as for the worker |
| `WaitlistProofs`, `EventLedgerProofs` | theorems about `Waitlist` and `EventLedger`: its formulas, its invariants, its steps, and that it implements `SeatBook` | |
| `PromotionLoopProofs`, `BookingTxProofs`, `VisitorChatProofs`, `NoticeDeliveryProofs` | theorems about the module of that name | |
| `AdminProofs` | theorems about `DraftDialog` and `AdminRoles` | |
| `OutboxProofs` | theorems about `PublicationWorker` and `Announcements` | |

How they fit together:

* `PromotionLoop` justifies that `EventLedger` makes promotion one formula
  (`PromotionSets`, `Settle`): from every waitlist the loop ends in those rows
  (theorem `LoopIsItsFormula`).
* `EventLedger` justifies its atomic steps by the row lock; `BookingTx` shows
  that, by having the interleaved transactions implement ledger steps
  (`CommitsAreSerial`, through `Ledger == INSTANCE EventLedger`; theorem
  `TransactionsAreSerial`).
* `EventLedgerBook` maps the rows to the queue of `SeatBook`; the ledger
  implements the book (theorem `LedgerImplementsBook`).
* `VisitorChat` extends `EventLedger`: a command from a chat takes the step of
  the ledger and a step of the chat at once, so that every behaviour of the
  chats is one of the ledger (theorem `ChatRunsOnTheLedger`).
* `PublicationWorker` and `NoticeDelivery` start from the rows that ledger steps
  queue. The first shows when `mark_publication_*` is called, the ledger what
  the call does to an event in any state.
* `Announcements` extends `PublicationWorker`: the transaction that stores the
  post reads the switches that the handlers turn.

### Correspondence with the code

**EventLedger.** The variables are columns: `status`, `capacity`,
`reservedSeats`, `startsAt`, `cancelDeadlineAt`; `confirmed` is the set of users
with a reservation of status confirmed, `position[u]` the position of the active
waitlist row of `u` or 0, `retired` the largest position of an inactive row
(which `create_waitlist_entry` counts too), and `told[u]` what the last outbox
row for `u` says of `u`. Each action is named after the service method and takes
everything it does into one step: the promotion, the renumbering, the
re-derivation of the status and the queued messages. An operation that raises is
no step. The parameter `t` of the administrator actions is the clock reading the
code takes before it waits for the row lock; `register` and `cancel` read the
clock under the lock. `event.complete()` is always rolled back by the exception
that follows it and so has no action. Not part of the state: names and
descriptions of events, the audit log, metrics and the texts of messages.

**VisitorChat.** `handler` is the one handler that is followed and what it holds
in its local variables: the reply it will give, or the rows of its first
statement. `stored` is the result in `processed_commands`, `overridable` says
that a roster with a cancel button for the visitor is on an administrator's
screen, `rows` are the outbox rows for the visitor, and `lastWord` is what the
last message in the chat says the visitor has. `Elsewhere` is every operation of
everybody else. A delivery takes any of the waiting rows, because the worker goes
on after a row that failed. The second read of `register_for_event`
(`get_public_event`, after the commit) is a step of its own, and so are the two
statements of a list. `outdated`, `overtaken`, `gone`, `seated` and `queued` are
history: they record what has happened since the handler's last read and no
guard reads them.

**BookingTx.** A command is one update, identified by its key. A handler goes
through the look-up of the key, the row of the user, the lock of the event row,
the reads, the writes, the key and the commit. The event row is kept in memory
(`tx`) from the lock to the commit and written back with literal values, as the
session does; without the lock this loses updates, which is the mutant of
`CommitsAreSerial`. An `IntegrityError` leads to the second look-up.

**DraftDialog.** `state`, `mode` and `raw` are the dialog as the in-memory
storage of the bot keeps it; a `Crash` loses it, and `setting`, `published` and
`done` (rows of the database) survive. An update gets its handler by the state of
the dialog (`ReceiveText`, `ReceiveTap`), and the handler reads the data in a
later step, when another one may have changed them. Every preview and every
publication reads the setting and parses the text by the clock of its own. Of a
text the model keeps its blocks and of a block the two times, because these are
what the validation compares with each other, with the clock and with the
setting; a text with an unreadable field behaves like one with a late deadline. A
tap is known by the id of its callback query, which is its idempotency key
(`handlers.py:478`); two taps of the administrator have two ids, and a tap that
Telegram delivers twice has one. `previewed` says that a preview with its
buttons is in the chat, without which there is nothing to tap. `offered` and
`turned` are history: the texts that `collect_admin_draft` has put up for
confirmation, each with its mode, and whether `new_event` or `new_batch` has since
changed the mode beside the text, which both leave in place; no guard reads them.
That a key takes effect once is taken from `_run_idempotent` here (`NotYetDone`)
and checked in `BookingTx`. Access is not modelled: a refused actor ends the
handler, as `PublishFails` or a text that is not taken.

**PublicationWorker.** `sent` and `recorded` are the outbox row, `batch`,
`linked`, `stored` and `announced` the batch and its events, `posts` the group
chat. `Load` to `Settle` are the branches of `_dispatch_publication` and
`_process_messages`. A stop of the worker forgets only `pc`, `known` and
`message`. A transaction that fails is a `Fault`; a Telegram call may always
fail, up to `MaxLost` of them may also be carried out and reported as failed, and
up to `MaxUnheard` transactions may be committed while the worker is told that
they failed.

**Announcements.** `switch` is `new_events_enabled`, `"none"` for a user without
a row, and `shown` the position in the settings message on the user's screen. A
handler (`at`, `kind`, `user`, `value`) goes through `get_or_create` with its
SELECT and INSERT, and a tap then through `set_enabled` in a second transaction,
with its SELECT and UPDATE; the row is not locked by the SELECT, and the
session writes only what differs from what it has read. `Announce` adds the rows
that `mark_publication_succeeded` queues for the users of
`list_enabled_telegram_user_ids`. `alone` and `muddled` are history: whose
handlers have overlapped or have ended without an answer.

**NoticeDelivery.** The bot is reduced to what the worker can see of it: the rows
of each operation, the free seats and the number of members. `free` stands for
everything a group post shows of the event, so that `EditEvent` is
`set_capacity`, `update_event_fields` and `_set_registration_state` alike: all
queue `event.updated` for the members, and change the post or do not; and `posted` says whether there is a
post: a draft that was closed and reopened is published without one. `queue` is
the set of rows of the current poll, dispatched oldest first (`Dispatched`), which
is the order `fetch_pending` reads them in.

**AdminRoles.** `manages` is the outcome of `load_actor`, taken before the
transaction. A row that a handler has deleted or inserted is locked until the
commit; a DELETE of a row that somebody else has removed deletes nothing
(`gone`). The audit log is not modelled.

## 3. Runs

| Run | Shows | Bounds |
|---|---|---|
| `ledger` | type, seat, waitlist, status and message invariants; no overtaking; freed seats go to the waitlist; nobody enters a started event; only reopening publishes without a post; the ledger implements `SeatBook` | 4 users, capacity up to 3, positions up to 6, clock 0..2, lock wait up to 1 |
| `promotion_loop` | loop and formula agree; the loop ends | every waitlist of 4 users |
| `booking` | commands are done once, answered truthfully and serial; every delivery ends | 2 handlers, 2 users, one new; 3 commands with a key and 2 changes of the capacity |
| `visitor` | the last message in a chat is true unless it was said too late; a registration is answered by its outcome while the event is public; a list is wrong only about a user who moved between its two statements | 2 users, 1 seat, positions up to 2, clock 0..1, 2 undelivered messages |
| `roles` | the last owner is lost only by two revocations at once | 3 users, 2 handlers |
| `draft` | a dialog that waits for its confirmation has a text; what is published was offered in that form, unless a new dialog of the other form was begun over it; it has a deadline not after its start | 2 handlers, 2 taps, 2 texts of one and two blocks, offset 0..1, clock 0..1 |
| `publication` | an event is announced once, to those whose settings message says so; a tap does what its button said; a request that is dropped is settled, and is settled in the end; posts beyond the first need an interruption; the stored post exists | 1 worker, 2 stops, 1 fault, 1 lost answer of Telegram, 1 unheard commit; 1 user, 2 handlers of the settings |
| `notices` | messages repeat only by restarts; the post catches up; without a post, every message with a recipient arrives | 3 rows, 1 stop, 1 fault, 1 edit without members |

Runs that are expected to find a violation. Each contradicts something the
repository says of itself, quoted in `PROJECT.json`:

| Run | What happens |
|---|---|
| `ledger_terminal` | a publication result gives a cancelled event a new status |
| `roles_overlap` | two owners revoke each other, and no owner is left |
| `publication_restart` | after a stop between two transactions, a failed request is retried for ever |
| `notices_join` | joining the waitlist is never confirmed by message: the unchanged post is edited first |

### Behaviours worth knowing

These are in the models, and appear as the exception a property names, as a
hazard, or as a bound.

* An administrator's change that waited for the row lock commits after the start
  (the `MaxLag` of `StartedEventIsFrozen`).
* Closing and reopening the registration of a draft makes it public without a
  group post, and nothing posts it later (`UnpostedOnlyByReopening`).
* Commands of administrators have no idempotency key: one that is delivered again
  after its effect was undone is carried out again.
* The last message in a chat may be out of date: a message that failed is
  delivered after newer ones, and a repeated update is answered with its old
  result. A visitor who leaves the waitlist is told by the answer only, because
  the row that is queued names no recipient and is never delivered
  (`SoundNoticesArrive` is about the other rows); a cancel button made for a
  seat, tapped when its owner has been moved to the waitlist, takes the owner out
  of it the same way.
* A visitor who has got a seat is told that the event is not available when it is
  closed, or starts, between the commit and the second read (`ImmediateStatus`).
* A list of registrations or a roster taken during a promotion or a move may show
  a user twice or not at all (`ListedOnce`).
* The second of two simultaneous deliveries of one update is refused, not
  answered (`BookingTx`, `ReadMembers`).
* The text of a draft is parsed again when it is published (`telegram.py:349`), by
  the clock and the default deadline of that moment: what is published may differ
  from what was previewed. Two taps on a publish button have two keys and both
  publish, and a tap on the buttons of an older preview publishes the text the
  dialog has at that moment.
* `new_event` and `new_batch` change the mode of the dialog and leave its text. A
  tap on publish that was received before and reads the dialog afterwards
  publishes the old text in the new mode: a week of which one event was offered,
  or only the first event of a week (the `turned` of `PublishedAsOffered`; without
  it TLC finds the sequence).
* A lost answer of Telegram leaves the post of a failed batch in the group (the
  `lost` of `OnePostPerStart` and `StoredPostExists`).
* When the commit that stores a post is not heard of, the worker deletes the post,
  and the events keep its id (the `unheard` of `StoredPostExists`). Every later
  edit of that post fails and, as in `notices_join`, holds back the direct
  messages of those events.
* With two workers, both may post the same batch (run `publication` has one, as
  the compose files do).
* An edit of an event that nobody has joined leaves the group post as it was (the
  exception in `PostCatchesUp`).
* Two taps on the notification switch at once may both read the same position, so
  that the second has no effect; a handler that is never answered may have turned
  the switch. `ToldAsShown` excepts exactly these users.

### Why the bounds are enough

Three seats and four users give a full event with
a waiting user and, after a change of capacity, several promotions in one step;
two waiting users and one moved to the end need positions up to 6. A clock of
three values has a time before, at and after each deadline and start. In
`visitor`, one other user and one seat are enough to fill the event, to be
promoted over and to free a seat; two waiting messages are the fewest that can be
delivered in the wrong order, and every longer delay is a step of the followed
handler that waits. Two
handlers give every interleaving of two transactions; a third handler only adds
waiting on the same lock. Two users and one or two seats give every outcome of a
registration and both ways to leave, with and without somebody to promote. Two
stops let the worker stop once in every step and again during recovery, with one
transaction failed, one answer lost and one commit not heard of before or after
each of them. In `publication` one user is enough, since a handler touches only
the row of its user, and two handlers give every order of two taps. Two handlers
of one chat give every order of two updates of the dialog, and a third update can
be received when one of them has ended; two taps give a tap on an older preview.
The two blocks have the deadline absent and given; the first of them can expire
while the other does not. Three outbox rows give one before and one behind any
row. The theorems hold for every value of the bounds, so that these are only the
sizes of the instances on which liveness is checked.

**Deadlock.** It is checked but for the worker models and the promotion loop: a
worker with nothing to do and a bot without updates may stop, and the loop ends.

## 4. Fairness

Nothing users or administrators do is fair. `PublicationWorker`, `Announcements`
and `NoticeDelivery` assume weak fairness of the worker as a whole: the loop of
`WorkerRuntime.run` always goes on to the next poll, and within a poll
every message is dispatched in turn. Failed transactions, lost answers and stops
are bounded, which is the assumption that failures do not last for ever; a call
that Telegram rejects because of what it asks for (an unchanged text) is not a
fault and is not bounded. `BookingTx` assumes strong fairness of each handler,
because PostgreSQL grants a row lock to the transactions that wait for it in
turn. Crashes are never assumed to happen. `EventLedger`, `VisitorChat`,
`DraftDialog` and `AdminRoles` have safety properties only and assume no
fairness, and neither do the handlers of the settings in `Announcements`.

## 5. Proofs

The assumptions are those stated by name in the modules: users and
administrators are finite sets, the values that stand for "no user", "no text",
"no tap" and "no command" are none of them, commands name users and capacities
that exist, bounds are natural numbers, the largest capacity is positive, and
texts are sequences of blocks. What is proved of `PublicationWorker` and
`Announcements` is also under `Workers = {w}`, one worker process, with any number
of stops, failed transactions and lost answers; with two, `OnePostPerStart` is
false. Each proof has an inductive invariant of its own (`IInv`, `BInv`, `LInv`,
`NInv`, ...), a lemma for each action, and the theorem from both.

**The ledger** (`EventLedgerProofs`). `Invariant` is `Spec => []IInv`, and
`TypeCorrect`, `NeverOverbooked`, `NobodyStandsTwice`, `WaitlistIsOrdered`,
`StatusFollowsSeats`, `CancellingEmpties` and `NoticesAreTrue` are the seven
invariants of run `ledger`. `SeatInv` (types, count, one standing, distinct
positions) is inductive by itself. That the count never exceeds the capacity
needs that it is the number of reservation rows, and that a promotion adds as
many rows as it adds to the count needs that nobody has two standings; distinct
positions need that renumbering keeps the order (`ResequencedDistinct`) and that
a new position is larger than all others (`NextPositionDistinct`). The status,
the emptiness of a cancelled event and the messages follow the seats, so they are
inductive only together with `SeatInv`: `IInv` is the conjunction. `SettleSound`
is the lemma about promotion, whatever the number of promoted users, and is used
for each operation that promotes; there is one lemma per operation.
`WaitlistProofs` has the facts about positions, ranks and promotion sets.

**Its steps.** `FirstComeFirstServed`, `FreedSeatsAreServed`, `StartedIsFrozen`
and `UnpostedIsReopened` are the four action properties of the run. Each is about
one step from a state of `IInv`. `PromotionResult` says what a promotion leaves
behind (no free seat or no candidate, and nobody served who stands behind a
candidate left), and two lemmas bring every promoting operation into its form.

**The refinement.** `LedgerImplementsBook`: every operation of the ledger is one
step of `SeatBook`, or none. The queue of the book is the active rows in the order
of their positions (`WaitlistInOrder`, by rank and without sorting). `LineExists`
and `LineUnique` say that there is exactly one sequence without repetitions that
has the waiting users in this order, so that the queue after an operation is known
as soon as some such sequence is found: the old one without its first members
(`LinePrefix`, for a promotion), without one user (`LineWithout`) or with one at
the end (`LineEnd`). That there is one at all needs no induction: the ranks of n
waiting users are different numbers from 1 to n, so that every one of these is a
rank (`FS_Injection`). There is one lemma for each kind of operation.

**The promotion loop** (`PromotionLoopProofs`). `LoopIsItsFormula` and
`LoopKeepsOrder`. `LInv` says that after each turn the promoted users are the
first ones of the waitlist without the excluded user, as many as turns
(`PromotedInv`), and that the rows left have the ranks among themselves
(`PositionsInv`); when the loop ends, these are `PromotionSets` and
`Resequenced`, by which `EventLedger` and `BookingTx` state a promotion.

**Concurrent transactions** (`BookingTxProofs`). `BInv` says what a transaction
may rely on between its statements: two handlers never hold the event row
together (`Exclusive`), what a session has read of the row is what is committed
(`Read`), and from the writes to the commit what it will write is the outcome of
one operation on the rows as they are (`Ready`, one form per operation); no other
command has its key when it commits (`KeyKept`). A commit therefore is an
operation of `EventLedger`: `TransactionsAreSerial`. Because it is one, the
lemmas of the ledger apply to it, and `IInv` of the ledger is kept by the
interleaved transactions too; `RacesAreHarmless` states its seat, standing,
position, status and message invariants of the concurrent system.
`EffectsHappenOnce` (the unique key is checked in the transaction that has the
effect) and `NobodyIsMisled` hold for any number of deliveries, handlers and
stops. `BookingTypeCorrect` needs that positions are bounded after a renumbering
(`ResequencedBound`), which needs distinct positions.

**The chats** (`VisitorChatProofs`). `ChatRunsOnTheLedger` gives `IInv` in every
chat, so that the last row queued for a visitor tells the visitor's standing.
`LastWordTrue` follows with `WordInv`: the last of the waiting rows is the last
one queued, and when no row will bring the truth any more, the last word or what
the handler is about to say is the truth (`HandlerIsUpToDate`).
`RegistrationsAreAnswered` (with `StatusInv`) and `ListsAreNearlySound` (with
`SeenInv`: who has a seat now and is not in the first statement's rows, or is in
them and waits now, has moved since) are the other two properties, and `ChatTyped`
the type invariant.

**Roles** (`AdminProofs`). `OwnerRemains`: until two revocations of owner
overlap, at most one runs (`OneRevocation`), so that the second owner it has
counted is still there when it commits (`AnotherOwner`). `RolesTyped` is the type
invariant.

**The draft dialog** (`AdminProofs`). `TextIsThere`, `NothingUnoffered` and
`SoundPublications`: a handler publishes only what its own parser has taken and
keeps it in its own variables (`JobsInv`), so that neither the dialog nor the
setting can change it any more. `PublishedAsOffered` speaks of handlers about to
publish only and is not inductive; `OffersInv` adds that the text in the dialog
was offered in the mode beside it, unless that was turned, and follows a tap from
its reading of the dialog on. It holds because `collect_admin_draft` stores the
mode it has parsed the text in together with the text, even if another dialog was
begun meanwhile. `DialogTyped` is the type invariant.

**The worker** (`OutboxProofs`, first part). `DroppedIsSettled`, `PostsArePaidFor`
and `NamedPostExists`. The lock of the process leaves one activity at work
(`OneActivity`), and what it has loaded of the events stays true until it changes
them itself (`EventsInv`, `ActivityInv`). The post it may delete is its own
(`PostsInv`). The count of posts is inductive only with `Spare`: as long as a
further post may be sent, each post in the chat is paid for by a stop or a lost
answer (`CountInv`).

**Announcements** (`OutboxProofs`, second part). `ToldOnce` rests on
`EventsInv` of the worker (announced when, and only when, a post is stored) and on
`QueuedInv` (no more rows than announcements). `TheMessageIsKept` and
`TapsDoWhatTheySay` rest on `SInv`: while a handler is alone, nobody else changes
its user's row or message (`AloneInv`), so that what it shows is the row
(`AnswerInv`), what it has turned to is not what was shown (`TurnInv`), and a user
who waits for nothing is shown the row (`ShownInv`). `AnnouncementsTyped` is the
type invariant.

**Messages** (`NoticeDeliveryProofs`). `MessagesArePaidFor` is `OncePerStart`
for any number of rows, stops and failed calls. A row that may be dispatched again
has arrived at most once for each stop; the one more is for a row that has
`sent_at`, or that has just been sent and is the one the worker will mark
(`ArrivalsInv`). That needs that the rows of a poll have no `sent_at` and that the
row dispatched is one of them (`PollInv`, `OldestIsOne`).

**Only model-checked.** Liveness, which the prover does not reach: it cannot reason
about ENABLED, by which fairness is defined: `LoopEnds`,
`DeliveriesEnd`, `SettledUnlessStopped`, `PostCatchesUp` and
`SoundNoticesArrive`. The four violations are counterexamples of TLC and nothing
to prove.

## 6. Abstractions and what is not modelled

* Events do not interact in the ledger: every operation reads and writes rows of
  one event under its lock. A batch is one row in `PublicationWorker`. Batches
  with events in common are not modelled: only `request_single_event_publication`
  and `request_batch_publication` could make one, and no handler calls them.
* A commit that happens while its reply is lost is modelled in the worker only.
  In the bot it looks like a stop before the answer, which the models have.
* Delays between attempts and the limit of a poll (100 rows) are not modelled: a
  failed row may be fetched at once. Rows that fail for ever are fetched first
  (`repositories.py:539`), so that a hundred of them would keep all others from
  being fetched; the liveness of `NoticeDelivery` is about fewer.
* An announcement too long for Telegram fails while it is rendered, outside the
  handling of errors, and is retried for ever; rendering is not modelled.
* In `BookingTx` the event stays published and has not started; the other
  administrator operations take the same lock in the same way. The update of a
  known user whose names have changed (`repositories.py:70`) is left out: its row
  is locked before that of the event in every transaction, so that it adds a wait
  and no cycle of waits.
* `EventLedger` applies a publication result only while the event has a batch and
  no post (`Publishable`). The test is the worker's, made before its call of
  Telegram; the service makes none (`services.py:460-517`). That it still holds at
  the commit is so for one worker process.
* `VisitorChat` follows one handler at a time; the commands of all others are
  steps of the ledger, and the overlap of two handlers is the subject of
  `BookingTx`. A refused registration is not answered at all (the exception
  leaves the handler), and changes nothing.
* A block of a draft whose deadline line has no value passes the validation and
  stops the parser with an `AssertionError` (`parsing.py:148`), which no handler
  answers; `DraftDialog` takes it for a refused text. The fields other than times,
  time zones and daylight saving are left out, as are the menus around the dialog.
* The lists of public events and of drafts are single reads without any state of
  their own. The audit log is written in the transaction of each operation and
  never read by an operation.
* Not modelled, for lack of state or of influence on behaviour: texts, keyboards
  and deep links, process start, metrics, logging, the schema beyond the
  constraints that the models rely on, and migrations.

## 7. Plan

Done: the ledger with its refinement and the proofs of its invariants, its steps
and the refinement; the promotion loop and its formula; concurrent transactions
with idempotency and their serializability; the chats of visitors, the draft
dialog, the worker with commits it does not hear of, the announcements with the
notification switch, message delivery and the roles, all with the proofs of their
safety properties.

Left, in this order:

1. The other operations of `AdminEventService` as concurrent transactions of
   `BookingTx`, beside `set_capacity`: they take the same lock, and `EventLedger`
   has their serial effect already.
2. Several events in a batch, with the order in which overlapping batches lock
   their rows, should a handler ever request one.
