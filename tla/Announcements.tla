---------------------------- MODULE Announcements ----------------------------
(***************************************************************************)
(* Who is told of a new event: the notification switch of each user, which *)
(* handlers of the bot show and turn, composed with the worker that        *)
(* publishes a batch and, in the transaction that stores the post, queues  *)
(* an announcement for every user whose switch is on.                      *)
(*                                                                         *)
(* A tap names no position of the switch: the handler reads it in one      *)
(* transaction and writes the opposite in another one.  There is no        *)
(* idempotency key, so that an update delivered once more is one more tap. *)
(***************************************************************************)
EXTENDS PublicationWorker

CONSTANTS
    Users,      \* users with a row in users
    NoOne,      \* not a user
    Handlers    \* handlers of the bot that run at the same time

ASSUME UsersAssumption == IsFiniteSet(Users) /\ NoOne \notin Users

VARIABLES
    switch,         \* new_events_enabled of a user's row, "none" without a row
    shown,          \* the position that the user's settings message shows
    at,             \* the next statement of a handler of the settings
    kind,           \* "view": the message for the settings, "tap": its button
    user,           \* whose update it handles
    value,          \* the position it has read or is to write
    announcements,  \* rows event.announced for a user, of one event of the batch
    \* History, for the properties only
    alone,          \* no other handler of the user has run since its start
    muddled         \* users whose last handlers overlapped or were not answered

workerVars == vars
taskVars == <<at, kind, user, value, alone>>
settingsVars == <<switch, shown, taskVars, muddled>>
allVars == <<workerVars, settingsVars, announcements>>

Positions == {"off", "on"}
Statements == {"idle", "look", "insert", "find", "write", "answer"}

RunningFor(u) == {h \in Handlers : user[h] = u}

\* Mutation of Opposite: the button has no effect.
Same(position) == position

\* enabled=not current.enabled
Opposite(position) == IF position = "on" THEN "off" ELSE "on"

------------------------------------------------------------------------------
(* The settings                                                            *)

Proceed(h, statement) == at' = [at EXCEPT ![h] = statement]

\* An update is received: its handler, and those of the same user that still
\* run, are not alone any more.
Start(h, u, k) ==
    /\ at[h] = "idle"
    /\ Proceed(h, "look")
    /\ kind' = [kind EXCEPT ![h] = k]
    /\ user' = [user EXCEPT ![h] = u]
    /\ alone' = [g \in Handlers |-> IF g = h THEN RunningFor(u) = {}
                                    ELSE alone[g] /\ user[g] # u]
    /\ UNCHANGED <<switch, shown, value, muddled>>

\* send_notifications
OpenSettings(h, u) == Start(h, u, "view")

\* toggle_notifications, on the button of a settings message
TapSwitch(h, u) == shown[u] # "nothing" /\ Start(h, u, "tap")

\* What get_settings returns is shown, or turned.
Got(h, position) ==
    IF kind[h] = "view"
    THEN Proceed(h, "answer") /\ value' = [value EXCEPT ![h] = position]
    ELSE Proceed(h, "find") /\ value' = [value EXCEPT ![h] = Opposite(position)]

\* get_or_create, its SELECT; the transaction of a row that is found ends here
Look(h) ==
    /\ at[h] = "look"
    /\ IF switch[user[h]] = "none" THEN Proceed(h, "insert") /\ UNCHANGED value
       ELSE Got(h, switch[user[h]])
    /\ UNCHANGED <<switch, shown, kind, user, alone, muddled>>

\* get_or_create, its INSERT and the commit
Insert(h) ==
    /\ at[h] = "insert"
    /\ switch[user[h]] = "none"
    /\ switch' = [switch EXCEPT ![user[h]] = "off"]
    /\ Got(h, "off")
    /\ UNCHANGED <<shown, kind, user, alone, muddled>>

\* set_enabled, its SELECT: the session writes only what differs
Find(h) ==
    /\ at[h] = "find"
    /\ Proceed(h, IF switch[user[h]] = value[h] THEN "answer" ELSE "write")
    /\ UNCHANGED <<switch, shown, kind, user, value, alone, muddled>>

\* set_enabled, its UPDATE and the commit
Write(h) ==
    /\ at[h] = "write"
    /\ switch' = [switch EXCEPT ![user[h]] = value[h]]
    /\ Proceed(h, "answer")
    /\ UNCHANGED <<shown, kind, user, value, alone, muddled>>

Finish(h) ==
    /\ Proceed(h, "idle")
    /\ kind' = [kind EXCEPT ![h] = "view"]
    /\ user' = [user EXCEPT ![h] = NoOne]
    /\ value' = [value EXCEPT ![h] = "none"]
    /\ alone' = [alone EXCEPT ![h] = FALSE]

\* The settings message is sent or edited.
Answer(h) ==
    /\ at[h] = "answer"
    /\ shown' = [shown EXCEPT ![user[h]] = value[h]]
    /\ muddled' = IF alone[h] THEN muddled \ {user[h]} ELSE muddled \union {user[h]}
    /\ Finish(h)
    /\ UNCHANGED switch

\* The handler ends before that: its INSERT finds the row of another one, a
\* transaction fails, Telegram refuses the edit, or the bot stops.
Abandon(h) ==
    /\ at[h] # "idle"
    /\ muddled' = muddled \union {user[h]}
    /\ Finish(h)
    /\ UNCHANGED <<switch, shown>>

SettingsStep ==
    /\ \E h \in Handlers :
        \/ \E u \in Users : OpenSettings(h, u) \/ TapSwitch(h, u)
        \/ Look(h) \/ Insert(h) \/ Find(h) \/ Write(h)
        \/ Answer(h) \/ Abandon(h)
    /\ UNCHANGED <<workerVars, announcements>>

------------------------------------------------------------------------------
(* The announcement                                                        *)

\* Mutation of Subscribers: the condition is missing.
EveryoneWithARow == {u \in Users : switch[u] # "none"}

\* list_enabled_telegram_user_ids
Subscribers == {u \in Users : switch[u] = "on"}

\* mark_publication_succeeded queues a row for every subscriber.
Announce ==
    IF announced' = announced THEN UNCHANGED announcements
    ELSE announcements' = [u \in Users |->
            IF u \in Subscribers THEN announcements[u] + 1
            ELSE announcements[u]]

WorkOf(w) ==
    /\ \E a \in Activities : a[1] = w /\ Work(a)
    /\ Announce
    /\ UNCHANGED settingsVars

CrashOf(w) == Crash(w) /\ UNCHANGED <<settingsVars, announcements>>

------------------------------------------------------------------------------

AnnouncementsInit ==
    /\ Init
    /\ switch = [u \in Users |-> "none"]
    /\ shown = [u \in Users |-> "nothing"]
    /\ at = [h \in Handlers |-> "idle"]
    /\ kind = [h \in Handlers |-> "view"]
    /\ user = [h \in Handlers |-> NoOne]
    /\ value = [h \in Handlers |-> "none"]
    /\ alone = [h \in Handlers |-> FALSE]
    /\ announcements = [u \in Users |-> 0]
    /\ muddled = {}

AnnouncementsNext ==
    \/ SettingsStep
    \/ \E w \in Workers : WorkOf(w) \/ CrashOf(w)

AnnouncementsSpec ==
    /\ AnnouncementsInit
    /\ [][AnnouncementsNext]_allVars
    /\ \A w \in Workers : WF_allVars(WorkOf(w))

------------------------------------------------------------------------------

\* A handler has read a position, and has a user, exactly from where the code
\* has.
AnnouncementsTypeOK ==
    /\ TypeOK
    /\ switch \in [Users -> Positions \union {"none"}]
    /\ shown \in [Users -> Positions \union {"nothing"}]
    /\ at \in [Handlers -> Statements]
    /\ kind \in [Handlers -> {"view", "tap"}]
    /\ user \in [Handlers -> Users \union {NoOne}]
    /\ value \in [Handlers -> Positions \union {"none"}]
    /\ alone \in [Handlers -> BOOLEAN]
    /\ \A h \in Handlers :
        /\ at[h] = "idle" <=> user[h] = NoOne
        /\ at[h] \in {"find", "write", "answer"} <=> value[h] # "none"
    /\ announcements \in [Users -> Nat]
    /\ muddled \subseteq Users

\* Nobody is told of an event twice, however often its publication is
\* dispatched, reconciled, interrupted or not heard to be committed, and
\* whatever the user does to the switch meanwhile.
AnnouncedOnce == \A u \in Users : announcements[u] <= 1

\* The user waits for no answer, and has last got one from a handler that ran
\* alone.
Settled(u) == u \notin muddled /\ RunningFor(u) = {}

\* An event is announced to those, and only to those, whose settings message
\* says so, except to users who have tapped twice at once or have been left
\* without an answer.
ToldAsShown ==
    [][announced' # announced =>
        \A u \in Users : Settled(u) /\ shown[u] # "nothing" =>
            (announcements'[u] = 1 <=> shown[u] = "on")]_allVars

\* A tap that overlaps nothing does what its button said, and the message shows
\* the row.
TapsTurn ==
    [][\A h \in Handlers :
        LET u == user[h]
        IN  /\ at[h] = "answer" /\ kind[h] = "tap"
            /\ at'[h] = "idle"
            /\ u \notin muddled \union muddled'
            => shown'[u] # shown[u] /\ shown'[u] = switch[u]]_allVars
==============================================================================
