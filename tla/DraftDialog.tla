------------------------------ MODULE DraftDialog ------------------------------
(***************************************************************************)
(* The dialog in which an administrator enters the text of one or several  *)
(* events, is shown a preview and publishes it (handlers.py), the parser   *)
(* of that text (domain/parsing.py), and the setting it depends on.        *)
(*                                                                         *)
(* The dialog of a chat is kept in the memory of the bot.  Each update is  *)
(* handled by a task of its own: a task goes on without interruption until *)
(* it waits for the database or for Telegram, and between the test of the  *)
(* dialog's state that selects a handler and the handler other tasks run.  *)
(* A text is the sequence of its blocks; what the model keeps of a block   *)
(* is the times the parser compares.                                       *)
(***************************************************************************)
EXTENDS Integers, Sequences, FiniteSets

CONSTANTS
    Texts,      \* texts the administrator may send
    NoText,     \* not a text
    Taps,       \* ids of callback queries: taps on a publish button
    NoTap,      \* not a tap
    Handlers,   \* updates of the chat handled at once
    MaxOffset,  \* largest default_cancel_deadline_offset_minutes entered
    MaxTime     \* bound of the model on the clock

ASSUME BoundsAssumption == MaxOffset \in Nat /\ MaxTime \in Nat
ASSUME NoneAssumption == NoText \notin Texts /\ NoTap \notin Taps

\* The cancellation deadline of a block is given, the line for it is absent,
\* or it is there without a value.
Block == [start : Nat, deadline : Nat, line : {"given", "absent", "empty"}]

ASSUME TextsAssumption == \A text \in Texts : text \in Seq(Block)

VARIABLES
    now,        \* the clock
    setting,    \* system_settings.default_cancel_deadline_offset_minutes
    state,      \* the state of the dialog
    mode,       \* data["mode"] of the dialog, "single" if there is none
    raw,        \* data["raw_text"] of the dialog
    pc,         \* where a handler is
    job,        \* the local variables of a handler
    previewed,  \* a preview with its buttons has been sent to the chat
    published,  \* the event rows of every publication
    done,       \* the keys of processed_commands
    offered,    \* history: the texts offered for publication, with their mode
    turned      \* history: the mode is not the one the text was offered in, for
                \* a dialog of the other mode was begun over it

dialog == <<state, mode, raw, turned>>
effects == <<previewed, published, done, offered>>
vars == <<now, setting, state, mode, raw, pc, job, previewed, published,
          done, offered, turned>>

States == {"none", "single_input", "batch_input", "confirmation"}
Modes == {"single", "batch"}
Keys == Taps \X Modes
Steps == {"idle", "text", "tap", "edit", "discard", "settings", "parse", "show",
          "publish", "clear"}

\* turned is what the history says of the text and mode when they are read.
NoJob == [tap |-> NoTap, text |-> NoText, mode |-> "single", offset |-> 0,
          turned |-> FALSE]

InputState(m) == IF m = "batch" THEN "batch_input" ELSE "single_input"

------------------------------------------------------------------------------
(* AdminEventInputParser                                                   *)

\* Mutation of Valid: the deadline is not compared with the start.
ValidAnyDeadline(block, t) == block.start > t

\* _validate_fields, at time t
Valid(block, t) ==
    /\ block.start > t
    /\ block.line = "given" => block.deadline < block.start

\* parse_many takes a text if every block of it is valid.  A line without a
\* value passes the validation and stops the parser with an AssertionError.
Accepted(text, t) ==
    /\ text # <<>>
    /\ \A i \in DOMAIN text : Valid(text[i], t) /\ text[i].line # "empty"

\* _build_input_block: the default deadline lies the offset before the start
Event(block, offset) ==
    [start |-> block.start,
     deadline |-> IF block.line = "given" THEN block.deadline
                  ELSE block.start - offset]

\* preview_single_event and preview_batch: the events of a text, in single
\* mode only the first, whatever the text has
Events(text, m, offset) ==
    [i \in 1 .. (IF m = "single" THEN 1 ELSE Len(text)) |-> Event(text[i], offset)]

------------------------------------------------------------------------------

Goto(h, step) == pc' = [pc EXCEPT ![h] = step]

\* The handler goes on and does not use its variables any more.
MoveOn(h, step) ==
    /\ Goto(h, step)
    /\ job' = [job EXCEPT ![h] = NoJob]

Finish(h) == MoveOn(h, "idle")

\* Mutation of ClearDialog: the data is cleared and the state is not.
ClearData ==
    /\ mode' = "single"
    /\ raw' = NoText
    /\ turned' = FALSE
    /\ UNCHANGED state

\* state.clear()
ClearDialog ==
    /\ state' = "none"
    /\ mode' = "single"
    /\ raw' = NoText
    /\ turned' = FALSE

\* new_event and new_batch; the text of an earlier dialog remains
NewDialog(m) ==
    /\ state' = InputState(m)
    /\ mode' = m
    /\ turned' = (turned \/ (raw # NoText /\ m # mode))
    /\ UNCHANGED <<now, setting, raw, pc, job, effects>>

\* The command cancel, in any state of the dialog.
Cancel ==
    /\ ClearDialog
    /\ UNCHANGED <<now, setting, pc, job, effects>>

\* An update passes the test of the state and gets its handler.
Receive(h, step, local) ==
    /\ pc[h] = "idle"
    /\ Goto(h, step)
    /\ job' = [job EXCEPT ![h] = local]
    /\ UNCHANGED <<now, setting, dialog, effects>>

ReceiveText(h, text) ==
    /\ state \in {"single_input", "batch_input"}
    /\ Receive(h, "text", [NoJob EXCEPT !.text = text])

\* A tap on the buttons of any preview; that of publish has an id, and may be
\* delivered more than once.
ReceiveTap(h) ==
    /\ state = "confirmation"
    /\ previewed
    /\ \/ \E tap \in Taps : Receive(h, "tap", [NoJob EXCEPT !.tap = tap])
       \/ Receive(h, "edit", NoJob)
       \/ Receive(h, "discard", NoJob)

\* edit_draft
EditDraft(h) ==
    /\ pc[h] = "edit"
    /\ state' = InputState(mode)
    /\ Finish(h)
    /\ UNCHANGED <<now, setting, mode, raw, turned, effects>>

\* cancel_draft
DiscardDraft(h) ==
    /\ pc[h] = "discard"
    /\ ClearDialog
    /\ Finish(h)
    /\ UNCHANGED <<now, setting, effects>>

------------------------------------------------------------------------------
(* collect_admin_draft and publish_draft                                   *)

\* collect_admin_draft reads the mode once the actor is loaded.
ReadMode(h) ==
    /\ pc[h] = "text"
    /\ job' = [job EXCEPT ![h].mode = mode]
    /\ Goto(h, "settings")
    /\ UNCHANGED <<now, setting, dialog, effects>>

\* Mutation of DraftLost: the text is not looked at.
NeverLost == FALSE

\* The dialog was cleared since the tap was received.
DraftLost == raw = NoText

\* publish_draft reads the text and the mode.
ReadDraft(h) ==
    /\ pc[h] = "tap"
    /\ \/ /\ DraftLost
          /\ ClearDialog
          /\ Finish(h)
       \/ /\ ~DraftLost
          /\ job' = [job EXCEPT ![h].text = raw, ![h].mode = mode,
                                ![h].turned = turned]
          /\ Goto(h, "settings")
          /\ UNCHANGED dialog
    /\ UNCHANGED <<now, setting, effects>>

\* EventDraftingService reads the setting for every preview and publication.
ReadSettings(h) ==
    /\ pc[h] = "settings"
    /\ job' = [job EXCEPT ![h].offset = setting]
    /\ Goto(h, "parse")
    /\ UNCHANGED <<now, setting, dialog, effects>>

\* Mutation of StoreText: the mode is taken to be in the data already.
StoreTextOnly(h) ==
    /\ raw' = job[h].text
    /\ UNCHANGED mode

\* update_data(raw_text=text, mode=mode): the mode that the text was parsed in
StoreText(h) ==
    /\ raw' = job[h].text
    /\ mode' = job[h].mode

\* A text that is not taken is answered with its errors, or with nothing.
Parse(h) ==
    /\ pc[h] = "parse"
    /\ \/ /\ ~Accepted(job[h].text, now)
          /\ Finish(h)
          /\ UNCHANGED <<dialog, offered>>
       \/ /\ Accepted(job[h].text, now)
          /\ job[h].tap = NoTap
          /\ state' = "confirmation"
          /\ StoreText(h)
          /\ offered' = offered \union {<<job[h].text, job[h].mode>>}
          /\ turned' = FALSE
          /\ MoveOn(h, "show")
       \/ /\ Accepted(job[h].text, now)
          /\ job[h].tap # NoTap
          /\ Goto(h, "publish")
          /\ UNCHANGED <<dialog, job, offered>>
    /\ UNCHANGED <<now, setting, previewed, published, done>>

Draft(h) == Events(job[h].text, job[h].mode, job[h].offset)

\* The preview is sent, or sending it fails.
ShowPreview(h) ==
    /\ pc[h] = "show"
    /\ previewed' \in {previewed, TRUE}
    /\ Finish(h)
    /\ UNCHANGED <<now, setting, dialog, published, done, offered>>

\* _run_idempotent does what has not been done for the key, which is the id of
\* the callback query and the mode.
NotYetDone(key) == key \notin done

\* publish_single_draft or publish_batch_drafts
Publish(h) ==
    /\ pc[h] = "publish"
    /\ LET key == <<job[h].tap, job[h].mode>>
       IN  \/ /\ NotYetDone(key)
              /\ published' = published \union {Draft(h)}
              /\ done' = done \union {key}
           \/ /\ ~NotYetDone(key)
              /\ UNCHANGED <<published, done>>
    /\ MoveOn(h, "clear")
    /\ UNCHANGED <<now, setting, dialog, previewed, offered>>

\* Its transaction is rolled back, and the exception ends the handler.
PublishFails(h) ==
    /\ pc[h] = "publish"
    /\ Finish(h)
    /\ UNCHANGED <<now, setting, dialog, effects>>

\* The dialog is cleared, whatever has become of it meanwhile.
EndDialog(h) ==
    /\ pc[h] = "clear"
    /\ ClearDialog
    /\ Finish(h)
    /\ UNCHANGED <<now, setting, effects>>

------------------------------------------------------------------------------

\* set_default_cancel_deadline_offset_minutes, by an owner in another chat
SetDefaultOffset(n) ==
    /\ n # setting
    /\ setting' = n
    /\ UNCHANGED <<now, dialog, pc, job, effects>>

Tick ==
    /\ now < MaxTime
    /\ now' = now + 1
    /\ UNCHANGED <<setting, dialog, pc, job, effects>>

\* The bot stops and is started again: the memory of its dialogs is lost.
Crash ==
    /\ ClearDialog
    /\ pc' = [h \in Handlers |-> "idle"]
    /\ job' = [h \in Handlers |-> NoJob]
    /\ UNCHANGED <<now, setting, effects>>

Init ==
    /\ now = 0
    /\ setting \in 0 .. MaxOffset
    /\ state = "none"
    /\ mode = "single"
    /\ raw = NoText
    /\ pc = [h \in Handlers |-> "idle"]
    /\ job = [h \in Handlers |-> NoJob]
    /\ previewed = FALSE
    /\ published = {}
    /\ done = {}
    /\ offered = {}
    /\ turned = FALSE

Handle(h) ==
    \/ \E text \in Texts : ReceiveText(h, text)
    \/ ReceiveTap(h)
    \/ EditDraft(h) \/ DiscardDraft(h)
    \/ ReadMode(h) \/ ReadDraft(h) \/ ReadSettings(h)
    \/ Parse(h) \/ ShowPreview(h)
    \/ Publish(h) \/ PublishFails(h) \/ EndDialog(h)

Next ==
    \/ \E m \in Modes : NewDialog(m)
    \/ Cancel
    \/ \E h \in Handlers : Handle(h)
    \/ \E n \in 0 .. MaxOffset : SetDefaultOffset(n)
    \/ Tick
    \/ Crash

Spec == Init /\ [][Next]_vars

------------------------------------------------------------------------------

Dated == [start : Nat, deadline : Int]

\* The dialog is in a state of AdminDraftStates or in none, and a handler that
\* reads settings or is behind that has a text.
TypeOK ==
    /\ now \in 0 .. MaxTime /\ setting \in 0 .. MaxOffset
    /\ state \in States /\ mode \in Modes
    /\ raw \in Texts \union {NoText}
    /\ pc \in [Handlers -> Steps]
    /\ \A h \in Handlers :
        pc[h] \in {"settings", "parse", "publish"} => job[h].text \in Texts
    /\ previewed \in BOOLEAN
    /\ \A events \in published : \A i \in DOMAIN events : events[i] \in Dated
    /\ done \subseteq Keys
    /\ offered \subseteq Texts \X Modes
    /\ turned \in BOOLEAN

\* A dialog that waits for the confirmation has a text to publish, although
\* handlers that were selected in an earlier state of it go on to change it
\* (publish_draft says "the draft is lost" otherwise).
ConfirmationHasText == state = "confirmation" => raw # NoText

\* What a handler is about to publish has been offered for publication in just
\* the mode in which it is published, as one event or as a week, although the
\* text and the mode are read after the tap was received and other handlers
\* change both meanwhile (collect_admin_draft stores the mode with the text).
\* The exception: they were read after new_event or new_batch had begun a
\* dialog of the other mode over the text, whose text remains.
PublishedAsOffered ==
    \A h \in Handlers :
        pc[h] = "publish" =>
            job[h].turned \/ <<job[h].text, job[h].mode>> \in offered

\* An event is published with a deadline that does not lie behind its start,
\* whether it was entered or follows from the setting of the moment, and a
\* batch is not empty: what EventInputBlock demands and the ledger starts from.
PublishedAreSound ==
    \A events \in published :
        /\ events # <<>>
        /\ \A i \in DOMAIN events : events[i].deadline <= events[i].start
==============================================================================
