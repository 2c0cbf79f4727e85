-------------------------- MODULE PublicationWorker --------------------------
(***************************************************************************)
(* The publication of one batch of events by the worker: the outbox row of *)
(* the request, the event rows of the batch, and the group chat.           *)
(*                                                                         *)
(* Every step is one query, one transaction or one call of the Telegram    *)
(* API of OutboxProcessor; between two steps anything can happen, and the  *)
(* worker can stop.  The events of a batch change together and stand for   *)
(* one row.  The delay between two attempts is not modelled: a row that is *)
(* not sent may be fetched at any time.                                    *)
(***************************************************************************)
EXTENDS Naturals, FiniteSets

CONSTANTS
    Workers,        \* worker processes
    MaxCrashes,     \* bound of the model on stops of a worker
    MaxFaults,      \* bound of the model on failed transactions
    MaxLost,        \* bound of the model on lost answers of Telegram
    MaxUnheard      \* bound of the model on lost answers to a COMMIT

ASSUME WorkersAssumption == IsFiniteSet(Workers)
ASSUME MaxCrashesAssumption == MaxCrashes \in Nat
ASSUME MaxFaultsAssumption == MaxFaults \in Nat
ASSUME MaxLostAssumption == MaxLost \in Nat
ASSUME MaxUnheardAssumption == MaxUnheard \in Nat

VARIABLES
    sent,       \* outbox_events.sent_at is set
    recorded,   \* reconciliation_message_id in the payload, 0 if none
    batch,      \* publication_batches.status
    linked,     \* the events have the publication_batch_id of the batch
    stored,     \* telegram_group_message_id of the events, 0 if none
    announced,  \* how many times event.announced was queued for subscribers
    posts,      \* the messages in the group chat
    lastPost,   \* the id of the last message sent
    pc,         \* where an activity of a worker is
    known,      \* the recorded post in the row as the activity fetched it
    message,    \* the post the activity has sent or taken from the row
    crashes,    \* stops so far
    faults,     \* failed transactions so far
    lost,       \* lost answers of Telegram so far
    unheard     \* commits so far whose answer was lost

row == <<sent, recorded>>
events == <<batch, linked, stored, announced>>
chat == <<posts, lastPost>>
locals == <<pc, known, message>>
bounds == <<crashes, faults, lost, unheard>>
vars == <<sent, recorded, batch, linked, stored, announced, posts, lastPost,
          pc, known, message, crashes, faults, lost, unheard>>

\* The loop of run() and the job of the scheduler
Activities == Workers \X {"run_once", "reconcile_once"}

Steps == {"idle", "load", "send", "persist", "reconcile", "give_up", "delete",
          "record", "fail", "finish"}

\* processing_lock: one activity of a worker runs at a time
Unlocked(a) == \A b \in Activities : b[1] = a[1] => pc[b] = "idle"

\* How an error of _dispatch_publication ends the turn of its row:
\* TerminalOutboxDispatchError marks it sent, RetryableOutboxDispatchError
\* keeps the id of the post in it, any other leaves it as it is.
Terminal == "finish"
Retryable == "record"
Other == "fail"

\* Mutations: the error of another kind is raised.
RetriedRefusal == Other
SwallowedError == Terminal
RecordedDeletion == Retryable
ForgottenPost == Other

\* The errors raised when the post was refused and the events are drafts
\* again, when that could not be stored, and when a post that could not be
\* stored was deleted, or was not.
AfterRefusal == Terminal
AfterError == Other
AfterDeletion == Other
AfterFailedDeletion == Retryable

\* Mutation of FailedBatch: the status of the events.
DraftBatch == "draft"

\* PublicationBatchStatus.FAILED
FailedBatch == "failed"

Goto(a, step) == pc' = [pc EXCEPT ![a] = step]

\* A transaction is rolled back.
Fault ==
    /\ faults < MaxFaults
    /\ faults' = faults + 1
    /\ UNCHANGED <<crashes, lost, unheard>>

\* Telegram carries a call out, and its answer is lost.
ReplyLost ==
    /\ lost < MaxLost
    /\ lost' = lost + 1
    /\ UNCHANGED <<crashes, faults, unheard>>

\* A transaction is committed, and the answer to the COMMIT is lost.
CommitUnheard ==
    /\ unheard < MaxUnheard
    /\ unheard' = unheard + 1
    /\ UNCHANGED <<crashes, faults, lost>>

------------------------------------------------------------------------------

\* fetch_pending or fetch_reconciliation_candidates; the row locks they take
\* are released before the dispatch
Fetch(a) ==
    /\ Unlocked(a)
    /\ ~sent
    /\ a[2] = "reconcile_once" => recorded # 0
    /\ known' = [known EXCEPT ![a] = recorded]
    /\ Goto(a, "load")
    /\ UNCHANGED <<row, events, chat, message, bounds>>

\* Mutation of Reconciled: a published batch is not recognised.
NeverReconciled == FALSE

\* _publication_already_reconciled
Reconciled == stored # 0

\* _load_stored_publication_events and the decisions of _dispatch_publication
Load(a) ==
    /\ pc[a] = "load"
    /\ \/ ~linked /\ Goto(a, AfterError) /\ UNCHANGED message
       \/ linked /\ Reconciled /\ Goto(a, "finish") /\ UNCHANGED message
       \/ /\ linked
          /\ ~Reconciled
          /\ Goto(a, IF known[a] # 0 THEN "reconcile" ELSE "send")
          /\ message' = [message EXCEPT ![a] = known[a]]
    /\ UNCHANGED <<row, events, chat, known, bounds>>

\* send_group_post: the message is posted, and the answer arrives or is lost
SendAccepted(a) ==
    /\ pc[a] = "send"
    /\ lastPost' = lastPost + 1
    /\ posts' = posts \union {lastPost + 1}
    /\ message' = [message EXCEPT ![a] = lastPost + 1]
    /\ \/ Goto(a, "persist") /\ UNCHANGED bounds
       \/ Goto(a, "give_up") /\ ReplyLost
    /\ UNCHANGED <<row, events, known>>

\* ... or it is not posted: no rights, or any other error
SendRefused(a) ==
    /\ pc[a] = "send"
    /\ Goto(a, "give_up")
    /\ UNCHANGED <<row, events, chat, known, message, bounds>>

\* Where a call of mark_publication_succeeded that raises leads
AfterPersistError(a) == IF pc[a] = "persist" THEN "delete" ELSE AfterError

\* mark_publication_succeeded, for a post just sent or for the recorded one
Persist(a) ==
    /\ pc[a] \in {"persist", "reconcile"}
    /\ linked
    /\ batch' = "published"
    /\ stored' = message[a]
    /\ announced' = announced + 1
    /\ \/ Goto(a, "finish") /\ UNCHANGED bounds
       \/ Goto(a, AfterPersistError(a)) /\ CommitUnheard
    /\ UNCHANGED <<row, linked, chat, known, message>>

\* It fails: the transaction does, or the events have left the batch.
PersistFails(a) ==
    /\ pc[a] \in {"persist", "reconcile"}
    /\ (~linked /\ UNCHANGED bounds) \/ Fault
    /\ Goto(a, AfterPersistError(a))
    /\ UNCHANGED <<row, events, chat, known, message>>

\* delete_group_post, after a post could not be persisted
DeleteSucceeds(a) ==
    /\ pc[a] = "delete"
    /\ posts' = posts \ {message[a]}
    /\ \/ Goto(a, AfterDeletion) /\ UNCHANGED bounds
       \/ Goto(a, AfterFailedDeletion) /\ ReplyLost
    /\ UNCHANGED <<row, events, lastPost, known, message>>

DeleteFails(a) ==
    /\ pc[a] = "delete"
    /\ Goto(a, AfterFailedDeletion)
    /\ UNCHANGED <<row, events, chat, known, message, bounds>>

\* mark_publication_failed: every event goes back to a draft of no batch
GiveUp(a) ==
    /\ pc[a] = "give_up"
    /\ linked
    /\ batch' = FailedBatch
    /\ linked' = FALSE
    /\ stored' = 0
    /\ \/ Goto(a, AfterRefusal) /\ UNCHANGED bounds
       \/ Goto(a, AfterError) /\ CommitUnheard
    /\ UNCHANGED <<row, announced, chat, known, message>>

GiveUpFails(a) ==
    /\ pc[a] = "give_up"
    /\ (~linked /\ UNCHANGED bounds) \/ Fault
    /\ Goto(a, AfterError)
    /\ UNCHANGED <<row, events, chat, known, message>>

\* The end of a turn of _process_messages: mark_sent after a success or a
\* terminal failure, mark_failed, with the id of the post or without it
Settle(a) ==
    /\ pc[a] \in {"finish", "fail", "record"}
    /\ sent' = (sent \/ pc[a] = "finish")
    /\ recorded' = IF pc[a] = "record" THEN message[a] ELSE recorded
    /\ Goto(a, "idle")
    /\ known' = [known EXCEPT ![a] = 0]
    /\ message' = [message EXCEPT ![a] = 0]
    /\ UNCHANGED <<events, chat, bounds>>

\* A worker stops, by itself when mark_sent or mark_failed fails, and is
\* started again.
Crash(w) ==
    /\ crashes < MaxCrashes
    /\ \E a \in Activities : a[1] = w /\ pc[a] # "idle"
    /\ crashes' = crashes + 1
    /\ pc' = [a \in Activities |-> IF a[1] = w THEN "idle" ELSE pc[a]]
    /\ known' = [a \in Activities |-> IF a[1] = w THEN 0 ELSE known[a]]
    /\ message' = [a \in Activities |-> IF a[1] = w THEN 0 ELSE message[a]]
    /\ UNCHANGED <<row, events, chat, faults, lost, unheard>>

------------------------------------------------------------------------------

\* publish_single_draft or publish_batch_drafts has committed.
Init ==
    /\ sent = FALSE
    /\ recorded = 0
    /\ batch = "publishing"
    /\ linked = TRUE
    /\ stored = 0
    /\ announced = 0
    /\ posts = {}
    /\ lastPost = 0
    /\ pc = [a \in Activities |-> "idle"]
    /\ known = [a \in Activities |-> 0]
    /\ message = [a \in Activities |-> 0]
    /\ crashes = 0
    /\ faults = 0
    /\ lost = 0
    /\ unheard = 0

Work(a) ==
    \/ Fetch(a) \/ Load(a)
    \/ SendAccepted(a) \/ SendRefused(a)
    \/ Persist(a) \/ PersistFails(a)
    \/ DeleteSucceeds(a) \/ DeleteFails(a)
    \/ GiveUp(a) \/ GiveUpFails(a)
    \/ Settle(a)

Next ==
    \/ \E a \in Activities : Work(a)
    \/ \E w \in Workers : Crash(w)

\* A worker that is started goes on polling.
Spec ==
    /\ Init
    /\ [][Next]_vars
    /\ \A w \in Workers :
        WF_vars(\E a \in Activities : a[1] = w /\ Work(a))

------------------------------------------------------------------------------

\* The batch has a status of PublicationBatchStatus, and every id of a post
\* that is stored, recorded or remembered is the id of a post that was sent.
TypeOK ==
    /\ sent \in BOOLEAN /\ linked \in BOOLEAN
    /\ batch \in {"publishing", "published", "failed"}
    /\ posts \subseteq 1 .. lastPost
    /\ recorded \in 0 .. lastPost /\ stored \in 0 .. lastPost
    /\ announced \in Nat
    /\ pc \in [Activities -> Steps]
    /\ known \in [Activities -> 0 .. lastPost]
    /\ message \in [Activities -> 0 .. lastPost]
    /\ crashes \in 0 .. MaxCrashes /\ faults \in 0 .. MaxFaults
    /\ lost \in 0 .. MaxLost /\ unheard \in 0 .. MaxUnheard

\* A further post of the same batch appears only when the worker stopped
\* between sending one and storing it, or did not hear that it was sent: a
\* failed transaction deletes the post or records it for reconciliation.
OnePostPerStart == Cardinality(posts) <= 1 + crashes + lost

\* A request is not dropped before its events are published or drafts again,
\* and the batch says which.
SentIsSettled ==
    sent => \/ batch = "published" /\ linked /\ stored # 0
            \/ batch = "failed" /\ ~linked

\* The message that the events name, into which the free seats are edited, is
\* in the group chat, unless Telegram deleted it and the answer was lost, or it
\* was deleted because nobody heard that the transaction had stored it.
StoredPostExists == stored # 0 => stored \in posts \/ lost + unheard > 0

\* Whatever fails and wherever the worker stops, a request is settled in the
\* end, but for one that has made its events drafts again and has been
\* interrupted, or has not heard that it did.
SettledUnlessStopped ==
    <>sent \/ <>[](batch = "failed" /\ crashes + unheard > 0)

\* Every publication request is settled in the end ("service must recover
\* after restart").
RequestIsSettled == <>sent
==============================================================================
