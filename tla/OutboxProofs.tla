----------------------------- MODULE OutboxProofs -----------------------------
(***************************************************************************)
(* Proofs about the outbox worker and about what an announcement goes      *)
(* through: PublicationWorker for one worker process, as the compose files *)
(* start it, and for any number of stops, failed transactions and lost     *)
(* answers; Announcements for any users and any number of handlers and,    *)
(* where the worker matters, for one process.                              *)
(*                                                                         *)
(* The worker.  The lock of the process leaves one activity at work, and   *)
(* that the activity has loaded events without a post stays true until it  *)
(* stores one itself; so a batch is announced when, and only when, a post  *)
(* is stored.  An activity that sends a post has found none recorded, so   *)
(* that the only post it may delete is its own.  A post more than one is   *)
(* paid for by a stop or a lost answer: as long as another one may be sent *)
(* (Spare), every post in the chat has been.                               *)
(*                                                                         *)
(* The settings.  While a handler is alone, nobody else changes its user's *)
(* switch or settings message.  So the position that it shows is the row   *)
(* (AnswerInv), the position it has turned to is not the one shown         *)
(* (TurnInv), and a user who waits for no answer and whose last handler    *)
(* was alone is shown the row (ShownInv).                                  *)
(***************************************************************************)
EXTENDS Announcements, FiniteSetTheorems, TLAPS

------------------------------------------------------------------------------
(* The worker.                                                            *)

\* Where an activity has loaded a batch without a post and has not settled it
Publishing == {"send", "persist", "reconcile", "give_up"}

\* Where it has no post of its own
Postless == {"idle", "load", "send", "give_up", "fail"}

WorkerTypeOK ==
    /\ TypeOK
    /\ lastPost \in Nat

OneActivity ==
    \A a, b \in Activities : pc[a] # "idle" /\ pc[b] # "idle" => a = b

Published == batch = "published" /\ linked /\ stored # 0
Failed == batch = "failed" /\ ~linked

\* What the rows of the events can be.
EventsInv ==
    /\ announced = IF stored = 0 THEN 0 ELSE 1
    /\ Published \/ Failed \/ linked
    /\ stored # 0 => Published

\* What the activity at work knows of them.
ActivityInv ==
    \A a \in Activities :
        /\ pc[a] \in Publishing => linked /\ stored = 0
        /\ pc[a] \in {"persist", "reconcile", "delete", "record"} => message[a] # 0
        /\ pc[a] = "finish" => Published \/ Failed
        /\ pc[a] = "delete" /\ unheard = 0 => stored = 0
        /\ pc[a] # "idle" => ~sent

SentInv == sent => Published \/ Failed

\* Posts that are named somewhere
PostsInv ==
    /\ recorded # 0 => recorded \in posts \/ lost > 0
    /\ \A a \in Activities :
        /\ pc[a] # "idle" => known[a] = recorded
        /\ pc[a] \in {"persist", "delete"} => message[a] \in posts
        /\ pc[a] \in {"send", "persist", "give_up", "delete", "record"} => recorded = 0
        /\ pc[a] = "reconcile" => recorded # 0 /\ message[a] = recorded
        /\ pc[a] = "record" => message[a] \in posts \/ lost > 0

Spare ==
    /\ linked /\ stored = 0 /\ recorded = 0
    /\ \A a \in Activities : pc[a] \in Postless

CountInv ==
    /\ IsFiniteSet(posts)
    /\ Cardinality(posts) <= 1 + crashes + lost
    /\ Spare => Cardinality(posts) <= crashes + lost

WInv ==
    /\ WorkerTypeOK /\ OneActivity /\ EventsInv /\ ActivityInv /\ SentInv
    /\ PostsInv /\ StoredPostExists /\ CountInv

------------------------------------------------------------------------------

\* The activities at work but for one
Alone(a) == \A b \in Activities : b # a => pc[b] = "idle"

LEMMA OfOneWorker ==
  ASSUME NEW w, Workers = {w}
  PROVE  \A a \in Activities : a[1] = w
  BY DEF Activities

LEMMA InitWInv == Init => WInv
  <1> SUFFICES ASSUME Init PROVE WInv
    OBVIOUS
  <1>1. WorkerTypeOK
    <2>1. 0 \in 0 .. 0 /\ 0 \in 0 .. MaxCrashes /\ 0 \in 0 .. MaxFaults
            /\ 0 \in 0 .. MaxLost /\ 0 \in 0 .. MaxUnheard
      BY MaxCrashesAssumption, MaxFaultsAssumption, MaxLostAssumption, MaxUnheardAssumption
    <2>2. "idle" \in Steps
      BY DEF Steps
    <2> QED BY <2>1, <2>2 DEF Init, WorkerTypeOK, TypeOK
  <1>2. OneActivity /\ EventsInv /\ ActivityInv /\ SentInv /\ PostsInv /\ StoredPostExists
    BY DEF Init, OneActivity, EventsInv, ActivityInv, SentInv, PostsInv, StoredPostExists,
       Publishing
  <1>3. CountInv
    BY FS_EmptySet, <1>1 DEF Init, CountInv, WorkerTypeOK, TypeOK
  <1> QED BY <1>1, <1>2, <1>3 DEF WInv

\* The types, for any number of workers
LEMMA WorkerTypeStep ==
  ASSUME WorkerTypeOK, [Next]_vars
  PROVE  WorkerTypeOK'
  <1> USE MaxCrashesAssumption, MaxFaultsAssumption, MaxLostAssumption, MaxUnheardAssumption
          DEF WorkerTypeOK, TypeOK, Steps, row, events, chat, locals, bounds
  <1>1. CASE UNCHANGED vars
    BY <1>1 DEF vars
  <1>2. ASSUME NEW w \in Workers, Crash(w) PROVE WorkerTypeOK'
    BY <1>2 DEF Crash
  <1>3. ASSUME NEW a \in Activities, Fetch(a) PROVE WorkerTypeOK'
    BY <1>3 DEF Fetch, Goto
  <1>4. ASSUME NEW a \in Activities, Load(a) PROVE WorkerTypeOK'
    BY <1>4 DEF Load, Goto, AfterError, Other
  <1>5. ASSUME NEW a \in Activities, SendAccepted(a) PROVE WorkerTypeOK'
    BY <1>5 DEF SendAccepted, Goto, ReplyLost
  <1>6. ASSUME NEW a \in Activities, SendRefused(a) PROVE WorkerTypeOK'
    BY <1>6 DEF SendRefused, Goto
  <1>7. ASSUME NEW a \in Activities, Persist(a) PROVE WorkerTypeOK'
    BY <1>7 DEF Persist, Goto, AfterPersistError, AfterError, Other, CommitUnheard
  <1>8. ASSUME NEW a \in Activities, PersistFails(a) PROVE WorkerTypeOK'
    BY <1>8 DEF PersistFails, Goto, AfterPersistError, AfterError, Other, Fault
  <1>9. ASSUME NEW a \in Activities, DeleteSucceeds(a) PROVE WorkerTypeOK'
    <2>1. pc' \in [Activities -> Steps]
      BY <1>9 DEF DeleteSucceeds, Goto, AfterDeletion, AfterFailedDeletion, Other, Retryable
    <2>2. crashes' \in 0 .. MaxCrashes /\ faults' \in 0 .. MaxFaults
            /\ lost' \in 0 .. MaxLost /\ unheard' \in 0 .. MaxUnheard
      BY <1>9 DEF DeleteSucceeds, ReplyLost
    <2> QED BY <1>9, <2>1, <2>2 DEF DeleteSucceeds
  <1>10. ASSUME NEW a \in Activities, DeleteFails(a) PROVE WorkerTypeOK'
    BY <1>10 DEF DeleteFails, Goto, AfterFailedDeletion, Retryable
  <1>11. ASSUME NEW a \in Activities, GiveUp(a) PROVE WorkerTypeOK'
    <2>1. pc' \in [Activities -> Steps]
      BY <1>11 DEF GiveUp, Goto, AfterRefusal, AfterError, Terminal, Other
    <2>2. crashes' \in 0 .. MaxCrashes /\ faults' \in 0 .. MaxFaults
            /\ lost' \in 0 .. MaxLost /\ unheard' \in 0 .. MaxUnheard
      BY <1>11 DEF GiveUp, CommitUnheard
    <2>3. batch' = "failed" /\ stored' \in 0 .. lastPost /\ linked' = FALSE
      BY <1>11 DEF GiveUp, FailedBatch
    <2>4. UNCHANGED <<sent, recorded, announced, posts, lastPost, known, message>>
      BY <1>11 DEF GiveUp
    <2> QED BY <2>1, <2>2, <2>3, <2>4
  <1>12. ASSUME NEW a \in Activities, GiveUpFails(a) PROVE WorkerTypeOK'
    BY <1>12 DEF GiveUpFails, Goto, AfterError, Other, Fault
  <1>13. ASSUME NEW a \in Activities, Settle(a) PROVE WorkerTypeOK'
    BY <1>13 DEF Settle, Goto
  <1> QED
    BY <1>1, <1>2, <1>3, <1>4, <1>5, <1>6, <1>7, <1>8, <1>9, <1>10, <1>11, <1>12, <1>13
    DEF Next, Work

------------------------------------------------------------------------------
(* The steps of one activity while all others are idle                     *)

\* All of WInv but the types and the number of posts
RowsInv ==
    /\ EventsInv /\ ActivityInv /\ SentInv /\ PostsInv /\ StoredPostExists

LEMMA FetchRows ==
  ASSUME WorkerTypeOK, RowsInv, NEW a \in Activities, Alone(a), Fetch(a), pc[a] = "idle"
  PROVE  RowsInv'
  BY DEF RowsInv, WorkerTypeOK, TypeOK, EventsInv, ActivityInv, SentInv, PostsInv,
     StoredPostExists, Published, Failed, Publishing, Alone, Fetch, Goto, row, events, chat, bounds

LEMMA LoadRows ==
  ASSUME WorkerTypeOK, RowsInv, NEW a \in Activities, Alone(a), Load(a)
  PROVE  RowsInv'
  <1> USE DEF WorkerTypeOK, TypeOK, RowsInv, Published, Failed, Publishing, Alone, Load, Reconciled,
          Goto, row, events, chat, bounds,
          AfterError, Other
  <1>1. EventsInv'
    BY DEF EventsInv, ActivityInv
  <1>2. ActivityInv'
    BY DEF ActivityInv, EventsInv, PostsInv
  <1>3. SentInv'
    BY DEF SentInv, ActivityInv
  <1>4. PostsInv'
    BY DEF PostsInv, ActivityInv
  <1>5. StoredPostExists'
    BY DEF StoredPostExists, PostsInv, ActivityInv
  <1> QED BY <1>1, <1>2, <1>3, <1>4, <1>5

LEMMA SendAcceptedRows ==
  ASSUME WorkerTypeOK, RowsInv, NEW a \in Activities, Alone(a), SendAccepted(a)
  PROVE  RowsInv'
  <1> USE DEF WorkerTypeOK, TypeOK, RowsInv, Published, Failed, Publishing, Alone, SendAccepted, ReplyLost,
          Goto, row, events, chat, bounds
  <1>1. EventsInv'
    BY DEF EventsInv, ActivityInv
  <1>2. ActivityInv'
    BY DEF ActivityInv, EventsInv, PostsInv
  <1>3. SentInv'
    BY DEF SentInv, ActivityInv
  <1>4. PostsInv'
    BY DEF PostsInv, ActivityInv
  <1>5. StoredPostExists'
    BY DEF StoredPostExists, PostsInv, ActivityInv
  <1> QED BY <1>1, <1>2, <1>3, <1>4, <1>5

LEMMA SendRefusedRows ==
  ASSUME WorkerTypeOK, RowsInv, NEW a \in Activities, Alone(a), SendRefused(a)
  PROVE  RowsInv'
  <1> USE DEF WorkerTypeOK, TypeOK, RowsInv, Published, Failed, Publishing, Alone, SendRefused,
          Goto, row, events, chat, bounds
  <1>1. EventsInv'
    BY DEF EventsInv, ActivityInv
  <1>2. ActivityInv'
    BY DEF ActivityInv, EventsInv, PostsInv
  <1>3. SentInv'
    BY DEF SentInv, ActivityInv
  <1>4. PostsInv'
    BY DEF PostsInv, ActivityInv
  <1>5. StoredPostExists'
    BY DEF StoredPostExists, PostsInv, ActivityInv
  <1> QED BY <1>1, <1>2, <1>3, <1>4, <1>5

LEMMA PersistRows ==
  ASSUME WorkerTypeOK, RowsInv, NEW a \in Activities, Alone(a), Persist(a)
  PROVE  RowsInv'
  <1> USE DEF WorkerTypeOK, TypeOK, RowsInv, Published, Failed, Publishing, Alone, Persist, AfterPersistError, CommitUnheard,
          Goto, row, events, chat, bounds,
          AfterError, Other
  <1>1. EventsInv'
    BY DEF EventsInv, ActivityInv
  <1>2. ActivityInv'
    BY DEF ActivityInv, EventsInv, PostsInv
  <1>3. SentInv'
    BY DEF SentInv, ActivityInv
  <1>4. PostsInv'
    BY DEF PostsInv, ActivityInv
  <1>5. StoredPostExists'
    BY DEF StoredPostExists, PostsInv, ActivityInv
  <1> QED BY <1>1, <1>2, <1>3, <1>4, <1>5

LEMMA PersistFailsRows ==
  ASSUME WorkerTypeOK, RowsInv, NEW a \in Activities, Alone(a), PersistFails(a)
  PROVE  RowsInv'
  <1> USE DEF WorkerTypeOK, TypeOK, RowsInv, Published, Failed, Publishing, Alone, PersistFails, AfterPersistError, Fault,
          Goto, row, events, chat, bounds,
          AfterError, Other
  <1>1. EventsInv'
    BY DEF EventsInv, ActivityInv
  <1>2. ActivityInv'
    BY DEF ActivityInv, EventsInv, PostsInv
  <1>3. SentInv'
    BY DEF SentInv, ActivityInv
  <1>4. PostsInv'
    BY DEF PostsInv, ActivityInv
  <1>5. StoredPostExists'
    BY DEF StoredPostExists, PostsInv, ActivityInv
  <1> QED BY <1>1, <1>2, <1>3, <1>4, <1>5

LEMMA DeleteSucceedsRows ==
  ASSUME WorkerTypeOK, RowsInv, NEW a \in Activities, Alone(a), DeleteSucceeds(a)
  PROVE  RowsInv'
  <1> USE DEF WorkerTypeOK, TypeOK, RowsInv, Published, Failed, Publishing, Alone, DeleteSucceeds, ReplyLost,
          Goto, row, events, chat, bounds,
          AfterDeletion, AfterFailedDeletion, Other, Retryable
  <1>1. EventsInv'
    BY DEF EventsInv, ActivityInv
  <1>2. ActivityInv'
    BY DEF ActivityInv, EventsInv, PostsInv
  <1>3. SentInv'
    BY DEF SentInv, ActivityInv
  <1>4. PostsInv'
    BY DEF PostsInv, ActivityInv
  <1>5. StoredPostExists'
    BY DEF StoredPostExists, PostsInv, ActivityInv
  <1> QED BY <1>1, <1>2, <1>3, <1>4, <1>5

LEMMA DeleteFailsRows ==
  ASSUME WorkerTypeOK, RowsInv, NEW a \in Activities, Alone(a), DeleteFails(a)
  PROVE  RowsInv'
  <1> USE DEF WorkerTypeOK, TypeOK, RowsInv, Published, Failed, Publishing, Alone, DeleteFails,
          Goto, row, events, chat, bounds,
          AfterFailedDeletion, Retryable
  <1>1. EventsInv'
    BY DEF EventsInv, ActivityInv
  <1>2. ActivityInv'
    BY DEF ActivityInv, EventsInv, PostsInv
  <1>3. SentInv'
    BY DEF SentInv, ActivityInv
  <1>4. PostsInv'
    BY DEF PostsInv, ActivityInv
  <1>5. StoredPostExists'
    BY DEF StoredPostExists, PostsInv, ActivityInv
  <1> QED BY <1>1, <1>2, <1>3, <1>4, <1>5

LEMMA GiveUpRows ==
  ASSUME WorkerTypeOK, RowsInv, NEW a \in Activities, Alone(a), GiveUp(a)
  PROVE  RowsInv'
  <1> USE DEF WorkerTypeOK, TypeOK, RowsInv, Published, Failed, Publishing, Alone, GiveUp, CommitUnheard, FailedBatch,
          Goto, row, events, chat, bounds,
          AfterRefusal, AfterError, Terminal, Other
  <1>1. EventsInv'
    BY DEF EventsInv, ActivityInv
  <1>2. ActivityInv'
    BY DEF ActivityInv, EventsInv, PostsInv
  <1>3. SentInv'
    BY DEF SentInv, ActivityInv
  <1>4. PostsInv'
    BY DEF PostsInv, ActivityInv
  <1>5. StoredPostExists'
    BY DEF StoredPostExists, PostsInv, ActivityInv
  <1> QED BY <1>1, <1>2, <1>3, <1>4, <1>5

LEMMA GiveUpFailsRows ==
  ASSUME WorkerTypeOK, RowsInv, NEW a \in Activities, Alone(a), GiveUpFails(a)
  PROVE  RowsInv'
  <1> USE DEF WorkerTypeOK, TypeOK, RowsInv, Published, Failed, Publishing, Alone, GiveUpFails, Fault,
          Goto, row, events, chat, bounds,
          AfterError, Other
  <1>1. EventsInv'
    BY DEF EventsInv, ActivityInv
  <1>2. ActivityInv'
    BY DEF ActivityInv, EventsInv, PostsInv
  <1>3. SentInv'
    BY DEF SentInv, ActivityInv
  <1>4. PostsInv'
    BY DEF PostsInv, ActivityInv
  <1>5. StoredPostExists'
    BY DEF StoredPostExists, PostsInv, ActivityInv
  <1> QED BY <1>1, <1>2, <1>3, <1>4, <1>5

LEMMA SettleRows ==
  ASSUME WorkerTypeOK, RowsInv, NEW a \in Activities, Alone(a), Settle(a)
  PROVE  RowsInv'
  <1> USE DEF WorkerTypeOK, TypeOK, RowsInv, Published, Failed, Publishing, Alone, Settle,
          Goto, row, events, chat, bounds
  <1>1. EventsInv'
    BY DEF EventsInv, ActivityInv
  <1>2. ActivityInv'
    BY DEF ActivityInv, EventsInv, PostsInv
  <1>3. SentInv'
    BY DEF SentInv, ActivityInv
  <1>4. PostsInv'
    BY DEF PostsInv, ActivityInv
  <1>5. StoredPostExists'
    BY DEF StoredPostExists, PostsInv, ActivityInv
  <1> QED BY <1>1, <1>2, <1>3, <1>4, <1>5

\* A stop forgets the activity; what it leaves behind is what the rows say.
LEMMA CrashRows ==
  ASSUME WorkerTypeOK, RowsInv, NEW w \in Workers, Crash(w),
         \A a \in Activities : pc'[a] = "idle"
  PROVE  RowsInv'
  BY DEF RowsInv, EventsInv, ActivityInv, SentInv, PostsInv, StoredPostExists,
     Published, Failed, Publishing, Crash, row, events, chat

------------------------------------------------------------------------------
(* The number of posts                                                     *)

\* Steps that neither send nor delete and after which no more posts may follow
\* than before
LEMMA SamePosts ==
  ASSUME CountInv, UNCHANGED <<posts, crashes>>, WorkerTypeOK,
         lost' = lost \/ lost' = lost + 1,
         Spare' => Spare
  PROVE  CountInv'
  <1>1. Cardinality(posts) \in Nat /\ crashes \in Nat /\ lost \in Nat
    BY FS_CardinalityType, MaxCrashesAssumption, MaxLostAssumption DEF CountInv, WorkerTypeOK, TypeOK
  <1> QED BY <1>1 DEF CountInv

LEMMA SendAcceptedCount ==
  ASSUME CountInv, WorkerTypeOK, RowsInv, NEW a \in Activities, Alone(a), SendAccepted(a)
  PROVE  CountInv'
  <1>1. Spare
    BY DEF SendAccepted, Spare, Alone, Postless, RowsInv, ActivityInv, PostsInv, Publishing
  <1>2. IsFiniteSet(posts) /\ Cardinality(posts) \in Nat /\ crashes \in Nat /\ lost \in Nat
    BY FS_CardinalityType, MaxCrashesAssumption, MaxLostAssumption DEF CountInv, WorkerTypeOK, TypeOK
  <1>3. lastPost + 1 \notin posts
    BY DEF WorkerTypeOK, TypeOK
  <1>4. IsFiniteSet(posts') /\ Cardinality(posts') = Cardinality(posts) + 1
    BY <1>2, <1>3, FS_AddElement DEF SendAccepted
  <1>5. crashes' = crashes /\ (lost' = lost \/ lost' = lost + 1)
    BY DEF SendAccepted, ReplyLost, bounds
  <1>6. Spare' => lost' = lost + 1
    <2> SUFFICES ASSUME pc'[a] # "give_up" \/ lost' # lost + 1 PROVE ~Spare'
      BY DEF Spare
    <2>1. pc'[a] = "persist"
      BY DEF SendAccepted, Goto, ReplyLost, WorkerTypeOK, TypeOK
    <2> QED BY <2>1 DEF Spare, Postless
  <1> QED BY <1>1, <1>2, <1>4, <1>5, <1>6 DEF CountInv

LEMMA DeleteSucceedsCount ==
  ASSUME CountInv, WorkerTypeOK, RowsInv, NEW a \in Activities, DeleteSucceeds(a)
  PROVE  CountInv'
  <1>1. message[a] \in posts
    BY DEF DeleteSucceeds, RowsInv, PostsInv
  <1>2. IsFiniteSet(posts) /\ Cardinality(posts) \in Nat /\ crashes \in Nat /\ lost \in Nat
    BY FS_CardinalityType, MaxCrashesAssumption, MaxLostAssumption DEF CountInv, WorkerTypeOK, TypeOK
  <1>3. IsFiniteSet(posts') /\ Cardinality(posts') = Cardinality(posts) - 1
    BY <1>1, <1>2, FS_RemoveElement DEF DeleteSucceeds
  <1>4. crashes' = crashes /\ (lost' = lost \/ lost' = lost + 1)
    BY DEF DeleteSucceeds, ReplyLost, bounds
  <1> QED BY <1>2, <1>3, <1>4 DEF CountInv

\* A stop pays for the post that the activity may have sent.
LEMMA CrashCount ==
  ASSUME CountInv, WorkerTypeOK, NEW w \in Workers, Crash(w)
  PROVE  CountInv'
  <1>1. Cardinality(posts) \in Nat /\ crashes \in Nat /\ lost \in Nat
    BY FS_CardinalityType, MaxCrashesAssumption, MaxLostAssumption DEF CountInv, WorkerTypeOK, TypeOK
  <1> QED BY <1>1 DEF CountInv, Crash, chat

LEMMA WorkCount ==
  ASSUME CountInv, WorkerTypeOK, RowsInv, NEW a \in Activities, Alone(a), Work(a)
  PROVE  CountInv'
  <1> USE DEF WorkerTypeOK, TypeOK, row, events, chat, bounds, Goto
  <1>1. CASE Fetch(a)
    BY <1>1, SamePosts DEF Fetch, Unlocked, Spare, Alone, Postless
  <1>2. CASE Load(a)
    BY <1>2, SamePosts DEF Load, Spare, Alone, Postless
  <1>3. CASE SendRefused(a)
    BY <1>3, SamePosts DEF SendRefused, Spare, Alone, Postless
  <1>4. CASE Persist(a)
    <2>1. stored' # 0
      BY <1>4 DEF Persist, RowsInv, ActivityInv
    <2> QED BY <1>4, <2>1, SamePosts DEF Persist, CommitUnheard, Spare
  <1>5. CASE PersistFails(a)
    <2>1. Spare' => recorded # 0 \/ pc'[a] = "delete" \/ ~linked
      BY <1>5 DEF PersistFails, AfterPersistError, RowsInv, PostsInv
    <2>2. ~Spare'
      BY <1>5, <2>1 DEF PersistFails, Spare, Postless
    <2> QED BY <1>5, <2>2, SamePosts DEF PersistFails, Fault
  <1>6. CASE DeleteFails(a)
    <2>1. ~Spare'
      BY <1>6 DEF DeleteFails, AfterFailedDeletion, Retryable, Spare, Postless
    <2> QED BY <1>6, <2>1, SamePosts DEF DeleteFails
  <1>7. CASE GiveUp(a)
    BY <1>7, SamePosts DEF GiveUp, CommitUnheard, Spare
  <1>8. CASE GiveUpFails(a)
    BY <1>8, SamePosts DEF GiveUpFails, Fault, Spare, Alone, Postless
  <1>9. CASE Settle(a)
    <2>1. CASE pc[a] = "finish"
      <3>1. ~Spare'
        BY <1>9, <2>1 DEF Settle, Spare, RowsInv, ActivityInv, Published, Failed
      <3> QED BY <1>9, <3>1, SamePosts DEF Settle
    <2>2. CASE pc[a] = "fail"
      BY <1>9, <2>2, SamePosts DEF Settle, Spare, Alone, Postless
    <2>3. CASE pc[a] = "record"
      <3>1. recorded' # 0
        BY <1>9, <2>3 DEF Settle, RowsInv, ActivityInv
      <3> QED BY <1>9, <3>1, SamePosts DEF Settle, Spare
    <2> QED BY <1>9, <2>1, <2>2, <2>3 DEF Settle
  <1> QED
    BY <1>1, <1>2, <1>3, <1>4, <1>5, <1>6, <1>7, <1>8, <1>9, SendAcceptedCount,
       DeleteSucceedsCount DEF Work

------------------------------------------------------------------------------

\* The lock of the process (processing_lock) leaves one activity at work.
LEMMA WorkerStep ==
  ASSUME NEW w, Workers = {w}, WInv, [Next]_vars
  PROVE  WInv'
  <1>1. WorkerTypeOK'
    BY WorkerTypeStep DEF WInv
  <1>2. CASE UNCHANGED vars
    BY <1>2 DEF vars, WInv, WorkerTypeOK, TypeOK, OneActivity, EventsInv, ActivityInv, SentInv,
       PostsInv, StoredPostExists, CountInv, Spare, Published, Failed
  <1>3. ASSUME NEW a \in Activities, Work(a)
        PROVE  WInv'
    <2>1. Alone(a) /\ (Fetch(a) => pc[a] = "idle")
      <3>1. CASE Fetch(a)
        BY <3>1, OfOneWorker DEF Fetch, Unlocked, Alone
      <3>2. CASE ~Fetch(a)
        <4>1. pc[a] # "idle"
          BY <1>3, <3>2 DEF Work, Load, SendAccepted, SendRefused, Persist, PersistFails,
             DeleteSucceeds, DeleteFails, GiveUp, GiveUpFails, Settle
        <4> QED BY <3>2, <4>1 DEF WInv, OneActivity, Alone
      <3> QED BY <3>1, <3>2
    <2>2. RowsInv'
      <3>1. RowsInv /\ WorkerTypeOK
        BY DEF WInv, RowsInv
      <3> QED
        BY <1>3, <2>1, <3>1, FetchRows, LoadRows, SendAcceptedRows, SendRefusedRows, PersistRows,
           PersistFailsRows, DeleteSucceedsRows, DeleteFailsRows, GiveUpRows, GiveUpFailsRows,
           SettleRows DEF Work
    <2>3. CountInv'
      BY <1>3, <2>1, WorkCount DEF WInv, RowsInv
    <2>4. OneActivity'
      <3>1. \A b \in Activities : b # a => pc'[b] = pc[b]
        BY <1>3 DEF WInv, WorkerTypeOK, TypeOK, Work, Fetch, Load, SendAccepted, SendRefused,
           Persist, PersistFails, DeleteSucceeds, DeleteFails, GiveUp, GiveUpFails, Settle, Goto
      <3> QED BY <2>1, <3>1 DEF Alone, OneActivity
    <2> QED BY <1>1, <2>2, <2>3, <2>4 DEF WInv, RowsInv
  <1>4. ASSUME NEW v \in Workers, Crash(v)
        PROVE  WInv'
    <2>1. \A a \in Activities : pc'[a] = "idle"
      BY <1>4, OfOneWorker DEF Crash
    <2>2. RowsInv'
      BY <1>4, <2>1, CrashRows DEF WInv, RowsInv
    <2>3. CountInv'
      BY <1>4, CrashCount DEF WInv
    <2> QED BY <1>1, <2>1, <2>2, <2>3 DEF WInv, RowsInv, OneActivity
  <1> QED BY <1>2, <1>3, <1>4 DEF Next

LEMMA WorkerInv ==
  ASSUME NEW w, Workers = {w}
  PROVE  Spec => []WInv
  <1>1. Init => WInv
    BY InitWInv
  <1>2. WInv /\ [Next]_vars => WInv'
    BY WorkerStep
  <1> QED BY <1>1, <1>2, PTL DEF Spec

\* The worker drops a request (mark_sent) only after its events are published
\* or drafts again, wherever it stops and whatever fails.
THEOREM DroppedIsSettled ==
  ASSUME NEW w, Workers = {w}
  PROVE  Spec => []SentIsSettled
  <1>1. WInv => SentIsSettled
    BY DEF WInv, SentInv, SentIsSettled, Published, Failed
  <1> QED BY WorkerInv, <1>1, PTL

\* A batch is posted once more only after a stop between a post and its storing
\* or a lost answer, and at most once for each of them, however many there are.
THEOREM PostsArePaidFor ==
  ASSUME NEW w, Workers = {w}
  PROVE  Spec => []OnePostPerStart
  <1>1. WInv => OnePostPerStart
    BY DEF WInv, CountInv, OnePostPerStart
  <1> QED BY WorkerInv, <1>1, PTL

\* The post that the events name is in the group chat, or an answer was lost
\* (the compensation of _dispatch_publication deletes no other post).
THEOREM NamedPostExists ==
  ASSUME NEW w, Workers = {w}
  PROVE  Spec => []StoredPostExists
  <1>1. WInv => StoredPostExists
    BY DEF WInv
  <1> QED BY WorkerInv, <1>1, PTL

------------------------------------------------------------------------------
(* The settings and the announcements.                                    *)

SettingsTypeOK ==
    /\ switch \in [Users -> Positions \union {"none"}]
    /\ shown \in [Users -> Positions \union {"nothing"}]
    /\ at \in [Handlers -> Statements]
    /\ kind \in [Handlers -> {"view", "tap"}]
    /\ user \in [Handlers -> Users \union {NoOne}]
    /\ value \in [Handlers -> Positions \union {"none"}]
    /\ alone \in [Handlers -> BOOLEAN]
    /\ muddled \subseteq Users

\* A handler has a user from its start to its end, and a position from the end
\* of its first transaction.
LocalsInv ==
    \A h \in Handlers :
        /\ at[h] = "idle" <=> user[h] = NoOne
        /\ at[h] \in {"find", "write", "answer"} <=> value[h] # "none"

AloneInv ==
    \A h \in Handlers : alone[h] =>
        at[h] # "idle" /\ \A g \in Handlers : user[g] = user[h] => g = h

AnswerInv ==
    \A h \in Handlers :
        alone[h] /\ at[h] = "answer" => value[h] = switch[user[h]]

ShownInv ==
    \A u \in Users : Settled(u) => shown[u] \in {"nothing", switch[u]}

TurnInv ==
    \A h \in Handlers : alone[h] /\ kind[h] = "tap" /\ user[h] \notin muddled =>
        /\ at[h] = "look" => shown[user[h]] = switch[user[h]]
        /\ at[h] # "insert"
        /\ at[h] \in {"find", "write", "answer"} => shown[user[h]] # value[h]

SInv ==
    /\ SettingsTypeOK /\ LocalsInv /\ AloneInv /\ AnswerInv /\ ShownInv /\ TurnInv

------------------------------------------------------------------------------

LEMMA InitSInv == AnnouncementsInit => SInv
  BY UsersAssumption DEF AnnouncementsInit, SInv, SettingsTypeOK, LocalsInv, AloneInv, AnswerInv, ShownInv,
     TurnInv, Positions, Statements

\* A handler starts.
LEMMA StartStep ==
  ASSUME SInv, NEW h \in Handlers, NEW u \in Users, NEW k \in {"view", "tap"}, Start(h, u, k),
         k = "tap" => shown[u] # "nothing"
  PROVE  SInv'
  <1> USE UsersAssumption DEF SInv, SettingsTypeOK, LocalsInv, Start, Proceed, Statements
  <1>1. SettingsTypeOK' /\ LocalsInv'
    OBVIOUS
  <1>2. AloneInv'
    BY DEF AloneInv, RunningFor
  <1>3. AnswerInv'
    BY DEF AnswerInv, AloneInv
  <1>4. ShownInv'
    BY DEF ShownInv, Settled, RunningFor
  <1>5. TurnInv'
    <2> SUFFICES ASSUME NEW g \in Handlers, alone'[g], kind'[g] = "tap", user'[g] \notin muddled'
                 PROVE  /\ at'[g] = "look" => shown'[user'[g]] = switch'[user'[g]]
                        /\ at'[g] # "insert"
                        /\ at'[g] \in {"find", "write", "answer"} => shown'[user'[g]] # value'[g]
      BY DEF TurnInv
    <2>1. CASE g = h
      <3>1. Settled(u) /\ shown[u] # "nothing"
        BY <2>1 DEF Settled
      <3> QED BY <2>1, <3>1 DEF ShownInv
    <2>2. CASE g # h
      BY <2>2 DEF TurnInv
    <2> QED BY <2>1, <2>2
  <1> QED BY <1>1, <1>2, <1>3, <1>4, <1>5

\* The position that is read is shown, or another one is to be written.
LEMMA LookStep ==
  ASSUME SInv, NEW h \in Handlers, Look(h)
  PROVE  SInv'
  <1> USE UsersAssumption DEF SInv, SettingsTypeOK, LocalsInv, Look, Got, Opposite, Positions, Proceed, Statements
  <1>1. SettingsTypeOK' /\ LocalsInv'
    OBVIOUS
  <1>2. AloneInv'
    BY DEF AloneInv
  <1>3. AnswerInv'
    BY DEF AnswerInv, AloneInv
  <1>4. ShownInv'
    BY DEF ShownInv, Settled, RunningFor
  <1>5. TurnInv'
    BY DEF TurnInv, AloneInv
  <1> QED BY <1>1, <1>2, <1>3, <1>4, <1>5

\* The new row is off.
LEMMA InsertStep ==
  ASSUME SInv, NEW h \in Handlers, Insert(h)
  PROVE  SInv'
  <1> USE UsersAssumption DEF SInv, SettingsTypeOK, LocalsInv, Insert, Got, Opposite, Positions, Proceed, Statements
  <1>1. SettingsTypeOK' /\ LocalsInv'
    OBVIOUS
  <1>2. AloneInv'
    BY DEF AloneInv
  <1>3. AnswerInv'
    BY DEF AnswerInv, AloneInv
  <1>4. ShownInv'
    BY DEF ShownInv, Settled, RunningFor
  <1>5. TurnInv'
    BY DEF TurnInv, AloneInv
  <1> QED BY <1>1, <1>2, <1>3, <1>4, <1>5

\* A position that the row has already is not written.
LEMMA FindStep ==
  ASSUME SInv, NEW h \in Handlers, Find(h)
  PROVE  SInv'
  <1> USE UsersAssumption DEF SInv, SettingsTypeOK, LocalsInv, Find, Proceed, Statements
  <1>1. SettingsTypeOK' /\ LocalsInv'
    OBVIOUS
  <1>2. AloneInv'
    BY DEF AloneInv
  <1>3. AnswerInv'
    BY DEF AnswerInv, AloneInv
  <1>4. ShownInv'
    BY DEF ShownInv, Settled, RunningFor
  <1>5. TurnInv'
    BY DEF TurnInv, AloneInv
  <1> QED BY <1>1, <1>2, <1>3, <1>4, <1>5

\* The row gets the position that is shown next.
LEMMA WriteStep ==
  ASSUME SInv, NEW h \in Handlers, Write(h)
  PROVE  SInv'
  <1> USE UsersAssumption DEF SInv, SettingsTypeOK, LocalsInv, Write, Positions, Proceed, Statements
  <1>1. SettingsTypeOK' /\ LocalsInv'
    OBVIOUS
  <1>2. AloneInv'
    BY DEF AloneInv
  <1>3. AnswerInv'
    BY DEF AnswerInv, AloneInv
  <1>4. ShownInv'
    BY DEF ShownInv, Settled, RunningFor
  <1>5. TurnInv'
    BY DEF TurnInv, AloneInv
  <1> QED BY <1>1, <1>2, <1>3, <1>4, <1>5

\* A handler that was alone shows the row; who is not answered so is muddled.
LEMMA EndStep ==
  ASSUME SInv, NEW h \in Handlers, Answer(h) \/ Abandon(h)
  PROVE  SInv'
  <1> USE UsersAssumption DEF SInv, SettingsTypeOK, LocalsInv, Answer, Abandon, Finish, Proceed,
          Statements
  <1>1. SettingsTypeOK' /\ LocalsInv'
    <2>1. user[h] \in Users /\ at[h] # "idle"
      OBVIOUS
    <2>2. CASE Answer(h)
      <3>1. value[h] \in Positions
        BY <2>2
      <3>2. shown' \in [Users -> Positions \union {"nothing"}] /\ muddled' \subseteq Users
        BY <2>1, <2>2, <3>1
      <3>3. SettingsTypeOK'
        BY <2>2, <3>2
      <3> QED BY <2>2, <3>3
    <2>3. CASE Abandon(h)
      <3>1. SettingsTypeOK'
        BY <2>1, <2>3
      <3> QED BY <2>3, <3>1
    <2> QED BY <2>2, <2>3
  <1>2. AloneInv'
    BY DEF AloneInv
  <1>3. AnswerInv'
    BY DEF AnswerInv
  <1>4. ShownInv'
    BY DEF ShownInv, Settled, RunningFor, AnswerInv
  <1>5. TurnInv'
    BY DEF TurnInv, AloneInv
  <1> QED BY <1>1, <1>2, <1>3, <1>4, <1>5

------------------------------------------------------------------------------

\* The worker changes nothing of the settings.
LEMMA SettingsInvStep ==
  ASSUME SInv, [AnnouncementsNext]_allVars
  PROVE  SInv'
  <1>1. CASE UNCHANGED settingsVars
    BY <1>1 DEF settingsVars, taskVars, SInv, SettingsTypeOK, LocalsInv, AloneInv, AnswerInv,
       ShownInv, TurnInv, Settled, RunningFor
  <1>2. CASE SettingsStep
    <2>1. PICK h \in Handlers :
            \/ \E u \in Users : OpenSettings(h, u) \/ TapSwitch(h, u)
            \/ Look(h) \/ Insert(h) \/ Find(h) \/ Write(h)
            \/ Answer(h) \/ Abandon(h)
      BY <1>2 DEF SettingsStep
    <2>2. CASE \E u \in Users : OpenSettings(h, u) \/ TapSwitch(h, u)
      BY <2>2, StartStep DEF OpenSettings, TapSwitch
    <2> QED BY <2>1, <2>2, LookStep, InsertStep, FindStep, WriteStep, EndStep
  <1> QED BY <1>1, <1>2 DEF AnnouncementsNext, WorkOf, CrashOf, allVars

LEMMA SettingsInv == AnnouncementsSpec => []SInv
  <1>1. AnnouncementsInit => SInv
    BY InitSInv
  <1>2. SInv /\ [AnnouncementsNext]_allVars => SInv'
    BY SettingsInvStep
  <1> QED BY <1>1, <1>2, PTL DEF AnnouncementsSpec

\* A tap that overlaps nothing does what its button said, whatever other users
\* and the worker do meanwhile (toggle_notifications).
THEOREM TapsDoWhatTheySay == AnnouncementsSpec => TapsTurn
  <1> DEFINE Turned(h) ==
        LET u == user[h]
        IN  /\ at[h] = "answer" /\ kind[h] = "tap"
            /\ at'[h] = "idle"
            /\ u \notin muddled \union muddled'
            => shown'[u] # shown[u] /\ shown'[u] = switch[u]
  <1>1. ASSUME SInv, [AnnouncementsNext]_allVars, NEW h \in Handlers
        PROVE  Turned(h)
    <2> SUFFICES ASSUME at[h] = "answer", kind[h] = "tap", at'[h] = "idle",
                        user[h] \notin muddled, user[h] \notin muddled'
                 PROVE  shown'[user[h]] # shown[user[h]] /\ shown'[user[h]] = switch[user[h]]
      OBVIOUS
    <2>1. at' # at
      OBVIOUS
    <2>2. PICK g \in Handlers :
            \/ \E u \in Users : OpenSettings(g, u) \/ TapSwitch(g, u)
            \/ Look(g) \/ Insert(g) \/ Find(g) \/ Write(g)
            \/ Answer(g) \/ Abandon(g)
      BY <1>1, <2>1 DEF AnnouncementsNext, SettingsStep, WorkOf, CrashOf, allVars, settingsVars,
         taskVars
    <2>3. g = h /\ (Answer(h) \/ Abandon(h))
      BY <1>1, <2>2 DEF SInv, SettingsTypeOK, OpenSettings, TapSwitch, Start, Look, Got, Insert,
         Find, Write, Answer, Abandon, Finish, Proceed
    <2>4. user[h] \in Users
      BY <1>1 DEF SInv, SettingsTypeOK, LocalsInv
    <2>5. Answer(h) /\ alone[h]
      BY <2>3 DEF Answer, Abandon
    <2>6. value[h] = switch[user[h]] /\ shown[user[h]] # value[h]
      BY <1>1, <2>5 DEF SInv, AnswerInv, TurnInv
    <2>7. shown'[user[h]] = value[h]
      BY <1>1, <2>4, <2>5 DEF Answer, SInv, SettingsTypeOK
    <2> QED BY <2>6, <2>7
  <1>2. SInv /\ [AnnouncementsNext]_allVars => [\A h \in Handlers : Turned(h)]_allVars
    BY <1>1
  <1> QED BY <1>2, SettingsInv, PTL DEF AnnouncementsSpec, TapsTurn

------------------------------------------------------------------------------
(* With one worker                                                         *)

\* No user has more rows of the announcement than it was queued.
QueuedInv ==
    /\ announcements \in [Users -> Nat]
    /\ \A u \in Users : announcements[u] <= announced

AInv == SInv /\ WInv /\ QueuedInv

LEMMA InitAInv == AnnouncementsInit => AInv
  <1> SUFFICES ASSUME AnnouncementsInit PROVE AInv
    OBVIOUS
  <1>1. QueuedInv
    BY DEF AnnouncementsInit, Init, QueuedInv
  <1> QED BY <1>1, InitSInv, InitWInv DEF AnnouncementsInit, AInv

LEMMA WorkerPart ==
  ASSUME [AnnouncementsNext]_allVars
  PROVE  [Next]_vars
  BY DEF AnnouncementsNext, SettingsStep, WorkOf, CrashOf, allVars, workerVars, Next

\* The announcement is queued once, by the step that stores the post.
LEMMA QueuedOnce ==
  ASSUME WInv, [Next]_vars, announced' # announced
  PROVE  announced = 0 /\ announced' = 1
  <1>1. PICK a \in Activities : Persist(a)
    BY DEF Next, Work, Crash, Fetch, Load, SendAccepted, SendRefused, Persist, PersistFails,
       DeleteSucceeds, DeleteFails, GiveUp, GiveUpFails, Settle, vars, events
  <1> QED BY <1>1 DEF Persist, WInv, ActivityInv, EventsInv, Publishing

LEMMA AInvStep ==
  ASSUME NEW w, Workers = {w}, AInv, [AnnouncementsNext]_allVars
  PROVE  AInv'
  <1>1. SInv' /\ WInv'
    BY SettingsInvStep, WorkerPart, WorkerStep DEF AInv
  <1>2. QueuedInv'
    <2>1. CASE UNCHANGED <<announcements, announced>>
      BY <2>1 DEF AInv, QueuedInv
    <2>2. CASE announced' # announced
      <3>1. announced = 0 /\ announced' = 1
        BY <2>2, WorkerPart, QueuedOnce DEF AInv
      <3>2. Announce
        BY <2>2 DEF AnnouncementsNext, SettingsStep, WorkOf, CrashOf, Crash, allVars, workerVars,
           vars, events
      <3> QED BY <2>2, <3>1, <3>2 DEF Announce, AInv, QueuedInv
    <2>3. announced' = announced => announcements' = announcements
      BY DEF AnnouncementsNext, SettingsStep, WorkOf, CrashOf, Announce, allVars
    <2> QED BY <2>1, <2>2, <2>3
  <1> QED BY <1>1, <1>2 DEF AInv

LEMMA AnnouncementsInv ==
  ASSUME NEW w, Workers = {w}
  PROVE  AnnouncementsSpec => []AInv
  <1>1. AnnouncementsInit => AInv
    BY InitAInv
  <1>2. AInv /\ [AnnouncementsNext]_allVars => AInv'
    BY AInvStep
  <1> QED BY <1>1, <1>2, PTL DEF AnnouncementsSpec

\* Nobody is told of an event twice (mark_publication_succeeded), however many
\* users, stops, lost answers and failed transactions there are.
THEOREM ToldOnce ==
  ASSUME NEW w, Workers = {w}
  PROVE  AnnouncementsSpec => []AnnouncedOnce
  <1>1. AInv => AnnouncedOnce
    <2> SUFFICES ASSUME AInv, NEW u \in Users PROVE announcements[u] <= 1
      BY DEF AnnouncedOnce
    <2>1. announced \in {0, 1}
      BY DEF AInv, WInv, EventsInv
    <2> QED BY <2>1 DEF AInv, QueuedInv
  <1> QED BY <1>1, AnnouncementsInv, PTL

\* An event is announced to those whose settings message says so
\* (list_enabled_telegram_user_ids), whatever their handlers do meanwhile.
THEOREM TheMessageIsKept ==
  ASSUME NEW w, Workers = {w}
  PROVE  AnnouncementsSpec => ToldAsShown
  <1> DEFINE Kept == announced' # announced =>
        \A u \in Users : Settled(u) /\ shown[u] # "nothing" =>
            (announcements'[u] = 1 <=> shown[u] = "on")
  <1>1. ASSUME AInv, [AnnouncementsNext]_allVars
        PROVE  Kept
    <2> SUFFICES ASSUME announced' # announced, NEW u \in Users, Settled(u), shown[u] # "nothing"
                 PROVE  announcements'[u] = 1 <=> shown[u] = "on"
      OBVIOUS
    <2>1. announced = 0 /\ announced' = 1
      BY <1>1, WorkerPart, QueuedOnce DEF AInv
    <2>2. announcements[u] = 0
      BY <1>1, <2>1 DEF AInv, QueuedInv
    <2>3. Announce
      BY <1>1 DEF AnnouncementsNext, SettingsStep, WorkOf, CrashOf, Crash, allVars, workerVars,
         vars, events
    <2>4. announcements'[u] = IF switch[u] = "on" THEN 1 ELSE 0
      BY <2>2, <2>3 DEF Announce, Subscribers
    <2>5. shown[u] = switch[u]
      BY <1>1 DEF AInv, SInv, ShownInv
    <2> QED BY <2>4, <2>5
  <1>2. AInv /\ [AnnouncementsNext]_allVars => [Kept]_allVars
    BY <1>1
  <1> QED BY <1>2, AnnouncementsInv, PTL DEF AnnouncementsSpec, ToldAsShown

\* The types, for any number of worker processes and whatever they do at the
\* same time.
THEOREM AnnouncementsTyped == AnnouncementsSpec => []AnnouncementsTypeOK
  <1> DEFINE Typed == WorkerTypeOK /\ SInv /\ announcements \in [Users -> Nat]
  <1>1. AnnouncementsInit => Typed
    <2> SUFFICES ASSUME AnnouncementsInit PROVE Typed
      OBVIOUS
    <2>1. WorkerTypeOK
      BY InitWInv DEF AnnouncementsInit, WInv
    <2>2. announcements \in [Users -> Nat]
      BY DEF AnnouncementsInit
    <2> QED BY <2>1, <2>2, InitSInv
  <1>2. Typed /\ [AnnouncementsNext]_allVars => Typed'
    <2> SUFFICES ASSUME Typed, [AnnouncementsNext]_allVars PROVE Typed'
      OBVIOUS
    <2>1. SInv' /\ WorkerTypeOK'
      BY SettingsInvStep, WorkerPart, WorkerTypeStep
    <2>2. announcements' = announcements \/ Announce
      BY DEF AnnouncementsNext, SettingsStep, WorkOf, CrashOf, allVars
    <2>3. announcements' \in [Users -> Nat]
      BY <2>2 DEF Announce
    <2> QED BY <2>1, <2>3
  <1>3. Typed => AnnouncementsTypeOK
    BY DEF WorkerTypeOK, SInv, SettingsTypeOK, LocalsInv, AnnouncementsTypeOK
  <1> QED BY <1>1, <1>2, <1>3, PTL DEF AnnouncementsSpec
==============================================================================
