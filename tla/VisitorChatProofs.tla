-------------------------- MODULE VisitorChatProofs --------------------------
(***************************************************************************)
(* Proofs about VisitorChat.  The chats change the event only by steps of  *)
(* its ledger, so that whatever is proved of the ledger holds here; with   *)
(* that, the last word of a chat is proved to be true.                     *)
(***************************************************************************)
EXTENDS VisitorChat, EventLedgerProofs, SequenceTheorems

\* A command from a chat is a step of the ledger, and an answer is none.
LEMMA ChatStep == [ChatNext]_allVars => [Next]_vars
<1> SUFFICES ASSUME [ChatNext]_allVars PROVE [Next]_vars
  OBVIOUS
<1>1. CASE Elsewhere
  BY <1>1 DEF Elsewhere, Next, RegistrationStep
<1>2. CASE TapRegister
  BY <1>2, VisitorAssumption DEF TapRegister, Next, RegistrationStep
<1>3. CASE TapCancelSeat \/ TapLeaveWaitlist
  BY <1>3, VisitorAssumption
  DEF TapCancelSeat, TapLeaveWaitlist, Next, RegistrationStep
<1>4. CASE OverrideSeat \/ OverrideWaitlistEntry
  BY <1>4, VisitorAssumption
  DEF OverrideSeat, OverrideWaitlistEntry, Next, RegistrationStep
<1>5. CASE \/ Repeat \/ Reread \/ TapCancelRefused \/ ReadFirst \/ ReadSecond
           \/ AnswerCommand \/ AnswerMyRegistrations \/ AnswerRoster
           \/ AnswerLost \/ \E i \in 1 .. MaxRows : Deliver(i)
  BY <1>5
  DEF Repeat, Reread, TapCancelRefused, ReadFirst, ReadSecond, AnswerCommand,
      AnswerMyRegistrations, AnswerRoster, AnswerLost, Deliver, ledgerVars
<1>6. CASE UNCHANGED allVars
  BY <1>6 DEF allVars, ledgerVars
<1> QED
  BY <1>1, <1>2, <1>3, <1>4, <1>5, <1>6 DEF ChatNext

\* The chats are one of the environments the ledger allows.
THEOREM ChatRunsOnTheLedger == ChatSpec => Spec
<1>1. ChatInit => Init
  BY DEF ChatInit
<1> QED
  BY <1>1, ChatStep, PTL DEF ChatSpec, Spec

\* So the inductive invariant of the ledger holds in every chat.
LEMMA ChatLedgerInv == ChatSpec => []IInv
BY ChatRunsOnTheLedger, Invariant, PTL

------------------------------------------------------------------------------
(* The last word                                                           *)

\* No row that waits will bring the visitor's standing.
NothingToCome == rows = <<>> \/ outdated

\* What a handler is about to say of the visitor is what the ledger says, or a
\* row that waits will say it, or something newer was said meanwhile.
HandlerIsUpToDate ==
    NothingToCome /\ ~overtaken =>
        /\ handler.step # "reread"
        /\ handler.step = "answer" /\ handler.reply # "too late"
            => ToldBy(handler.reply) = told[Visitor]
        /\ handler.step = "second"
            => (Visitor \in handler.first <=> told[Visitor] = "seat")
        /\ handler.step = "show" => Shown(handler.view) = told[Visitor]

WordInv ==
    /\ stored \in {"none", "confirmed", "waitlist", "cancelled"}
    /\ rows \in Seq(Notices)
    /\ outdated \in BOOLEAN
    /\ overtaken \in BOOLEAN
    /\ ~NothingToCome => rows[Len(rows)] = told[Visitor]
    /\ NothingToCome /\ lastWord # "stale" => lastWord = told[Visitor]
    /\ HandlerIsUpToDate

\* What was last queued for the visitor is the visitor's standing.
LEMMA VisitorIsTold ==
    ASSUME IInv
    PROVE  /\ told[Visitor] = Standing(Visitor)
           /\ told[Visitor] \in Notices
           /\ confirmed \in SUBSET Users
           /\ Waiting(position) \in SUBSET Users
           /\ Visitor \in confirmed <=> told[Visitor] = "seat"
           /\ Visitor \in Waiting(position) <=> told[Visitor] = "queue"
BY VisitorAssumption
DEF IInv, SeatInv, EveryoneIsTold, TypeOK, OneStanding, Waiting, Standing,
    Notices

\* A step of the ledger beside the handler, whose message to the visitor, if
\* there is one, is queued
LEMMA NotifiedStep ==
    ASSUME WordInv, told'[Visitor] \in Notices, Notified,
           UNCHANGED <<handler, stored, lastWord, overtaken>>
    PROVE  WordInv'
<1>1. CASE told'[Visitor] = told[Visitor]
  BY <1>1 DEF Notified, WordInv, NothingToCome, HandlerIsUpToDate
<1>2. CASE told'[Visitor] # told[Visitor]
  <2>1. /\ rows' = Append(rows, told'[Visitor])
        /\ outdated' = FALSE
    BY <1>2 DEF Notified
  <2>2. /\ rows' \in Seq(Notices)
        /\ rows' # <<>>
        /\ rows'[Len(rows')] = told'[Visitor]
    BY <2>1 DEF WordInv
  <2> QED
    BY <2>1, <2>2 DEF WordInv, NothingToCome, HandlerIsUpToDate
<1> QED
  BY <1>1, <1>2

\* A command of the visitor that is told by a row as well as by its answer
LEMMA TapStep ==
    ASSUME WordInv, told'[Visitor] \in Notices,
           told'[Visitor] # told[Visitor], Notified,
           UNCHANGED <<lastWord, overtaken>>,
           stored' \in {"none", "confirmed", "waitlist", "cancelled"}
    PROVE  WordInv'
<1>1. /\ rows' = Append(rows, told'[Visitor])
      /\ outdated' = FALSE
  BY DEF Notified
<1>2. /\ rows' \in Seq(Notices)
      /\ rows' # <<>>
      /\ rows'[Len(rows')] = told'[Visitor]
  BY <1>1 DEF WordInv
<1> QED
  BY <1>1, <1>2 DEF WordInv, NothingToCome, HandlerIsUpToDate

\* What is left of a sequence when its i-th element is taken out
LEMMA RemoveOne ==
    ASSUME NEW S, NEW s \in Seq(S), NEW i \in 1 .. Len(s)
    PROVE  /\ RemoveAt(s, i) \in Seq(S)
           /\ Len(RemoveAt(s, i)) = Len(s) - 1
           /\ i # Len(s) => RemoveAt(s, i)[Len(s) - 1] = s[Len(s)]
<1> DEFINE before == SubSeq(s, 1, i - 1)
           after == SubSeq(s, i + 1, Len(s))
<1>1. Len(s) \in Nat
  BY LenProperties
<1>2. /\ before \in Seq(S)
      /\ Len(before) = i - 1
  BY <1>1, SubSeqProperties
<1>3. /\ after \in Seq(S)
      /\ Len(after) = Len(s) - i
  BY <1>1, SubSeqProperties
<1>4. i # Len(s) => after[Len(s) - i] = s[Len(s)]
  <2> SUFFICES ASSUME i # Len(s) PROVE after[Len(s) - i] = s[Len(s)]
    OBVIOUS
  <2>1. \A j \in 1 .. Len(s) - (i + 1) + 1 : after[j] = s[i + 1 + j - 1]
    BY <1>1, SubSeqProperties
  <2> HIDE DEF after
  <2>2. Len(s) - i \in 1 .. Len(s) - (i + 1) + 1
    BY <1>1
  <2>3. after[Len(s) - i] = s[i + 1 + (Len(s) - i) - 1]
    BY <2>1, <2>2
  <2>4. i + 1 + (Len(s) - i) - 1 = Len(s)
    BY <1>1
  <2> QED
    BY <2>3, <2>4
<1>5. RemoveAt(s, i) = before \o after
  BY DEF RemoveAt
<1> HIDE DEF before, after
<1>6. /\ before \o after \in Seq(S)
      /\ Len(before \o after) = Len(before) + Len(after)
      /\ \A j \in 1 .. Len(before) + Len(after) :
            (before \o after)[j] = IF j <= Len(before) THEN before[j]
                                   ELSE after[j - Len(before)]
  BY <1>2, <1>3, ConcatProperties
<1>7. Len(before \o after) = Len(s) - 1
  BY <1>1, <1>2, <1>3, <1>6
<1>8. i # Len(s) => (before \o after)[Len(s) - 1] = s[Len(s)]
  <2> SUFFICES ASSUME i # Len(s)
               PROVE  (before \o after)[Len(s) - 1] = s[Len(s)]
    OBVIOUS
  <2>1. /\ Len(s) - 1 \in 1 .. Len(before) + Len(after)
        /\ ~(Len(s) - 1 <= Len(before))
        /\ (Len(s) - 1) - Len(before) = Len(s) - i
    BY <1>1, <1>2, <1>3
  <2>2. (before \o after)[Len(s) - 1] = after[(Len(s) - 1) - Len(before)]
    BY <1>6, <2>1
  <2> QED
    BY <1>4, <2>1, <2>2
<1> QED
  BY <1>5, <1>6, <1>7, <1>8

\* A handler that begins, or has seen something newer said, cannot mislead.
LEMMA IdleIsUpToDate ==
    ASSUME handler' = handler, overtaken' = (handler # Idle)
    PROVE  HandlerIsUpToDate'
<1>1. CASE handler = Idle
  <2>1. handler'.step = "idle"
    BY <1>1 DEF Idle
  <2> QED
    BY <2>1 DEF HandlerIsUpToDate
<1>2. CASE handler # Idle
  BY <1>2 DEF HandlerIsUpToDate
<1> QED
  BY <1>1, <1>2

\* A message of the worker
LEMMA DeliverStep ==
    ASSUME WordInv, NEW i \in DOMAIN rows, Deliver(i)
    PROVE  WordInv'
<1>1. /\ Len(rows) \in Nat
      /\ rows \in Seq(Notices)
      /\ i \in 1 .. Len(rows)
      /\ rows # <<>>
  BY LenProperties DEF WordInv
<1>2. /\ rows' \in Seq(Notices)
      /\ Len(rows') = Len(rows) - 1
      /\ i # Len(rows) => rows'[Len(rows')] = rows[Len(rows)]
  BY <1>1, RemoveOne DEF Deliver
<1>3. Len(rows) > 1 <=> rows' # <<>>
  BY <1>1, <1>2, EmptySeq
<1>4. /\ stored' \in {"none", "confirmed", "waitlist", "cancelled"}
      /\ outdated' \in BOOLEAN
      /\ overtaken' \in BOOLEAN
  BY <1>1 DEF Deliver, WordInv, chatVars
<1>5. /\ told' = told
      /\ outdated' <=> Len(rows) > 1 /\ (outdated \/ i = Len(rows))
      /\ ~outdated => rows[Len(rows)] = told[Visitor]
  BY <1>1 DEF Deliver, WordInv, NothingToCome, ledgerVars, vars
<1>6. ASSUME ~NothingToCome'
      PROVE  rows'[Len(rows')] = told'[Visitor]
  <2>1. rows' # <<>> /\ ~outdated'
    BY <1>6 DEF NothingToCome
  <2>2. ~outdated /\ i # Len(rows)
    BY <1>3, <1>5, <2>1
  <2> QED
    BY <1>2, <1>5, <2>2
<1>7. ASSUME NothingToCome', lastWord' # "stale"
      PROVE  lastWord' = told'[Visitor]
  <2>1. ~outdated /\ lastWord' = rows[i]
    BY <1>7 DEF Deliver, Tell
  <2>2. rows' = <<>> \/ outdated'
    BY <1>7 DEF NothingToCome
  <2>3. i = Len(rows)
    BY <1>1, <1>3, <1>5, <2>1, <2>2
  <2> QED
    BY <1>5, <2>1, <2>3
<1>8. HandlerIsUpToDate'
  BY IdleIsUpToDate DEF Deliver
<1> QED
  BY <1>2, <1>4, <1>6, <1>7, <1>8 DEF WordInv

\* The visitor leaves the waitlist, or is taken out of it, without a row.
LEMMA LeaveStep ==
    ASSUME WordInv, IInv, Unnotified, CancelWaitlistEntry(Visitor),
           lastWord' = "stale", stored' \in {stored, "cancelled"},
           \/ handler' = [step |-> "answer", reply |-> "cancelled"]
              /\ overtaken' = overtaken
           \/ handler' = handler /\ overtaken' = (handler # Idle)
    PROVE  WordInv'
<1>1. told'[Visitor] = "out"
  BY VisitorAssumption DEF CancelWaitlistEntry, IInv, SeatInv, TypeOK
<1>2. NothingToCome'
  BY DEF Unnotified, NothingToCome
<1>3. /\ rows' \in Seq(Notices)
      /\ stored' \in {"none", "confirmed", "waitlist", "cancelled"}
      /\ outdated' \in BOOLEAN
  BY DEF WordInv, Unnotified
<1>4. /\ overtaken' \in BOOLEAN
      /\ HandlerIsUpToDate'
  <2>1. CASE /\ handler' = [step |-> "answer", reply |-> "cancelled"]
             /\ overtaken' = overtaken
    <3>1. /\ handler'.step = "answer"
          /\ ToldBy(handler'.reply) = "out"
      BY <2>1 DEF ToldBy
    <3> QED
      BY <1>1, <2>1, <3>1 DEF HandlerIsUpToDate, WordInv
  <2>2. CASE handler' = handler /\ overtaken' = (handler # Idle)
    BY <2>2, IdleIsUpToDate DEF WordInv
  <2> QED
    BY <2>1, <2>2
<1> QED
  BY <1>2, <1>3, <1>4 DEF WordInv

\* The tap on a button of a registration or a cancellation
LEMMA TapsAreTold ==
    ASSUME WordInv, IInv, IInv', TapRegister \/ TapCancelSeat
    PROVE  WordInv'
<1>1. told'[Visitor] \in Notices
  BY VisitorAssumption DEF IInv, SeatInv, TypeOK
<1>2. told'[Visitor] # told[Visitor]
  <2>1. CASE TapRegister
    <3>1. /\ told[Visitor] = "out"
          /\ told \in [Users -> Notices]
      BY <2>1, VisitorIsTold, VisitorAssumption
      DEF TapRegister, Register, NoMembership, Standing, IInv, SeatInv, TypeOK
    <3>2. told' \in {[told EXCEPT ![Visitor] = "seat"],
                     [told EXCEPT ![Visitor] = "queue"]}
      BY <2>1 DEF TapRegister, Register, TakeSeat, Enqueue
    <3> QED
      BY <3>1, <3>2, VisitorAssumption
  <2>2. CASE TapCancelSeat
    <3>1. /\ Visitor \in confirmed
          /\ told[Visitor] = "seat"
          /\ told \in [Users -> Notices]
      BY <2>2, VisitorIsTold, VisitorAssumption
      DEF TapCancelSeat, CancelReservation, IInv, SeatInv, TypeOK
    <3>2. Visitor \notin Waiting(position)
      BY <3>1 DEF IInv, SeatInv, OneStanding
    <3>3. \/ told' = [told EXCEPT ![Visitor] = "out"]
          \/ \E next \in Users :
                /\ next \in Waiting(position)
                /\ told' = [told EXCEPT ![Visitor] = "out", ![next] = "seat"]
      BY <2>2 DEF TapCancelSeat, CancelReservation, IsFirst, Waiting
    <3> QED
      BY <3>1, <3>2, <3>3, VisitorAssumption
  <2> QED
    BY <2>1, <2>2
<1>3. stored' \in {"none", "confirmed", "waitlist", "cancelled"}
  BY DEF TapRegister, TapCancelSeat, Outcome
<1>4. Notified /\ UNCHANGED <<lastWord, overtaken>>
  BY DEF TapRegister, TapCancelSeat
<1> QED
  BY <1>1, <1>2, <1>3, <1>4, TapStep

\* A read of the ledger finds what was last told.
LEMMA ReadStep ==
    ASSUME WordInv, IInv, ReadFirst \/ ReadSecond
    PROVE  WordInv'
<1>1. /\ UNCHANGED <<stored, rows, lastWord, outdated, overtaken>>
      /\ told' = told
  BY DEF ReadFirst, ReadSecond, chatVars, wordVars, sinceVars, ledgerVars, vars
<1>2. CASE ReadFirst
  <2>1. handler' = [step |-> "second", first |-> confirmed]
    BY <1>2 DEF ReadFirst, RowsOf, FirstStatement
  <2>2. HandlerIsUpToDate'
    BY <1>1, <2>1, VisitorIsTold DEF HandlerIsUpToDate
  <2> QED
    BY <1>1, <2>2 DEF WordInv, NothingToCome
<1>3. CASE ReadSecond
  <2> DEFINE seen == [statement \in Statements |->
                         IF statement = FirstStatement THEN handler.first
                         ELSE RowsOf(statement)]
  <2>1. handler' = [step |-> "show", view |-> seen] /\ handler.step = "second"
    BY <1>3 DEF ReadSecond
  <2>2. /\ seen["reservations"] = handler.first
        /\ seen["waitlist"] = Waiting(position)
    BY DEF Statements, FirstStatement, RowsOf
  <2> HIDE DEF seen
  <2>3. HandlerIsUpToDate'
    <3> SUFFICES ASSUME NothingToCome', ~overtaken' PROVE Shown(seen) = told[Visitor]
      BY <1>1, <2>1 DEF HandlerIsUpToDate
    <3>1. Visitor \in handler.first <=> told[Visitor] = "seat"
      BY <1>1, <2>1 DEF WordInv, HandlerIsUpToDate, NothingToCome
    <3> QED
      BY <2>2, <3>1, VisitorIsTold DEF Shown, Notices
  <2> QED
    BY <1>1, <2>3 DEF WordInv, NothingToCome
<1> QED
  BY <1>2, <1>3

\* An answer, and the steps that only prepare one
LEMMA AnswerStep ==
    ASSUME WordInv,
           \/ Repeat \/ Reread \/ TapCancelRefused
           \/ AnswerCommand \/ AnswerMyRegistrations \/ AnswerRoster
           \/ AnswerLost
    PROVE  WordInv'
<1>1. /\ UNCHANGED <<stored, rows, outdated>>
      /\ told' = told
  BY DEF Repeat, Reread, TapCancelRefused, AnswerCommand,
         AnswerMyRegistrations, AnswerRoster, AnswerLost, chatVars, wordVars,
         sinceVars, ledgerVars, vars
<1>2. CASE Repeat \/ Reread \/ TapCancelRefused
  <2>1. lastWord' = lastWord
    BY <1>2 DEF Repeat, Reread, TapCancelRefused, wordVars
  <2>2. overtaken' \in BOOLEAN
    BY <1>2 DEF WordInv, Repeat, Reread, TapCancelRefused, sinceVars
  <2>3. HandlerIsUpToDate'
    <3>1. CASE Repeat
      BY <3>1 DEF Repeat, HandlerIsUpToDate
    <3>2. CASE Reread
      <4>1. /\ handler.step = "reread"
            /\ overtaken' = overtaken
            /\ NothingToCome' = NothingToCome
        BY <1>1, <3>2 DEF Reread, sinceVars, NothingToCome
      <4>2. ~(NothingToCome /\ ~overtaken)
        BY <4>1 DEF WordInv, HandlerIsUpToDate
      <4> QED
        BY <4>1, <4>2 DEF HandlerIsUpToDate
    <3>3. CASE TapCancelRefused
      <4>1. handler' = [step |-> "answer", reply |-> "too late"]
        BY <3>3 DEF TapCancelRefused
      <4> QED
        BY <4>1 DEF HandlerIsUpToDate
    <3> QED
      BY <1>2, <3>1, <3>2, <3>3
  <2> QED
    BY <1>1, <2>1, <2>2, <2>3 DEF WordInv, NothingToCome
<1>3. CASE AnswerCommand \/ AnswerMyRegistrations \/ AnswerRoster \/ AnswerLost
  <2>1. handler' = Idle /\ overtaken' = FALSE
    BY <1>3 DEF AnswerCommand, AnswerMyRegistrations, AnswerRoster, AnswerLost,
                Finish
  <2>2. HandlerIsUpToDate'
    BY <2>1 DEF HandlerIsUpToDate, Idle
  <2>3. ASSUME NothingToCome, lastWord' # "stale"
        PROVE  lastWord' = told[Visitor]
    BY <1>3, <2>3 DEF WordInv, HandlerIsUpToDate, AnswerCommand,
           AnswerMyRegistrations, AnswerRoster, AnswerLost, Tell, wordVars
  <2> QED
    BY <1>1, <2>1, <2>2, <2>3 DEF WordInv, NothingToCome
<1> QED
  BY <1>2, <1>3

\* Every step of the chats keeps what is said up to date.
LEMMA WordStep ==
    ASSUME WordInv, IInv, IInv', [ChatNext]_allVars
    PROVE  WordInv'
<1>1. told'[Visitor] \in Notices
  BY VisitorAssumption DEF IInv, SeatInv, TypeOK
<1>2. CASE Elsewhere \/ OverrideSeat
  BY <1>1, <1>2, NotifiedStep DEF Elsewhere, OverrideSeat, chatVars
<1>3. CASE TapRegister \/ TapCancelSeat
  BY <1>3, TapsAreTold
<1>4. CASE TapLeaveWaitlist \/ OverrideWaitlistEntry
  BY <1>4, LeaveStep DEF TapLeaveWaitlist, OverrideWaitlistEntry, chatVars
<1>5. CASE ReadFirst \/ ReadSecond
  BY <1>5, ReadStep
<1>6. CASE \/ Repeat \/ Reread \/ TapCancelRefused
           \/ AnswerCommand \/ AnswerMyRegistrations \/ AnswerRoster
           \/ AnswerLost
  BY <1>6, AnswerStep
<1>7. CASE \E i \in 1 .. MaxRows : Deliver(i)
  <2> PICK i \in 1 .. MaxRows : Deliver(i)
    BY <1>7
  <2> QED
    BY DeliverStep DEF Deliver
<1>8. CASE UNCHANGED allVars
  BY <1>8 DEF allVars, ledgerVars, vars, chatVars, wordVars, sinceVars, WordInv,
              NothingToCome, HandlerIsUpToDate
<1> QED
  BY <1>2, <1>3, <1>4, <1>5, <1>6, <1>7, <1>8 DEF ChatNext

LEMMA ChatWordInv == ChatSpec => []WordInv
<1>1. ASSUME ChatInit PROVE WordInv
  <2>1. told[Visitor] = "out" /\ lastWord = "out"
    BY <1>1, VisitorAssumption DEF ChatInit, Init
  <2>2. rows \in Seq(Notices) /\ NothingToCome
    BY <1>1 DEF ChatInit, NothingToCome
  <2>3. HandlerIsUpToDate
    BY <1>1 DEF ChatInit, HandlerIsUpToDate, Idle
  <2> QED
    BY <1>1, <2>1, <2>2, <2>3 DEF ChatInit, WordInv
<1>2. WordInv /\ IInv /\ IInv' /\ [ChatNext]_allVars => WordInv'
  BY WordStep
<1> QED
  BY <1>1, <1>2, ChatLedgerInv, PTL DEF ChatSpec

\* The last message in a visitor's chat tells the truth when nothing is left to
\* be delivered, for any number of users, seats and undelivered messages.
THEOREM LastWordTrue == ChatSpec => []LastWordIsTrue
<1>1. WordInv /\ IInv => LastWordIsTrue
  BY VisitorIsTold DEF WordInv, NothingToCome, LastWordIsTrue
<1> QED
  BY <1>1, ChatWordInv, ChatLedgerInv, PTL

------------------------------------------------------------------------------
(* What is answered while the event changes                                *)

\* Steps of the ledger beside a handler that waits
Beside ==
    /\ \/ Elsewhere \/ OverrideSeat \/ OverrideWaitlistEntry
       \/ \E i \in 1 .. MaxRows : Deliver(i)
       \/ UNCHANGED allVars
    /\ handler' = handler

LEMMA BesideStep ==
    ASSUME Beside
    PROVE  \/ Since
           \/ UNCHANGED <<confirmed, position, status, now, startsAt,
                          gone, seated, queued>>
BY DEF Beside, Elsewhere, OverrideSeat, OverrideWaitlistEntry, Deliver, allVars,
       ledgerVars, vars, sinceVars

\* A step of the chats is taken beside the handler, or is one of the handler.
LEMMA HandlerStep ==
    ASSUME [ChatNext]_allVars
    PROVE  \/ Beside
           \/ TapRegister \/ Repeat \/ Reread
           \/ handler'.step = "answer" /\ handler'.reply # "unavailable"
           \/ ReadFirst \/ ReadSecond
           \/ handler'.step = "idle"
<1>1. CASE Elsewhere \/ OverrideSeat \/ OverrideWaitlistEntry
  BY <1>1 DEF Beside, Elsewhere, OverrideSeat, OverrideWaitlistEntry
<1>2. CASE \E i \in 1 .. MaxRows : Deliver(i)
  BY <1>2 DEF Beside, Deliver
<1>3. CASE UNCHANGED allVars
  BY <1>3 DEF Beside, allVars
<1>4. CASE TapCancelSeat \/ TapLeaveWaitlist \/ TapCancelRefused
  <2>1. \/ handler' = [step |-> "answer", reply |-> "cancelled"]
        \/ handler' = [step |-> "answer", reply |-> "too late"]
    BY <1>4 DEF TapCancelSeat, TapLeaveWaitlist, TapCancelRefused
  <2>2. handler'.step = "answer" /\ handler'.reply # "unavailable"
    <3>1. CASE handler' = [step |-> "answer", reply |-> "cancelled"]
      BY <3>1
    <3>2. CASE handler' = [step |-> "answer", reply |-> "too late"]
      BY <3>2
    <3> QED
      BY <2>1, <3>1, <3>2
  <2> QED
    BY <2>2
<1>5. CASE \/ AnswerCommand \/ AnswerMyRegistrations \/ AnswerRoster
           \/ AnswerLost
  <2>1. handler' = Idle
    BY <1>5 DEF AnswerCommand, AnswerMyRegistrations, AnswerRoster, AnswerLost,
                Finish
  <2>2. handler'.step = "idle"
    BY <2>1 DEF Idle
  <2> QED
    BY <2>2
<1> QED
  BY <1>1, <1>2, <1>3, <1>4, <1>5 DEF ChatNext

\* A registration is answered, or about to be answered, by its outcome while
\* the event stays public.
StatusInv ==
    /\ gone \in BOOLEAN
    /\ handler.step = "answer" /\ handler.reply = "unavailable"
        => gone \/ overtaken
    /\ handler.step = "reread" /\ ~PublicEvent => gone \/ overtaken
    /\ handler.step = "reread" => handler.reply # "unavailable"

\* Nothing makes the handler forget that an answer has come too late.
LEMMA OvertakenStays ==
    ASSUME Beside, overtaken \in BOOLEAN, overtaken
    PROVE  overtaken' \/ handler = Idle
<1>1. CASE Elsewhere \/ OverrideSeat \/ UNCHANGED allVars
  BY <1>1 DEF Elsewhere, OverrideSeat, allVars, sinceVars
<1>2. CASE OverrideWaitlistEntry \/ \E i \in 1 .. MaxRows : Deliver(i)
  BY <1>2 DEF OverrideWaitlistEntry, Deliver
<1> QED
  BY <1>1, <1>2 DEF Beside

\* An event that accepts a registration is public in the same transaction.
LEMMA RegisteredIsPublic == TapRegister => PublicEvent'
BY DEF TapRegister, Register, RegistrationAllowed, TakeSeat, SyncStatus,
       Published, PublishedStatuses, PublicEvent, clockVars

LEMMA GoneIsBoolean ==
    ASSUME gone \in BOOLEAN, [ChatNext]_allVars
    PROVE  gone' \in BOOLEAN
BY DEF ChatNext, Elsewhere, TapRegister, Repeat, Reread, TapCancelSeat,
       TapLeaveWaitlist, TapCancelRefused, OverrideSeat, OverrideWaitlistEntry,
       ReadFirst, ReadSecond, AnswerCommand, AnswerMyRegistrations,
       AnswerRoster, AnswerLost, Finish, Deliver, Since, allVars, sinceVars

LEMMA StatusStep ==
    ASSUME StatusInv, WordInv, WordInv', [ChatNext]_allVars
    PROVE  StatusInv'
<1>1. CASE Beside
  <2>1. overtaken => overtaken' \/ handler = Idle
    BY <1>1, OvertakenStays DEF WordInv
  <2>2. handler' = handler
    BY <1>1 DEF Beside
  <2>3. CASE Since
    <3>1. handler.step \in {"reread", "answer"} => (gone' <=> gone \/ ~PublicEvent')
      BY <2>3 DEF Since, StatusInv
    <3>2. gone' \in BOOLEAN
      BY <2>3 DEF Since
    <3>3. handler = Idle => handler.step = "idle"
      BY DEF Idle
    <3> QED
      BY <2>1, <2>2, <3>1, <3>2, <3>3 DEF StatusInv
  <2>4. CASE UNCHANGED <<confirmed, position, status, now, startsAt, gone,
                         seated, queued>>
    <3>1. PublicEvent' <=> PublicEvent
      BY <2>4 DEF PublicEvent
    <3>2. handler = Idle => handler.step = "idle"
      BY DEF Idle
    <3> QED
      BY <2>1, <2>2, <2>4, <3>1, <3>2 DEF StatusInv
  <2> QED
    BY <1>1, <2>3, <2>4, BesideStep
<1>2. CASE TapRegister
  <2>1. PublicEvent'
    BY <1>2, RegisteredIsPublic
  <2>2. /\ handler'.step = "reread"
        /\ handler'.reply # "unavailable"
        /\ gone' \in BOOLEAN
    BY <1>2 DEF TapRegister, Outcome, Since
  <2> QED
    BY <2>1, <2>2 DEF StatusInv
<1>3. CASE Repeat
  <2>1. /\ overtaken' = TRUE
        /\ handler'.reply # "unavailable"
        /\ gone' = gone
    BY <1>3 DEF Repeat, WordInv
  <2> QED
    BY <2>1 DEF StatusInv
<1>4. CASE Reread
  <2>1. /\ handler.step = "reread"
        /\ handler' = [step |-> "answer",
                       reply |-> IF PublicEvent THEN handler.reply
                                 ELSE "unavailable"]
        /\ gone' = gone
        /\ overtaken' = overtaken
    BY <1>4 DEF Reread, sinceVars
  <2> QED
    BY <2>1 DEF StatusInv
<1>5. CASE \/ handler'.step = "answer" /\ handler'.reply # "unavailable"
           \/ ReadFirst \/ ReadSecond
           \/ handler'.step = "idle"
  <2>1. /\ handler'.step # "reread"
        /\ handler'.step = "answer" => handler'.reply # "unavailable"
    BY <1>5 DEF ReadFirst, ReadSecond
  <2>2. gone' \in BOOLEAN
    BY GoneIsBoolean DEF StatusInv
  <2> QED
    BY <2>1, <2>2 DEF StatusInv
<1> QED
  BY <1>1, <1>2, <1>3, <1>4, <1>5, HandlerStep

\* A registration is answered by its outcome, for any number of users, unless
\* the event was taken out of the public meanwhile.
THEOREM RegistrationsAreAnswered == ChatSpec => []ImmediateStatus
<1>1. ASSUME ChatInit PROVE StatusInv
  <2>1. handler.step = "idle" /\ gone \in BOOLEAN
    BY <1>1 DEF ChatInit, Idle
  <2> QED
    BY <2>1 DEF StatusInv
<1>2. StatusInv /\ WordInv /\ WordInv' /\ [ChatNext]_allVars => StatusInv'
  BY StatusStep
<1>3. StatusInv => ImmediateStatus
  BY DEF StatusInv, ImmediateStatus
<1> QED
  BY <1>1, <1>2, <1>3, ChatWordInv, PTL DEF ChatSpec

------------------------------------------------------------------------------
(* What a list of two statements shows                                     *)

\* What a view will get wrong has been noted since its first statement.
SeenInv ==
    handler.step = "second" =>
        /\ handler.first \intersect Waiting(position) \subseteq queued
        /\ confirmed \ handler.first \subseteq seated

LEMMA SeenStep ==
    ASSUME SeenInv, IInv, [ChatNext]_allVars
    PROVE  SeenInv'
<1>1. CASE Beside
  <2>1. handler' = handler
    BY <1>1 DEF Beside
  <2>2. CASE Since
    <3> SUFFICES ASSUME handler.step = "second"
                 PROVE  /\ handler.first \intersect Waiting(position')
                              \subseteq queued'
                        /\ confirmed' \ handler.first \subseteq seated'
      BY <2>1 DEF SeenInv, Waiting
    <3>1. /\ seated' = seated \union (confirmed' \ confirmed)
          /\ queued' = queued \union (Waiting(position') \ Waiting(position))
      BY <2>2 DEF Since
    <3> QED
      BY <3>1 DEF SeenInv
  <2>3. CASE UNCHANGED <<confirmed, position, status, now, startsAt, gone,
                         seated, queued>>
    BY <2>1, <2>3 DEF SeenInv, Waiting
  <2> QED
    BY <1>1, <2>2, <2>3, BesideStep
<1>2. CASE ReadFirst
  <2>1. /\ handler' = [step |-> "second", first |-> confirmed]
        /\ UNCHANGED <<confirmed, position>>
    BY <1>2 DEF ReadFirst, RowsOf, FirstStatement, ledgerVars, vars
  <2>2. confirmed \intersect Waiting(position) = {}
    BY DEF IInv, SeatInv, OneStanding
  <2> QED
    BY <2>1, <2>2 DEF SeenInv, Waiting
<1>3. CASE \/ TapRegister \/ Repeat \/ Reread \/ ReadSecond
           \/ handler'.step \in {"answer", "idle"}
  <2>1. handler'.step # "second"
    BY <1>3 DEF TapRegister, Repeat, Reread, ReadSecond
  <2> QED
    BY <2>1 DEF SeenInv
<1> QED
  BY <1>1, <1>2, <1>3, HandlerStep

\* A list errs only about users who moved between its two statements.
THEOREM ListsAreNearlySound == ChatSpec => ListedOnce
<1>1. ChatInit => SeenInv
  BY DEF ChatInit, SeenInv, Idle
<1>2. SeenInv /\ IInv /\ [ChatNext]_allVars => SeenInv'
  BY SeenStep
<1>3. ASSUME SeenInv, [ChatNext]_allVars, handler.step = "second",
             handler'.step = "show", NEW u \in Users
      PROVE  /\ u \in handler'.view["reservations"] \intersect
                     handler'.view["waitlist"] => u \in queued
             /\ u \in Members \ (handler'.view["reservations"] \union
                                handler'.view["waitlist"]) => u \in seated
  <2>1. ReadSecond
    <3>1. CASE Beside
      BY <1>3, <3>1 DEF Beside
    <3>2. CASE TapRegister \/ Repeat \/ Reread \/ ReadFirst
      <4>1. handler'.step # "show"
        BY <3>2 DEF TapRegister, Repeat, Reread, ReadFirst
      <4> QED
        BY <1>3, <4>1
    <3> QED
      BY <1>3, <3>1, <3>2, HandlerStep
  <2>2. /\ handler'.view["reservations"] = handler.first
        /\ handler'.view["waitlist"] = Waiting(position)
    BY <2>1 DEF ReadSecond, Statements, FirstStatement, RowsOf
  <2> QED
    BY <1>3, <2>2 DEF SeenInv, Members
<1>4. SeenInv /\ [ChatNext]_allVars =>
        [handler.step = "second" /\ handler'.step = "show" =>
            LET seats == handler'.view["reservations"]
                queue == handler'.view["waitlist"]
            IN  \A u \in Users :
                    /\ u \in seats \intersect queue => u \in queued
                    /\ u \in Members \ (seats \union queue)
                         => u \in seated]_allVars
  BY <1>3
<1> QED
  BY <1>1, <1>2, <1>4, ChatLedgerInv, PTL DEF ChatSpec, ListedOnce

------------------------------------------------------------------------------
(* Types                                                                   *)

\* What WordInv leaves out of ChatTypeOK
ChatValuesInv ==
    /\ handler \in Handlers
    /\ overridable \in BOOLEAN
    /\ Len(rows) <= MaxRows
    /\ lastWord \in Notices \union {"stale"}
    /\ gone \in BOOLEAN
    /\ seated \subseteq Users /\ queued \subseteq Users

\* What a handler knows depends on where it is.
LEMMA HandlerValues ==
    ASSUME handler \in Handlers
    PROVE  /\ handler.step \in {"reread", "answer"} => handler.reply \in Replies
           /\ handler.step = "second" => handler.first \in SUBSET Users
           /\ handler.step = "show" =>
                handler.view \in [Statements -> SUBSET Users]
<1>1. CASE handler = Idle
  BY <1>1 DEF Idle
<1>2. CASE handler \in [step : {"reread", "answer"}, reply : Replies]
  BY <1>2
<1>3. CASE handler \in [step : {"second"}, first : SUBSET Users]
  BY <1>3
<1>4. CASE handler \in [step : {"show"}, view : [Statements -> SUBSET Users]]
  BY <1>4
<1> QED
  BY <1>1, <1>2, <1>3, <1>4 DEF Handlers

LEMMA AnsweringIsHandler ==
    ASSUME NEW step \in {"reread", "answer"}, NEW reply \in Replies
    PROVE  [step |-> step, reply |-> reply] \in Handlers
BY DEF Handlers

LEMMA HandlersStep ==
    ASSUME ChatValuesInv, WordInv, IInv, [ChatNext]_allVars
    PROVE  handler' \in Handlers
<1>1. handler \in Handlers
  BY DEF ChatValuesInv
<1>2. CASE \/ Elsewhere \/ OverrideSeat \/ OverrideWaitlistEntry
           \/ \E i \in 1 .. MaxRows : Deliver(i)
           \/ UNCHANGED allVars
  BY <1>1, <1>2 DEF Elsewhere, OverrideSeat, OverrideWaitlistEntry, Deliver,
                    allVars
<1>3. CASE TapRegister
  <2>1. Outcome \in Replies
    BY DEF Outcome, Replies
  <2> QED
    BY <1>3, <2>1, AnsweringIsHandler DEF TapRegister
<1>4. CASE Repeat
  <2>1. stored \in Replies
    BY <1>4 DEF Repeat, WordInv, Replies
  <2> QED
    BY <1>4, <2>1, AnsweringIsHandler DEF Repeat
<1>5. CASE Reread
  <2>1. (IF PublicEvent THEN handler.reply ELSE "unavailable") \in Replies
    BY <1>1, <1>5, HandlerValues DEF Reread, Replies
  <2> QED
    BY <1>5, <2>1, AnsweringIsHandler DEF Reread
<1>6. CASE TapCancelSeat \/ TapLeaveWaitlist \/ TapCancelRefused
  <2>1. "cancelled" \in Replies /\ "too late" \in Replies
    BY DEF Replies
  <2> QED
    BY <1>6, <2>1, AnsweringIsHandler
    DEF TapCancelSeat, TapLeaveWaitlist, TapCancelRefused
<1>7. CASE ReadFirst
  <2>1. RowsOf(FirstStatement) \in SUBSET Users
    BY VisitorIsTold DEF RowsOf
  <2> QED
    BY <1>7, <2>1 DEF ReadFirst, Handlers
<1>8. CASE ReadSecond
  <2> DEFINE view == [statement \in Statements |->
                        IF statement = FirstStatement THEN handler.first
                        ELSE RowsOf(statement)]
  <2>1. handler.first \in SUBSET Users
    BY <1>1, <1>8, HandlerValues DEF ReadSecond
  <2>2. \A statement \in Statements : RowsOf(statement) \in SUBSET Users
    BY VisitorIsTold DEF RowsOf
  <2>3. view \in [Statements -> SUBSET Users]
    BY <2>1, <2>2
  <2>4. handler' = [step |-> "show", view |-> view]
    BY <1>8 DEF ReadSecond
  <2> HIDE DEF view
  <2> QED
    BY <2>3, <2>4 DEF Handlers
<1>9. CASE \/ AnswerCommand \/ AnswerMyRegistrations \/ AnswerRoster
           \/ AnswerLost
  BY <1>9 DEF AnswerCommand, AnswerMyRegistrations, AnswerRoster, AnswerLost,
              Finish, Handlers
<1> QED
  BY <1>2, <1>3, <1>4, <1>5, <1>6, <1>7, <1>8, <1>9 DEF ChatNext

LEMMA SinceTyped ==
    ASSUME ChatValuesInv, IInv', [ChatNext]_allVars
    PROVE  gone' \in BOOLEAN /\ seated' \subseteq Users /\ queued' \subseteq Users
<1>1. gone \in BOOLEAN /\ seated \subseteq Users /\ queued \subseteq Users
  BY DEF ChatValuesInv
<1>2. confirmed' \subseteq Users /\ Waiting(position') \subseteq Users
  BY DEF IInv, SeatInv, TypeOK, Waiting
<1>3. \/ Since
      \/ UNCHANGED <<seated, queued>>
      \/ seated' = {} /\ queued' = {}
  BY DEF ChatNext, Elsewhere, TapRegister, Repeat, Reread, TapCancelSeat,
         TapLeaveWaitlist, TapCancelRefused, OverrideSeat,
         OverrideWaitlistEntry, ReadFirst, ReadSecond, AnswerCommand,
         AnswerMyRegistrations, AnswerRoster, AnswerLost, Finish, Deliver,
         allVars, sinceVars
<1>4. seated' \subseteq Users /\ queued' \subseteq Users
  BY <1>1, <1>2, <1>3 DEF Since, Waiting
<1> QED
  BY <1>1, <1>4, GoneIsBoolean

\* The outbox is bounded by the guard of Notified; everything else only takes
\* rows away.
LEMMA RowsBounded ==
    ASSUME ChatValuesInv, WordInv, [ChatNext]_allVars
    PROVE  Len(rows') <= MaxRows
<1>1. /\ Len(rows) \in Nat /\ Len(rows) <= MaxRows /\ rows \in Seq(Notices)
      /\ MaxRows \in Nat
  BY MaxRowsAssumption DEF ChatValuesInv, WordInv
<1>2. CASE Notified
  <2>1. CASE UNCHANGED rows
    BY <1>1, <2>1
  <2>2. CASE Len(rows) < MaxRows /\ rows' = Append(rows, told'[Visitor])
    <3>1. Len(rows') = Len(rows) + 1
      BY <1>1, <2>2
    <3> QED
      BY <1>1, <2>2, <3>1
  <2> QED
    BY <1>2, <2>1, <2>2 DEF Notified
<1>3. ASSUME NEW i \in 1 .. MaxRows, Deliver(i)
      PROVE  Len(rows') <= MaxRows
  <2>1. i \in 1 .. Len(rows) /\ rows' = RemoveAt(rows, i)
    BY <1>1, <1>3 DEF Deliver
  <2>2. Len(rows') = Len(rows) - 1
    BY <1>1, <2>1, RemoveOne
  <2> QED
    BY <1>1, <2>2
<1>4. \/ Notified \/ UNCHANGED rows \/ \E i \in 1 .. MaxRows : Deliver(i)
  BY DEF ChatNext, Elsewhere, TapRegister, Repeat, Reread, TapCancelSeat,
         TapLeaveWaitlist, TapCancelRefused, OverrideSeat, Unnotified,
         OverrideWaitlistEntry, ReadFirst, ReadSecond, AnswerCommand,
         AnswerMyRegistrations, AnswerRoster, AnswerLost, allVars, wordVars
<1> QED
  BY <1>1, <1>2, <1>3, <1>4

LEMMA WordsTyped ==
    ASSUME ChatValuesInv, WordInv, [ChatNext]_allVars
    PROVE  lastWord' \in Notices \union {"stale"} /\ overridable' \in BOOLEAN
<1>1. overridable' \in BOOLEAN
  BY DEF ChatValuesInv, ChatNext, Elsewhere, TapRegister, Repeat, Reread,
         TapCancelSeat, TapLeaveWaitlist, TapCancelRefused, OverrideSeat,
         OverrideWaitlistEntry, ReadFirst, ReadSecond, AnswerCommand,
         AnswerMyRegistrations, AnswerRoster, AnswerLost, Deliver, allVars,
         chatVars
<1>2. ASSUME NEW i \in 1 .. MaxRows, Deliver(i)
      PROVE  lastWord' \in Notices \union {"stale"}
  <2>1. rows[i] \in Notices
    BY <1>2 DEF Deliver, WordInv
  <2> QED
    BY <1>2, <2>1 DEF Deliver, Tell
<1>3. ASSUME AnswerCommand \/ AnswerMyRegistrations
      PROVE  lastWord' \in Notices \union {"stale"}
  <2>1. \A reply : ToldBy(reply) \in Notices
    BY DEF ToldBy, Notices
  <2>2. Shown(handler.view) \in Notices
    BY DEF Shown, Notices
  <2>3. lastWord \in Notices \union {"stale"}
    BY DEF ChatValuesInv
  <2>4. CASE AnswerCommand
    <3>1. lastWord' \in {lastWord, "stale", ToldBy(handler.reply)}
      BY <2>4 DEF AnswerCommand, Tell
    <3> QED
      BY <2>1, <2>3, <3>1
  <2>5. CASE AnswerMyRegistrations
    <3>1. lastWord' \in {"stale", Shown(handler.view)}
      BY <2>5 DEF AnswerMyRegistrations, Tell
    <3> QED
      BY <2>2, <3>1
  <2> QED
    BY <1>3, <2>4, <2>5
<1>4. \/ lastWord' \in {lastWord, "stale"} \/ AnswerCommand
      \/ AnswerMyRegistrations \/ \E i \in 1 .. MaxRows : Deliver(i)
  BY DEF ChatNext, Elsewhere, TapRegister, Repeat, Reread, TapCancelSeat,
         TapLeaveWaitlist, TapCancelRefused, OverrideSeat,
         OverrideWaitlistEntry, ReadFirst, ReadSecond, AnswerRoster,
         AnswerLost, allVars, wordVars
<1> QED
  BY <1>1, <1>2, <1>3, <1>4 DEF ChatValuesInv

\* A handler knows what its step needs, and the outbox of the visitor is within
\* its bound, for any number of users.
THEOREM ChatTyped == ChatSpec => []ChatTypeOK
<1>1. ChatInit => ChatValuesInv
  <2> SUFFICES ASSUME ChatInit PROVE ChatValuesInv
    OBVIOUS
  <2>1. Len(rows) <= MaxRows
    <3>1. Len(rows) = 0
      BY DEF ChatInit
    <3> QED
      BY <3>1, MaxRowsAssumption
  <2>2. handler \in Handlers
    BY DEF ChatInit, Handlers
  <2>3. /\ overridable \in BOOLEAN /\ gone \in BOOLEAN
        /\ lastWord \in Notices \union {"stale"}
        /\ seated \subseteq Users /\ queued \subseteq Users
    BY DEF ChatInit, Notices
  <2> QED
    BY <2>1, <2>2, <2>3 DEF ChatValuesInv
<1>2. ChatValuesInv /\ WordInv /\ IInv /\ IInv' /\ [ChatNext]_allVars
        => ChatValuesInv'
  BY HandlersStep, SinceTyped, RowsBounded, WordsTyped DEF ChatValuesInv
<1>3. ChatValuesInv /\ WordInv => ChatTypeOK
  <2> SUFFICES ASSUME ChatValuesInv, WordInv PROVE ChatTypeOK
    OBVIOUS
  <2>1. rows \in BoundedSeq(Notices, MaxRows)
    <3>1. Len(rows) \in 0 .. MaxRows /\ rows \in [1 .. Len(rows) -> Notices]
      BY MaxRowsAssumption, LenProperties DEF ChatValuesInv, WordInv
    <3> QED
      BY <3>1 DEF BoundedSeq, SeqOf
  <2> QED
    BY <2>1 DEF ChatValuesInv, WordInv, ChatTypeOK
<1> QED
  BY <1>1, <1>2, <1>3, ChatWordInv, ChatLedgerInv, PTL DEF ChatSpec
==============================================================================
