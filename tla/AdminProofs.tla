------------------------------ MODULE AdminProofs ------------------------------
(***************************************************************************)
(* Proofs about what administrators do with several handlers at once:      *)
(* DraftDialog for any texts, any number of taps and handlers and every    *)
(* bound, and AdminRoles for any finite set of users and any number of     *)
(* handlers.                                                               *)
(*                                                                         *)
(* The dialog.  State and text of the dialog are written together, and     *)
(* everything that takes the text away takes the state away as well.  A    *)
(* handler publishes only what the parser has taken, and keeps that in     *)
(* its own variables (JobsInv), so that neither the dialog nor the setting *)
(* can change it any more.  A text enters the dialog with the mode it was  *)
(* offered in, and only a new dialog takes that mode away from it          *)
(* (OffersInv).                                                            *)
(*                                                                         *)
(* The roles.  As long as no two revocations of owner have overlapped, at  *)
(* most one runs, so that nobody else removes an owner between its count   *)
(* and its commit: the second owner that it has counted is there when it   *)
(* deletes its row.                                                        *)
(***************************************************************************)
EXTENDS DraftDialog, AdminRoles, FiniteSetTheorems, TLAPS

Job == [tap : Taps \union {NoTap}, text : Texts \union {NoText}, mode : Modes,
        offset : 0 .. MaxOffset, turned : BOOLEAN]

DialogTypeOK ==
    /\ setting \in 0 .. MaxOffset
    /\ state \in States /\ mode \in Modes
    /\ raw \in Texts \union {NoText}
    /\ pc \in [Handlers -> Steps]
    /\ job \in [Handlers -> Job]
    /\ done \subseteq Keys
    /\ offered \subseteq Texts \X Modes
    /\ turned \in BOOLEAN

\* What the parser has taken
SoundText(text) ==
    /\ text # <<>>
    /\ \A i \in DOMAIN text : text[i].line = "given" => text[i].deadline < text[i].start

JobsInv ==
    \A h \in Handlers :
        /\ pc[h] = "text" => job[h].text \in Texts /\ job[h].tap = NoTap
        /\ pc[h] \in {"settings", "parse", "publish"} => job[h].text \in Texts
        /\ pc[h] = "tap" => job[h].tap \in Taps
        /\ pc[h] = "publish" => job[h].tap \in Taps /\ SoundText(job[h].text)

\* A text in the dialog was offered in the mode that stands beside it, unless
\* that was turned, and so was what a tap has read of it.
OffersInv ==
    /\ raw # NoText => turned \/ <<raw, mode>> \in offered
    /\ \A h \in Handlers :
        pc[h] \in {"settings", "parse", "publish"} /\ job[h].tap # NoTap =>
            job[h].turned \/ <<job[h].text, job[h].mode>> \in offered

DInv ==
    /\ DialogTypeOK /\ JobsInv /\ OffersInv
    /\ ConfirmationHasText /\ PublishedAreSound

LEMMA InitDInv == Init => DInv
  <1> SUFFICES ASSUME Init PROVE DInv
    OBVIOUS
  <1>1. DialogTypeOK
    <2>1. NoJob \in Job /\ 0 \in 0 .. MaxOffset
      BY BoundsAssumption DEF NoJob, Job, Modes
    <2> QED BY <2>1 DEF Init, DialogTypeOK, States, Modes, Steps
  <1>2. JobsInv /\ OffersInv /\ ConfirmationHasText /\ PublishedAreSound
    BY DEF Init, JobsInv, OffersInv, ConfirmationHasText, PublishedAreSound
  <1> QED BY <1>1, <1>2 DEF DInv

\* The dialog waits for a text again, in any mode.
DialogTurns ==
    /\ state' \in States \ {"confirmation"} /\ mode' \in Modes /\ raw' = raw
    /\ turned' = (turned \/ (raw # NoText /\ mode' # mode))

\* The dialog changes, or a handler ends with it.
LEMMA DialogStep ==
  ASSUME DInv, UNCHANGED <<published, done, offered>>, setting' \in 0 .. MaxOffset,
         NEW Ended \in SUBSET Handlers,
         pc' = [h \in Handlers |-> IF h \in Ended THEN "idle" ELSE pc[h]],
         job' = [h \in Handlers |-> IF h \in Ended THEN NoJob ELSE job[h]],
         \/ ClearDialog
         \/ DialogTurns
         \/ UNCHANGED dialog
  PROVE  DInv'
  <1> USE DEF DInv
  <1>1. NoJob \in Job
    BY BoundsAssumption DEF NoJob, Job, Modes
  <1>2. DialogTypeOK'
    BY <1>1 DEF DialogTypeOK, ClearDialog, DialogTurns, dialog, States, Modes, Steps
  <1>3. JobsInv'
    BY DEF JobsInv, DialogTypeOK
  <1>4. ConfirmationHasText'
    BY DEF ConfirmationHasText, ClearDialog, DialogTurns, dialog
  <1>5. OffersInv'
    <2>1. raw' # NoText => turned' \/ <<raw', mode'>> \in offered'
      BY DEF OffersInv, ClearDialog, DialogTurns, dialog
    <2>2. \A h \in Handlers :
            pc'[h] \in {"settings", "parse", "publish"} /\ job'[h].tap # NoTap =>
                job'[h].turned \/ <<job'[h].text, job'[h].mode>> \in offered'
      BY DEF OffersInv, DialogTypeOK
    <2> QED BY <2>1, <2>2 DEF OffersInv
  <1> QED BY <1>2, <1>3, <1>4, <1>5 DEF PublishedAreSound

\* A text is put into the dialog and offered.
Offer ==
    /\ state' = "confirmation" /\ raw' \in Texts /\ mode' \in Modes
    /\ offered' = offered \union {<<raw', mode'>>} /\ turned' = FALSE

\* A handler goes on, its variables are sound, and the dialog keeps its text.
LEMMA HandlerStep ==
  ASSUME DInv, UNCHANGED <<setting, published, done>>, NEW h \in Handlers,
         NEW step \in Steps, NEW local \in Job,
         pc' = [pc EXCEPT ![h] = step], job' = [job EXCEPT ![h] = local],
         step \in {"text", "settings", "parse", "publish"} => local.text \in Texts,
         step = "text" => local.tap = NoTap,
         step \in {"tap", "publish"} => local.tap \in Taps,
         step = "publish" => SoundText(local.text),
         step \in {"settings", "parse", "publish"} /\ local.tap # NoTap =>
             local.turned \/ <<local.text, local.mode>> \in offered,
         UNCHANGED <<dialog, offered>> \/ Offer
  PROVE  DInv'
  <1> USE DEF DInv
  <1>1. DialogTypeOK'
    <2>1. /\ setting' \in 0 .. MaxOffset /\ pc' \in [Handlers -> Steps]
          /\ job' \in [Handlers -> Job] /\ done' \subseteq Keys
      BY DEF DialogTypeOK
    <2>2. /\ state' \in States /\ mode' \in Modes /\ raw' \in Texts \union {NoText}
          /\ turned' \in BOOLEAN
      BY DEF DialogTypeOK, dialog, Offer, States
    <2>3. offered' \subseteq Texts \X Modes
      BY DEF DialogTypeOK, Offer
    <2> QED BY <2>1, <2>2, <2>3 DEF DialogTypeOK
  <1>2. JobsInv'
    BY DEF JobsInv, DialogTypeOK
  <1>3. ConfirmationHasText'
    BY NoneAssumption DEF ConfirmationHasText, dialog, Offer
  <1>4. OffersInv'
    <2>1. raw' # NoText => turned' \/ <<raw', mode'>> \in offered'
      BY DEF OffersInv, Offer, dialog
    <2>2. offered \subseteq offered'
      BY DEF Offer
    <2>3. \A g \in Handlers :
            pc'[g] \in {"settings", "parse", "publish"} /\ job'[g].tap # NoTap =>
                job'[g].turned \/ <<job'[g].text, job'[g].mode>> \in offered'
      BY <2>2 DEF OffersInv, DialogTypeOK
    <2> QED BY <2>1, <2>3 DEF OffersInv
  <1> QED BY <1>1, <1>2, <1>3, <1>4 DEF PublishedAreSound

\* The events of a text that the parser has taken are sound, whatever the
\* setting: the default deadline is the start less a natural number.
LEMMA EventsSound ==
  ASSUME NEW text \in Texts, SoundText(text), NEW m \in Modes, NEW offset \in 0 .. MaxOffset
  PROVE  /\ Events(text, m, offset) # <<>>
         /\ \A i \in DOMAIN Events(text, m, offset) :
                Events(text, m, offset)[i].deadline <= Events(text, m, offset)[i].start
  <1> DEFINE n == IF m = "single" THEN 1 ELSE Len(text)
  <1>1. text \in Seq(Block) /\ text # <<>>
    BY TextsAssumption DEF SoundText
  <1>2. Len(text) \in Nat /\ Len(text) >= 1 /\ DOMAIN text = 1 .. Len(text)
    BY <1>1
  <1>3. n \in Nat /\ n >= 1 /\ 1 .. n \in SUBSET DOMAIN text
    BY <1>2
  <1>4. /\ DOMAIN Events(text, m, offset) = 1 .. n
        /\ \A i \in 1 .. n : Events(text, m, offset)[i] = Event(text[i], offset)
    BY DEF Events
  <1>5. ASSUME NEW i \in 1 .. n
        PROVE  Event(text[i], offset).deadline <= Event(text[i], offset).start
    <2>1. i \in DOMAIN text
      BY <1>3
    <2>2. text[i] \in Block
      BY <1>1, <1>2, <2>1
    <2>3. text[i].start \in Nat /\ text[i].deadline \in Nat /\ offset \in Nat
      BY <2>2, BoundsAssumption DEF Block
    <2> QED BY <2>1, <2>3 DEF SoundText, Event
  <1>6. Events(text, m, offset) # <<>>
    <2>1. 1 \in DOMAIN Events(text, m, offset)
      BY <1>3, <1>4
    <2>2. DOMAIN <<>> = {}
      OBVIOUS
    <2> QED BY <2>1, <2>2
  <1> QED BY <1>4, <1>5, <1>6

\* A publication with a new key, or a repeated one
LEMMA PublishStep ==
  ASSUME DInv, NEW h \in Handlers, Publish(h)
  PROVE  DInv'
  <1> USE DEF DInv
  <1>1. /\ job[h] \in Job /\ job[h].text \in Texts /\ job[h].tap \in Taps
        /\ SoundText(job[h].text)
    BY DEF Publish, JobsInv, DialogTypeOK
  <1>2. DialogTypeOK'
    <2>1. NoJob \in Job /\ "clear" \in Steps
      BY BoundsAssumption DEF NoJob, Job, Modes, Steps
    <2>2. job' \in [Handlers -> Job] /\ pc' \in [Handlers -> Steps]
      BY <2>1 DEF DialogTypeOK, Publish, MoveOn, Goto
    <2>3. done' \subseteq Keys
      <3>1. <<job[h].tap, job[h].mode>> \in Keys
        BY <1>1 DEF Keys, Job
      <3> QED BY <3>1 DEF DialogTypeOK, Publish
    <2> QED BY <2>2, <2>3 DEF DialogTypeOK, Publish, dialog
  <1>3. JobsInv'
    BY DEF Publish, MoveOn, Goto, JobsInv, DialogTypeOK
  <1>4. ConfirmationHasText'
    BY DEF Publish, ConfirmationHasText, dialog
  <1>5. OffersInv'
    BY DEF Publish, MoveOn, Goto, OffersInv, DialogTypeOK, dialog
  <1>6. PublishedAreSound'
    <2>1. /\ Draft(h) # <<>>
          /\ \A i \in DOMAIN Draft(h) : Draft(h)[i].deadline <= Draft(h)[i].start
      BY <1>1, EventsSound DEF Draft, Job
    <2> QED BY <2>1 DEF Publish, PublishedAreSound
  <1> QED BY <1>2, <1>3, <1>4, <1>5, <1>6

\* The steps that end a handler, or none, and change the dialog
LEMMA EndingSteps ==
  ASSUME DInv,
         \/ \E m \in Modes : NewDialog(m)
         \/ Cancel \/ Tick \/ Crash
         \/ \E n \in 0 .. MaxOffset : SetDefaultOffset(n)
         \/ \E h \in Handlers : EditDraft(h) \/ DiscardDraft(h) \/ ShowPreview(h)
                                \/ PublishFails(h) \/ EndDialog(h)
  PROVE  DInv'
  <1>1. /\ setting \in 0 .. MaxOffset /\ state \in States /\ mode \in Modes
        /\ pc \in [Handlers -> Steps] /\ job \in [Handlers -> Job] /\ turned \in BOOLEAN
    BY DEF DInv, DialogTypeOK
  <1>2. CASE \E m \in Modes : NewDialog(m)
    <2>1. /\ pc' = [h \in Handlers |-> IF h \in {} THEN "idle" ELSE pc[h]]
          /\ job' = [h \in Handlers |-> IF h \in {} THEN NoJob ELSE job[h]]
      BY <1>1, <1>2 DEF NewDialog
    <2>2. DialogTurns
      BY <1>2 DEF NewDialog, DialogTurns, InputState, States
    <2>3. setting' \in 0 .. MaxOffset /\ UNCHANGED <<published, done, offered>>
      BY <1>1, <1>2 DEF NewDialog, effects
    <2>4. {} \in SUBSET Handlers
      OBVIOUS
    <2> QED BY <2>1, <2>2, <2>3, <2>4, DialogStep
  <1>3. CASE Cancel \/ Tick \/ \E n \in 0 .. MaxOffset : SetDefaultOffset(n)
    <2>1. /\ pc' = [h \in Handlers |-> IF h \in {} THEN "idle" ELSE pc[h]]
          /\ job' = [h \in Handlers |-> IF h \in {} THEN NoJob ELSE job[h]]
      BY <1>1, <1>3 DEF Cancel, Tick, SetDefaultOffset
    <2>2. setting' \in 0 .. MaxOffset /\ UNCHANGED <<published, done, offered>>
          /\ (ClearDialog \/ UNCHANGED dialog)
      BY <1>1, <1>3 DEF Cancel, Tick, SetDefaultOffset, effects
    <2>3. {} \in SUBSET Handlers
      OBVIOUS
    <2> QED BY <2>1, <2>2, <2>3, DialogStep
  <1>4. CASE Crash
    <2>1. /\ pc' = [h \in Handlers |-> IF h \in Handlers THEN "idle" ELSE pc[h]]
          /\ job' = [h \in Handlers |-> IF h \in Handlers THEN NoJob ELSE job[h]]
      BY <1>4 DEF Crash
    <2>2. setting' \in 0 .. MaxOffset /\ UNCHANGED <<published, done, offered>> /\ ClearDialog
      BY <1>1, <1>4 DEF Crash, effects
    <2>3. Handlers \in SUBSET Handlers
      OBVIOUS
    <2> QED BY <2>1, <2>2, <2>3, DialogStep
  <1>5. ASSUME NEW h \in Handlers,
               \/ EditDraft(h) \/ DiscardDraft(h) \/ ShowPreview(h) \/ PublishFails(h)
               \/ EndDialog(h)
        PROVE  DInv'
    <2>1. /\ pc' = [g \in Handlers |-> IF g \in {h} THEN "idle" ELSE pc[g]]
          /\ job' = [g \in Handlers |-> IF g \in {h} THEN NoJob ELSE job[g]]
      BY <1>1, <1>5 DEF EditDraft, DiscardDraft, ShowPreview, PublishFails, EndDialog, Finish,
         MoveOn, Goto
    <2>2. /\ UNCHANGED <<setting, published, done, offered>>
          /\ \/ ClearDialog
             \/ DialogTurns
             \/ UNCHANGED dialog
      BY <1>1, <1>5 DEF EditDraft, DiscardDraft, ShowPreview, PublishFails, EndDialog, DialogTurns,
         InputState, States, effects
    <2>3. {h} \in SUBSET Handlers
      OBVIOUS
    <2> QED BY <1>1, <2>1, <2>2, <2>3, DialogStep
  <1> QED BY <1>2, <1>3, <1>4, <1>5

\* The steps that take a handler to its next wait
LEMMA GoingOn ==
  ASSUME DInv, NEW h \in Handlers,
         \/ \E text \in Texts : ReceiveText(h, text)
         \/ ReceiveTap(h) \/ ReadMode(h) \/ ReadDraft(h) \/ ReadSettings(h) \/ Parse(h)
  PROVE  DInv'
  <1>1. /\ setting \in 0 .. MaxOffset /\ mode \in Modes /\ raw \in Texts \union {NoText}
        /\ pc \in [Handlers -> Steps] /\ job \in [Handlers -> Job] /\ job[h] \in Job
        /\ NoJob \in Job
    BY BoundsAssumption DEF DInv, DialogTypeOK, NoJob, Job, Modes
  <1>2. /\ pc[h] = "text" => job[h].text \in Texts /\ job[h].tap = NoTap
        /\ pc[h] \in {"settings", "parse"} => job[h].text \in Texts
        /\ pc[h] = "tap" => job[h].tap \in Taps
        /\ pc[h] \in {"settings", "parse"} /\ job[h].tap # NoTap =>
               job[h].turned \/ <<job[h].text, job[h].mode>> \in offered
        /\ raw # NoText => turned \/ <<raw, mode>> \in offered
        /\ turned \in BOOLEAN
    BY DEF DInv, DialogTypeOK, JobsInv, OffersInv
  <1>3. ASSUME NEW text \in Texts, ReceiveText(h, text)
        PROVE  DInv'
    <2> DEFINE local == [NoJob EXCEPT !.text = text]
    <2>1. local \in Job /\ local.text \in Texts /\ local.tap = NoTap
      BY <1>1 DEF Job, NoJob
    <2>2. /\ pc' = [pc EXCEPT ![h] = "text"] /\ job' = [job EXCEPT ![h] = local]
          /\ UNCHANGED <<setting, published, done, offered>> /\ UNCHANGED dialog
      BY <1>3 DEF ReceiveText, Receive, Goto, effects
    <2>3. "text" \in Steps
      BY DEF Steps
    <2> HIDE DEF local
    <2> QED BY <2>1, <2>2, <2>3, HandlerStep
  <1>4. CASE ReceiveTap(h)
    <2>1. PICK step \in {"tap", "edit", "discard"}, local \in Job :
            /\ step = "tap" => local.tap \in Taps
            /\ pc' = [pc EXCEPT ![h] = step] /\ job' = [job EXCEPT ![h] = local]
            /\ UNCHANGED <<setting, published, done, offered>> /\ UNCHANGED dialog
      <3>1. ASSUME NEW tap \in Taps PROVE [NoJob EXCEPT !.tap = tap] \in Job
                                          /\ [NoJob EXCEPT !.tap = tap].tap \in Taps
        BY <1>1 DEF Job
      <3>2. CASE \E tap \in Taps : Receive(h, "tap", [NoJob EXCEPT !.tap = tap])
        BY <3>1, <3>2 DEF Receive, Goto, effects
      <3>3. CASE Receive(h, "edit", NoJob) \/ Receive(h, "discard", NoJob)
        BY <1>1, <3>3 DEF Receive, Goto, effects
      <3> QED BY <1>4, <3>2, <3>3 DEF ReceiveTap
    <2>2. step \in Steps /\ step \notin {"text", "settings", "parse", "publish"}
      BY DEF Steps
    <2> QED BY <2>1, <2>2, HandlerStep
  <1>5. CASE ReadMode(h)
    <2> DEFINE local == [job[h] EXCEPT !.mode = mode]
    <2>1. local \in Job /\ local.text \in Texts /\ local.tap = NoTap
      BY <1>1, <1>2, <1>5 DEF ReadMode, Job
    <2>2. /\ pc' = [pc EXCEPT ![h] = "settings"] /\ job' = [job EXCEPT ![h] = local]
          /\ UNCHANGED <<setting, published, done, offered>> /\ UNCHANGED dialog
      BY <1>5 DEF ReadMode, Goto, effects
    <2>3. "settings" \in Steps
      BY DEF Steps
    <2> HIDE DEF local
    <2> QED BY <2>1, <2>2, <2>3, HandlerStep
  <1>6. CASE ReadDraft(h)
    <2>1. CASE DraftLost
      <3>1. /\ pc' = [g \in Handlers |-> IF g \in {h} THEN "idle" ELSE pc[g]]
            /\ job' = [g \in Handlers |-> IF g \in {h} THEN NoJob ELSE job[g]]
            /\ setting' \in 0 .. MaxOffset /\ UNCHANGED <<published, done, offered>> /\ ClearDialog
        BY <1>1, <1>6, <2>1 DEF ReadDraft, Finish, MoveOn, Goto, effects
      <3>2. {h} \in SUBSET Handlers
        OBVIOUS
      <3> QED BY <3>1, <3>2, DialogStep
    <2>2. CASE ~DraftLost
      <3> DEFINE local == [job[h] EXCEPT !.text = raw, !.mode = mode, !.turned = turned]
      <3>1. /\ local \in Job /\ local.text \in Texts
            /\ local.turned \/ <<local.text, local.mode>> \in offered
        BY <1>1, <1>2, <2>2 DEF DraftLost, Job
      <3>2. /\ pc' = [pc EXCEPT ![h] = "settings"] /\ job' = [job EXCEPT ![h] = local]
            /\ UNCHANGED <<setting, published, done, offered>> /\ UNCHANGED dialog
        BY <1>1, <1>6, <2>2 DEF ReadDraft, Goto, effects
      <3>3. "settings" \in Steps
        BY DEF Steps
      <3> HIDE DEF local
      <3> QED BY <3>1, <3>2, <3>3, HandlerStep
    <2> QED BY <2>1, <2>2
  <1>7. CASE ReadSettings(h)
    <2> DEFINE local == [job[h] EXCEPT !.offset = setting]
    <2>1. /\ local \in Job /\ local.text \in Texts
          /\ local.tap # NoTap => local.turned \/ <<local.text, local.mode>> \in offered
      BY <1>1, <1>2, <1>7 DEF ReadSettings, Job
    <2>2. /\ pc' = [pc EXCEPT ![h] = "parse"] /\ job' = [job EXCEPT ![h] = local]
          /\ UNCHANGED <<setting, published, done, offered>> /\ UNCHANGED dialog
      BY <1>7 DEF ReadSettings, Goto, effects
    <2>3. "parse" \in Steps
      BY DEF Steps
    <2> HIDE DEF local
    <2> QED BY <2>1, <2>2, <2>3, HandlerStep
  <1>8. CASE Parse(h)
    <2>1. job[h].text \in Texts /\ job[h].mode \in Modes /\ job[h].tap \in Taps \union {NoTap}
      BY <1>1, <1>2, <1>8 DEF Parse, Job
    <2>2. CASE ~Accepted(job[h].text, now)
      <3>1. /\ pc' = [g \in Handlers |-> IF g \in {h} THEN "idle" ELSE pc[g]]
            /\ job' = [g \in Handlers |-> IF g \in {h} THEN NoJob ELSE job[g]]
            /\ setting' \in 0 .. MaxOffset /\ UNCHANGED <<published, done, offered>> /\ UNCHANGED dialog
        BY <1>1, <1>8, <2>2 DEF Parse, Finish, MoveOn, Goto, effects
      <3>2. {h} \in SUBSET Handlers
        OBVIOUS
      <3> QED BY <3>1, <3>2, DialogStep
    <2>3. CASE Accepted(job[h].text, now)
      <3>1. SoundText(job[h].text)
        BY <2>3 DEF Accepted, Valid, SoundText
      <3>2. UNCHANGED <<setting, published, done>>
        BY <1>8, <2>3 DEF Parse, effects
      <3>3. \/ /\ pc' = [pc EXCEPT ![h] = "show"] /\ job' = [job EXCEPT ![h] = NoJob]
               /\ Offer
            \/ /\ pc' = [pc EXCEPT ![h] = "publish"] /\ job' = [job EXCEPT ![h] = job[h]]
               /\ job[h].tap \in Taps /\ UNCHANGED <<dialog, offered>>
        BY <1>1, <1>8, <2>1, <2>3 DEF Parse, MoveOn, StoreText, Offer, Goto
      <3>4. "show" \in Steps /\ "publish" \in Steps
        BY DEF Steps
      <3>5. CASE pc' = [pc EXCEPT ![h] = "show"] /\ job' = [job EXCEPT ![h] = NoJob] /\ Offer
        BY <1>1, <3>2, <3>4, <3>5, HandlerStep
      <3>6. CASE /\ pc' = [pc EXCEPT ![h] = "publish"] /\ job' = [job EXCEPT ![h] = job[h]]
                 /\ job[h].tap \in Taps /\ UNCHANGED <<dialog, offered>>
        <4>1. job[h].turned \/ <<job[h].text, job[h].mode>> \in offered
          BY <1>2, <1>8, <3>6, NoneAssumption DEF Parse
        <4> QED BY <1>1, <2>1, <3>1, <3>2, <3>4, <3>6, <4>1, HandlerStep
      <3> QED BY <3>3, <3>5, <3>6
    <2> QED BY <2>2, <2>3
  <1> QED BY <1>3, <1>4, <1>5, <1>6, <1>7, <1>8

LEMMA DraftInv == Spec => []DInv
  <1>1. Init => DInv
    BY InitDInv
  <1>2. DInv /\ [Next]_vars => DInv'
    <2> SUFFICES ASSUME DInv, [Next]_vars PROVE DInv'
      OBVIOUS
    <2>1. CASE UNCHANGED vars
      BY <2>1 DEF vars, DInv, DialogTypeOK, JobsInv, OffersInv, ConfirmationHasText,
         PublishedAreSound, dialog
    <2>2. CASE Next
      BY <2>2, EndingSteps, GoingOn, PublishStep DEF Next, Handle
    <2> QED BY <2>1, <2>2
  <1> QED BY <1>1, <1>2, PTL DEF Spec

\* A dialog that waits for its confirmation has a text (publish_draft), however
\* its handlers overlap.
THEOREM TextIsThere == Spec => []ConfirmationHasText
  <1>1. DInv => ConfirmationHasText
    BY DEF DInv
  <1> QED BY <1>1, DraftInv, PTL

\* What is published was offered in the mode in which it is published, unless a
\* dialog of the other mode was begun over it before it was read, with any
\* number of texts, taps and handlers that change the dialog meanwhile
\* (collect_admin_draft, publish_draft, new_event, new_batch).
THEOREM NothingUnoffered == Spec => []PublishedAsOffered
  <1>1. DInv => PublishedAsOffered
    BY NoneAssumption DEF DInv, JobsInv, OffersInv, PublishedAsOffered
  <1> QED BY <1>1, DraftInv, PTL

\* What is published has at least one event, and no deadline behind its start
\* (_validate_fields, _build_input_block), whatever the setting is by then.
THEOREM SoundPublications == Spec => []PublishedAreSound
  <1>1. DInv => PublishedAreSound
    BY DEF DInv
  <1> QED BY <1>1, DraftInv, PTL

\* The values that no other property needs: the clock, the previews, and the
\* dates of what is published.
ValuesInv ==
    /\ now \in 0 .. MaxTime
    /\ previewed \in BOOLEAN
    /\ \A events \in published : \A i \in DOMAIN events : events[i] \in Dated

\* The parser makes events with dates of a text of blocks.
LEMMA EventsDated ==
  ASSUME NEW text \in Texts, text # <<>>, NEW m \in Modes, NEW offset \in 0 .. MaxOffset
  PROVE  \A i \in DOMAIN Events(text, m, offset) : Events(text, m, offset)[i] \in Dated
  <1> DEFINE n == IF m = "single" THEN 1 ELSE Len(text)
  <1>1. text \in Seq(Block) /\ Len(text) \in Nat /\ Len(text) >= 1
    BY TextsAssumption
  <1>2. ASSUME NEW i \in 1 .. n
        PROVE  Event(text[i], offset) \in Dated
    <2>1. text[i] \in Block
      BY <1>1
    <2>2. text[i].start \in Nat /\ text[i].deadline \in Nat /\ offset \in Nat
      BY <2>1, BoundsAssumption DEF Block
    <2> QED BY <2>2 DEF Event, Dated
  <1>3. /\ DOMAIN Events(text, m, offset) = 1 .. n
        /\ \A i \in 1 .. n : Events(text, m, offset)[i] = Event(text[i], offset)
    BY DEF Events
  <1> QED BY <1>2, <1>3

LEMMA ValuesStep ==
  ASSUME DInv, ValuesInv, [Next]_vars
  PROVE  ValuesInv'
  <1>1. now' \in 0 .. MaxTime
    <2>1. now' = now \/ Tick
      BY DEF Next, Handle, NewDialog, Cancel, SetDefaultOffset, Crash, ReceiveText, ReceiveTap,
         Receive, EditDraft, DiscardDraft, ReadMode, ReadDraft, ReadSettings, Parse, ShowPreview,
         Publish, PublishFails, EndDialog, vars
    <2>2. now \in 0 .. MaxTime /\ MaxTime \in Nat
      BY BoundsAssumption DEF ValuesInv
    <2> QED BY <2>1, <2>2 DEF Tick
  <1>2. previewed' \in BOOLEAN
    BY DEF ValuesInv, Next, Handle, NewDialog, Cancel, SetDefaultOffset, Tick, Crash, ReceiveText,
        ReceiveTap, Receive, EditDraft, DiscardDraft, ReadMode, ReadDraft, ReadSettings, Parse,
        ShowPreview, Publish, PublishFails, EndDialog, effects, vars
  <1>3. published' = published \/ \E h \in Handlers : Publish(h)
    BY DEF Next, Handle, NewDialog, Cancel, SetDefaultOffset, Tick, Crash, ReceiveText,
        ReceiveTap, Receive, EditDraft, DiscardDraft, ReadMode, ReadDraft, ReadSettings, Parse,
        ShowPreview, PublishFails, EndDialog, effects, vars
  <1>4. ASSUME NEW h \in Handlers, Publish(h)
        PROVE  \A i \in DOMAIN Draft(h) : Draft(h)[i] \in Dated
    <2>1. /\ job[h] \in Job /\ job[h].text \in Texts /\ job[h].text # <<>>
          /\ job[h].mode \in Modes /\ job[h].offset \in 0 .. MaxOffset
      BY <1>4 DEF DInv, DialogTypeOK, JobsInv, Publish, SoundText, Job
    <2> QED BY <2>1, EventsDated DEF Draft
  <1>5. \A h \in Handlers : Publish(h) => published' \in {published, published \union {Draft(h)}}
    BY DEF Publish
  <1>6. \A events \in published' : \A i \in DOMAIN events : events[i] \in Dated
    BY <1>3, <1>4, <1>5 DEF ValuesInv
  <1> QED BY <1>1, <1>2, <1>6 DEF ValuesInv

\* The types, for any texts and any number of handlers.
THEOREM DialogTyped == Spec => []TypeOK
  <1>1. Init => ValuesInv
    <2> SUFFICES ASSUME Init PROVE ValuesInv
      OBVIOUS
    <2>1. now \in 0 .. MaxTime
      BY BoundsAssumption DEF Init
    <2>2. previewed \in BOOLEAN /\ published = {}
      BY DEF Init
    <2> QED BY <2>1, <2>2 DEF ValuesInv
  <1>2. DInv /\ ValuesInv /\ [Next]_vars => ValuesInv'
    BY ValuesStep
  <1>3. DInv /\ ValuesInv => TypeOK
    BY DEF DInv, DialogTypeOK, JobsInv, ValuesInv, TypeOK
  <1> QED BY <1>1, <1>2, <1>3, DraftInv, PTL DEF Spec

------------------------------------------------------------------------------
(* The roles.                                                              *)

\* A command that is carried out names a user and a role.
Named == \A h \in CommandHandlers : at[h] \notin {"idle", "loaded"} => pair[h] \in Pairs

\* Behind the count of the owners and before the commit
Counted(h) == RevokesOwner(h) /\ at[h] # "count"

OneRevocation == \A g, h \in CommandHandlers : RevokesOwner(g) /\ RevokesOwner(h) => g = h

\* The owner that remains when h commits
AnotherOwner == \A h \in CommandHandlers : Counted(h) => Owners(assigned) \ {pair[h][1]} # {}

OwnerInv == overlapped \/ (SomeOwner /\ OneRevocation /\ AnotherOwner)

Inv == RolesTypeOK /\ Named /\ OwnerInv

------------------------------------------------------------------------------

LEMMA PairsTyped ==
    /\ NoPair \in (Admins \union {NoOne}) \X Roles
    /\ Pairs \subseteq (Admins \union {NoOne}) \X Roles
  BY DEF NoPair, Pairs, Roles

LEMMA InitInv == RolesInit => Inv
  <1> SUFFICES ASSUME RolesInit PROVE Inv
    OBVIOUS
  <1>1. PICK A \in (SUBSET Admins) \ {{}} : assigned = {<<a, "owner">> : a \in A}
    BY DEF RolesInit
  <1>2. RolesTypeOK
    <2>1. assigned \subseteq Admins \X Roles
      BY <1>1 DEF Roles
    <2> QED BY <2>1, PairsTyped DEF RolesInit, RolesTypeOK, RoleSteps
  <1>3. SomeOwner
    BY <1>1 DEF SomeOwner, Owners
  <1>4. OneRevocation /\ AnotherOwner
    BY DEF RolesInit, OneRevocation, AnotherOwner, Counted, RevokesOwner, InRevocation
  <1>5. Named
    BY DEF RolesInit, Named
  <1> QED BY <1>2, <1>3, <1>4, <1>5 DEF Inv, OwnerInv

LEMMA TypeStep ==
  ASSUME RolesTypeOK, Named, [RolesNext]_roleVars
  PROVE  RolesTypeOK'
  <1>1. CASE UNCHANGED roleVars
    BY <1>1 DEF RolesTypeOK, roleVars
  <1>2. ASSUME NEW h \in CommandHandlers, EndCommand(h), UNCHANGED overlapped,
               assigned' \subseteq Admins \X Roles
        PROVE  RolesTypeOK'
    BY <1>2, PairsTyped DEF RolesTypeOK, EndCommand, Forget, RoleSteps
  <1>3. ASSUME NEW h \in CommandHandlers, NEW step \in RoleSteps, Proceed(h, step)
        PROVE  RolesTypeOK'
    BY <1>3 DEF RolesTypeOK, Proceed
  <1>4. ASSUME NEW h \in CommandHandlers, NEW a \in Admins, LoadActor(h, a)
        PROVE  RolesTypeOK'
    BY <1>4 DEF RolesTypeOK, LoadActor, RoleSteps
  <1>5. ASSUME NEW h \in CommandHandlers, NEW p \in Pairs, StartAssign(h, p) \/ StartRevoke(h, p)
        PROVE  RolesTypeOK'
    BY <1>5, PairsTyped DEF RolesTypeOK, StartAssign, StartRevoke, RoleSteps, InRevocation
  <1>6. ASSUME NEW h \in CommandHandlers, CommitAssign(h)
        PROVE  RolesTypeOK'
    <2>1. pair[h] \in Admins \X Roles
      BY <1>6 DEF CommitAssign, Named, Pairs
    <2> QED BY <1>2, <1>6, <2>1 DEF CommitAssign, RolesTypeOK
  <1>7. ASSUME NEW h \in CommandHandlers, CommitRevoke(h)
        PROVE  RolesTypeOK'
    BY <1>7, PairsTyped DEF RolesTypeOK, CommitRevoke, Forget, RoleSteps
  <1>8. ASSUME NEW h \in CommandHandlers,
               LookForAssignment(h) \/ InsertAssignment(h) \/ CountOwners(h)
                 \/ FindAssignment(h) \/ DeleteAssignment(h) \/ Rollback(h) \/ Deny(h)
        PROVE  RolesTypeOK'
    BY <1>2, <1>3, <1>8 DEF RolesTypeOK, LookForAssignment, InsertAssignment, CountOwners,
                FindAssignment, DeleteAssignment, Rollback, Deny, Answer, RoleSteps, InRevocation
  <1> QED BY <1>1, <1>4, <1>5, <1>6, <1>7, <1>8 DEF RolesNext

\* A handler keeps its command until it ends.
LEMMA NamedStep ==
  ASSUME RolesTypeOK, Named, [RolesNext]_roleVars
  PROVE  Named'
  <1>1. CASE UNCHANGED roleVars
    BY <1>1 DEF Named, roleVars
  <1>2. ASSUME NEW h \in CommandHandlers, EndCommand(h)
        PROVE  Named'
    BY <1>2 DEF RolesTypeOK, Named, EndCommand, Forget
  <1>3. ASSUME NEW h \in CommandHandlers, NEW step \in RoleSteps, Proceed(h, step),
               at[h] \notin {"idle", "loaded"}
        PROVE  Named'
    BY <1>3 DEF RolesTypeOK, Named, Proceed
  <1>4. ASSUME NEW h \in CommandHandlers, NEW a \in Admins, LoadActor(h, a)
        PROVE  Named'
    BY <1>4 DEF RolesTypeOK, Named, LoadActor
  <1>5. ASSUME NEW h \in CommandHandlers, NEW p \in Pairs, StartAssign(h, p) \/ StartRevoke(h, p)
        PROVE  Named'
    BY <1>5 DEF RolesTypeOK, Named, StartAssign, StartRevoke
  <1>6. ASSUME NEW h \in CommandHandlers, CommitAssign(h)
        PROVE  Named'
    BY <1>2, <1>6 DEF CommitAssign
  <1>7. ASSUME NEW h \in CommandHandlers, CommitRevoke(h)
        PROVE  Named'
    BY <1>7 DEF RolesTypeOK, Named, CommitRevoke, Forget
  <1>8. ASSUME NEW h \in CommandHandlers,
               LookForAssignment(h) \/ InsertAssignment(h) \/ CountOwners(h)
                 \/ FindAssignment(h) \/ DeleteAssignment(h) \/ Rollback(h) \/ Deny(h)
        PROVE  Named'
    BY <1>2, <1>3, <1>8 DEF RolesTypeOK, LookForAssignment, InsertAssignment, CountOwners,
                FindAssignment, DeleteAssignment, Rollback, Deny, Answer, RoleSteps, InRevocation
  <1> QED BY <1>1, <1>4, <1>5, <1>6, <1>7, <1>8 DEF RolesNext

------------------------------------------------------------------------------

\* Who is behind the count stays there until the commit, and a handler that has
\* ended revokes nothing.
LEMMA EndsAlone ==
  ASSUME RolesTypeOK, OneRevocation, AnotherOwner, NEW h \in CommandHandlers, EndCommand(h),
         Owners(assigned) \subseteq Owners(assigned')
  PROVE  OneRevocation' /\ AnotherOwner'
  <1>1. \A g \in CommandHandlers : RevokesOwner(g)' => g # h /\ RevokesOwner(g)
    BY DEF RolesTypeOK, EndCommand, Forget, RevokesOwner, InRevocation
  <1>2. \A g \in CommandHandlers : Counted(g)' => Counted(g) /\ pair'[g] = pair[g]
    BY <1>1 DEF RolesTypeOK, EndCommand, Forget, RevokesOwner, Counted, InRevocation
  <1>3. OneRevocation'
    BY <1>1 DEF OneRevocation
  <1>4. AnotherOwner'
    BY <1>2 DEF AnotherOwner
  <1> QED BY <1>3, <1>4

\* More than one owner: somebody is left whoever is taken away.
LEMMA AnotherIsLeft ==
  ASSUME EnoughOwners(assigned), NEW a
  PROVE  Owners(assigned) \ {a} # {}
  <1> SUFFICES ASSUME Owners(assigned) \subseteq {a} PROVE FALSE
    OBVIOUS
  <1>1. IsFiniteSet({a}) /\ Cardinality({a}) = 1
    BY FS_Singleton
  <1>2. Cardinality(Owners(assigned)) <= 1 /\ Cardinality(Owners(assigned)) \in Nat
    BY <1>1, FS_Subset, FS_CardinalityType
  <1> QED BY <1>2 DEF EnoughOwners

\* A step that changes no row and lets its handler go on.
LEMMA GoesOn ==
  ASSUME RolesTypeOK, OneRevocation, AnotherOwner, NEW h \in CommandHandlers, NEW step,
         Proceed(h, step), step \in InRevocation => at[h] \in InRevocation,
         RevokesOwner(h) /\ step # "count" => Owners(assigned) \ {pair[h][1]} # {}
  PROVE  OneRevocation' /\ AnotherOwner'
  <1>1. \A g \in CommandHandlers : RevokesOwner(g)' => RevokesOwner(g)
    BY DEF RolesTypeOK, Proceed, RevokesOwner
  <1>2. \A g \in CommandHandlers : Counted(g)' => Counted(g) \/ (g = h /\ RevokesOwner(h) /\ step # "count")
    BY <1>1 DEF RolesTypeOK, Proceed, Counted, RevokesOwner
  <1>3. OneRevocation'
    BY <1>1 DEF OneRevocation
  <1>4. AnotherOwner'
    BY <1>2 DEF AnotherOwner, Proceed
  <1> QED BY <1>3, <1>4

LEMMA OwnerStep ==
  ASSUME RolesTypeOK, Named, OwnerInv, [RolesNext]_roleVars
  PROVE  OwnerInv'
  <1>1. overlapped => overlapped'
    BY DEF roleVars, RolesNext, LoadActor, Deny, StartAssign, StartRevoke, LookForAssignment,
       InsertAssignment, CommitAssign, CountOwners, FindAssignment, DeleteAssignment,
       CommitRevoke, Rollback, Answer, Proceed
  <1> SUFFICES ASSUME ~overlapped, ~overlapped', SomeOwner, OneRevocation, AnotherOwner
               PROVE  SomeOwner' /\ OneRevocation' /\ AnotherOwner'
    BY <1>1 DEF OwnerInv
  <1>2. CASE UNCHANGED roleVars
    BY <1>2 DEF roleVars, SomeOwner, OneRevocation, AnotherOwner, RevokesOwner, Counted
  <1>3. ASSUME NEW h \in CommandHandlers, Answer(h)
        PROVE  SomeOwner' /\ OneRevocation' /\ AnotherOwner'
    BY <1>3, EndsAlone DEF Answer, SomeOwner
  <1>4. ASSUME NEW h \in CommandHandlers, NEW a \in Admins, LoadActor(h, a)
        PROVE  SomeOwner' /\ OneRevocation' /\ AnotherOwner'
    BY <1>4 DEF LoadActor, RolesTypeOK, SomeOwner, OneRevocation, AnotherOwner, RevokesOwner,
       Counted, InRevocation
  <1>5. ASSUME NEW h \in CommandHandlers, NEW p \in Pairs, StartAssign(h, p)
        PROVE  SomeOwner' /\ OneRevocation' /\ AnotherOwner'
    BY <1>5 DEF StartAssign, RolesTypeOK, SomeOwner, OneRevocation, AnotherOwner, RevokesOwner,
       Counted, InRevocation
  <1>6. ASSUME NEW h \in CommandHandlers, NEW p \in Pairs, StartRevoke(h, p)
        PROVE  SomeOwner' /\ OneRevocation' /\ AnotherOwner'
    <2>1. SomeOwner'
      BY <1>6 DEF StartRevoke, SomeOwner
    <2>2. p[2] = "owner" => \A g \in CommandHandlers : RevokesOwner(g)' => g = h
      BY <1>6 DEF StartRevoke, RolesTypeOK, RevokesOwner, InRevocation
    <2>3. p[2] # "owner" => \A g \in CommandHandlers : RevokesOwner(g)' => RevokesOwner(g)
      BY <1>6 DEF StartRevoke, RolesTypeOK, RevokesOwner, InRevocation
    <2>4. OneRevocation'
      BY <2>2, <2>3 DEF OneRevocation
    <2>5. \A g \in CommandHandlers : Counted(g)' => Counted(g) /\ pair'[g] = pair[g]
      BY <1>6 DEF StartRevoke, RolesTypeOK, Counted, RevokesOwner, InRevocation
    <2>6. AnotherOwner'
      BY <1>6, <2>5 DEF AnotherOwner, StartRevoke
    <2> QED BY <2>1, <2>4, <2>6
  <1>7. ASSUME NEW h \in CommandHandlers, LookForAssignment(h) \/ InsertAssignment(h)
        PROVE  SomeOwner' /\ OneRevocation' /\ AnotherOwner'
    <2>1. CASE Answer(h)
      BY <2>1, <1>3
    <2>2. CASE \E step \in {"insert", "inserted"} : Proceed(h, step)
      <3>1. ~RevokesOwner(h)
        BY <1>7 DEF LookForAssignment, InsertAssignment, RevokesOwner, InRevocation
      <3>2. OneRevocation' /\ AnotherOwner'
        BY <2>2, <3>1, GoesOn DEF InRevocation
      <3> QED BY <2>2, <3>2 DEF Proceed, SomeOwner
    <2> QED BY <1>7, <2>1, <2>2 DEF LookForAssignment, InsertAssignment
  <1>8. ASSUME NEW h \in CommandHandlers, CountOwners(h) \/ FindAssignment(h) \/ DeleteAssignment(h)
        PROVE  SomeOwner' /\ OneRevocation' /\ AnotherOwner'
    <2>1. CASE Answer(h)
      BY <2>1, <1>3
    <2>2. CASE CountOwners(h) /\ EnoughOwners(assigned) /\ Proceed(h, "find")
      <3>1. OneRevocation' /\ AnotherOwner'
        BY <2>2, GoesOn, AnotherIsLeft DEF CountOwners, InRevocation
      <3> QED BY <2>2, <3>1 DEF Proceed, SomeOwner
    <2>3. CASE (FindAssignment(h) \/ DeleteAssignment(h))
                 /\ \E step \in {"delete", "deleted"} : Proceed(h, step)
      <3>1. RevokesOwner(h) => Owners(assigned) \ {pair[h][1]} # {}
        BY <2>3 DEF FindAssignment, DeleteAssignment, AnotherOwner, Counted
      <3>2. at[h] \in InRevocation
        BY <2>3 DEF FindAssignment, DeleteAssignment, InRevocation
      <3>3. OneRevocation' /\ AnotherOwner'
        BY <2>3, <3>1, <3>2, GoesOn
      <3> QED BY <2>3, <3>3 DEF Proceed, SomeOwner
    <2> QED BY <1>8, <2>1, <2>2, <2>3 DEF CountOwners, FindAssignment, DeleteAssignment
  <1>9. ASSUME NEW h \in CommandHandlers, CommitAssign(h)
        PROVE  SomeOwner' /\ OneRevocation' /\ AnotherOwner'
    <2>1. Owners(assigned) \subseteq Owners(assigned')
      BY <1>9 DEF CommitAssign, Owners
    <2> QED BY <1>9, <2>1, EndsAlone DEF CommitAssign, SomeOwner
  <1>10. ASSUME NEW h \in CommandHandlers, CommitRevoke(h)
        PROVE  SomeOwner' /\ OneRevocation' /\ AnotherOwner'
    <2>1. pair[h] \in Admins \X Roles /\ pair[h] = <<pair[h][1], pair[h][2]>>
      BY <1>10 DEF CommitRevoke, Named, Pairs
    <2>2. \A g \in CommandHandlers : RevokesOwner(g)' => g # h /\ RevokesOwner(g) /\ pair'[g] = pair[g]
      BY <1>10 DEF CommitRevoke, RolesTypeOK, Forget, RevokesOwner, InRevocation
    <2>3. OneRevocation'
      BY <2>2 DEF OneRevocation
    <2>4. CASE pair[h][2] = "owner"
      <3>1. RevokesOwner(h) /\ Counted(h)
        BY <1>10, <2>4 DEF CommitRevoke, RevokesOwner, Counted, InRevocation
      <3>2. \A g \in CommandHandlers : ~RevokesOwner(g)'
        BY <2>2, <3>1 DEF OneRevocation
      <3>3. Owners(assigned) \ {pair[h][1]} # {}
        BY <3>1 DEF AnotherOwner
      <3>4. Owners(assigned) \ {pair[h][1]} \subseteq Owners(assigned')
        BY <1>10, <2>1 DEF CommitRevoke, Owners
      <3> QED BY <2>3, <3>2, <3>3, <3>4 DEF SomeOwner, AnotherOwner, Counted
    <2>5. CASE pair[h][2] # "owner"
      <3>1. \A a \in Admins : <<a, "owner">> # pair[h]
        BY <2>1, <2>5
      <3>2. Owners(assigned) \subseteq Owners(assigned')
        BY <1>10, <3>1 DEF CommitRevoke, Owners
      <3>3. \A g \in CommandHandlers : Counted(g)' => Counted(g) /\ pair'[g] = pair[g]
        BY <1>10, <2>2 DEF CommitRevoke, RolesTypeOK, Counted
      <3>4. AnotherOwner'
        BY <3>2, <3>3 DEF AnotherOwner
      <3> QED BY <2>3, <3>2, <3>4 DEF SomeOwner
    <2> QED BY <2>4, <2>5
  <1> QED
    BY <1>2, <1>3, <1>4, <1>5, <1>6, <1>7, <1>8, <1>9, <1>10 DEF RolesNext, Deny, Rollback

------------------------------------------------------------------------------

LEMMA RolesInv == RolesSpec => []Inv
  <1>1. Inv /\ [RolesNext]_roleVars => Inv'
    BY TypeStep, NamedStep, OwnerStep DEF Inv
  <1> QED BY InitInv, <1>1, PTL DEF RolesSpec

\* Every assignment is one of a role that exists to a user that exists, and a
\* handler is at one of its statements (assign_role, revoke_role).
THEOREM RolesTyped == RolesSpec => []RolesTypeOK
  <1>1. Inv => RolesTypeOK
    BY DEF Inv
  <1> QED BY RolesInv, <1>1, PTL

\* Whatever commands handlers carry out at once, with actors whose roles may
\* have been revoked since they were read, an owner remains unless two
\* revocations of owner have overlapped (revoke_role counts without a lock).
THEOREM OwnerRemains == RolesSpec => []OwnersLostOnlyByOverlap
  <1>1. Inv => OwnersLostOnlyByOverlap
    BY DEF Inv, OwnerInv, OwnersLostOnlyByOverlap
  <1> QED BY RolesInv, <1>1, PTL
==============================================================================
