------------------------- MODULE NoticeDeliveryProofs -------------------------
(***************************************************************************)
(* Proofs about NoticeDelivery for any number of rows, stops and failed    *)
(* calls.                                                                  *)
(*                                                                         *)
(* The argument.  A row that is dispatched has no sent_at, and a row       *)
(* without it has had at most one direct message for every stop, until the *)
(* worker sends it one more and has not yet stored that it did.            *)
(***************************************************************************)
EXTENDS NoticeDelivery, WellFoundedInduction, TLAPS

\* The rows of a poll are there, and none of them has sent_at.
PollInv ==
    /\ rows \in Seq([kind : Kinds, addressed : BOOLEAN])
    /\ Len(rows) <= MaxNotices
    /\ queue \in SUBSET (1 .. Len(rows))
    /\ queue \intersect sent = {}
    /\ pc # "idle" => queue # {}

\* What a row that may be dispatched again has had so far
ArrivalsInv ==
    /\ crashes \in Nat
    /\ arrivals \in [1 .. MaxNotices -> Nat]
    /\ \A i \in 1 .. MaxNotices :
        \/ arrivals[i] <= crashes
        \/ /\ arrivals[i] <= 1 + crashes
           /\ i \in sent \/ (pc = "sent" /\ i = Dispatched)

NInv == PollInv /\ ArrivalsInv

\* Rows that are due have an oldest one.
LEMMA OldestIsOne ==
  ASSUME NEW due \in SUBSET Nat, due # {}
  PROVE  Oldest(due) \in due
  <1>1. PICK i \in due : \A j \in due : <<j, i>> \notin OpToRel(<, Nat)
    BY NatLessThanWellFounded, WFMin
  <1>2. \A j \in due : ~(j < i)
    BY <1>1 DEF OpToRel
  <1>3. \A j \in due : i <= j
    BY <1>2
  <1> QED BY <1>3 DEF Oldest

LEMMA InitNInv == Init => NInv
  <1> SUFFICES ASSUME Init PROVE NInv
    OBVIOUS
  <1>1. /\ rows = <<>> /\ queue = {} /\ pc = "idle" /\ crashes = 0
        /\ arrivals = [i \in 1 .. MaxNotices |-> 0]
    BY DEF Init
  <1>2. PollInv
    BY <1>1, BoundsAssumption DEF PollInv
  <1>3. ArrivalsInv
    BY <1>1 DEF ArrivalsInv
  <1> QED BY <1>2, <1>3 DEF NInv

\* The operations of the bot add rows at the end and touch nothing the worker
\* has.
LEMMA BotNInv ==
  ASSUME NInv, BotStep
  PROVE  NInv'
  <1>1. /\ rows \in Seq([kind : Kinds, addressed : BOOLEAN])
        /\ Len(rows) \in Nat /\ Len(rows) <= MaxNotices
    BY DEF NInv, PollInv
  <1>2. /\ UNCHANGED <<sent, arrivals, queue, pc, crashes>>
        /\ \/ UNCHANGED rows
           \/ \E more \in Seq([kind : Kinds, addressed : BOOLEAN]) :
                /\ Len(rows) + Len(more) <= MaxNotices
                /\ rows' = rows \o more
    <2> DEFINE Row == [kind : Kinds, addressed : BOOLEAN]
               Added(more) ==
                /\ Len(rows) + Len(more) <= MaxNotices
                /\ rows' = rows \o more
                /\ UNCHANGED <<sent, arrivals, queue, pc, crashes>>
    <2>1. \A more, seats, people : Commit(more, seats, people) => Added(more)
      BY DEF Commit, workerVars
    <2>2. \A kind \in Kinds, addressed \in BOOLEAN :
            Notice(kind, addressed) \in Row
      BY DEF Notice
    <2>3. \A r, q \in Row : <<r>> \in Seq(Row) /\ <<r, q>> \in Seq(Row)
      OBVIOUS
    <2>4. \/ \E kind \in Kinds, addressed \in BOOLEAN : \E seats, people :
                Commit(<<Notice(kind, addressed)>>, seats, people)
          \/ \E seats, people :
                Commit(<<Notice("waitlist.promoted", TRUE),
                                  Notice("reservation.cancelled", TRUE)>>,
                                seats, people)
          \/ \E seats, people :
                Commit(<<Notice("waitlist.joined", TRUE),
                                  Notice("waitlist.promoted", TRUE)>>,
                                seats, people)
          \/ UNCHANGED <<rows, sent, arrivals, queue, pc, crashes>>
      BY DEF BotStep, TakeSeat, JoinWaitlist,
         CancelReservation, LeaveWaitlist, RemoveFromWaitlist,
         MoveToSeat, MoveToWaitlist, EditEvent, EditEventSilently, CancelEvent,
         Announce, Kinds, workerVars
    <2>5. /\ "waitlist.promoted" \in Kinds /\ "reservation.cancelled" \in Kinds
          /\ "waitlist.joined" \in Kinds
      BY DEF Kinds
    <2> QED BY <2>1, <2>2, <2>3, <2>4, <2>5
  <1>3. /\ rows' \in Seq([kind : Kinds, addressed : BOOLEAN])
        /\ Len(rows') \in Nat /\ Len(rows') <= MaxNotices
        /\ Len(rows) <= Len(rows')
    <2>1. CASE UNCHANGED rows
      BY <1>1, <2>1
    <2>2. CASE ~UNCHANGED rows
      <3>1. PICK more \in Seq([kind : Kinds, addressed : BOOLEAN]) :
                /\ Len(rows) + Len(more) <= MaxNotices
                /\ rows' = rows \o more
        BY <1>2, <2>2
      <3>2. Len(more) \in Nat /\ Len(rows \o more) = Len(rows) + Len(more)
        BY <1>1
      <3>3. rows \o more \in Seq([kind : Kinds, addressed : BOOLEAN])
        BY <1>1
      <3> QED BY <1>1, <3>1, <3>2, <3>3
    <2> QED BY <2>1, <2>2
  <1>4. PollInv'
    BY <1>1, <1>2, <1>3 DEF NInv, PollInv
  <1>5. ArrivalsInv'
    BY <1>2 DEF NInv, ArrivalsInv, Dispatched, Oldest
  <1> QED BY <1>4, <1>5 DEF NInv

\* A poll begins: what it fetches has no sent_at.
LEMMA FetchNInv ==
  ASSUME NInv, Fetch
  PROVE  NInv'
  <1>1. /\ queue' = Unsent /\ queue' # {} /\ pc' = "dispatch" /\ pc = "idle"
        /\ UNCHANGED <<rows, sent, arrivals, crashes>>
    BY DEF Fetch, Fetched, botVars
  <1>2. PollInv'
    BY <1>1 DEF NInv, PollInv, Unsent
  <1>3. ArrivalsInv'
    BY <1>1 DEF NInv, ArrivalsInv
  <1> QED BY <1>2, <1>3 DEF NInv

\* The event and the recipient are loaded, and the group post is edited, or
\* something of that fails.
LEMMA RefreshNInv ==
  ASSUME NInv, Dispatch \/ Render \/ Edit
  PROVE  NInv'
  <1>1. /\ pc \in {"dispatch", "render", "edit"}
        /\ pc' \in {"render", "edit", "send", "fail"}
        /\ UNCHANGED <<rows, sent, arrivals, queue, crashes>>
    BY DEF Dispatch, Render, Edit, botVars
  <1>2. PollInv'
    BY <1>1 DEF NInv, PollInv
  <1>3. ArrivalsInv'
    BY <1>1 DEF NInv, ArrivalsInv
  <1> QED BY <1>2, <1>3 DEF NInv

\* The direct message arrives, or it fails.
LEMMA SendNInv ==
  ASSUME NInv, Send
  PROVE  NInv'
  <1> DEFINE i == Dispatched
  <1>1. /\ pc = "send" /\ pc' \in {"sent", "fail"}
        /\ UNCHANGED <<rows, sent, queue, crashes>>
        /\ \/ pc' = "sent" /\ arrivals' = [arrivals EXCEPT ![i] = @ + 1]
           \/ UNCHANGED arrivals
    BY DEF Send, botVars
  <1>2. i \in queue
    BY <1>1, OldestIsOne DEF NInv, PollInv, Dispatched
  <1>3. i \in 1 .. MaxNotices /\ i \notin sent
    BY <1>2, BoundsAssumption DEF NInv, PollInv
  <1>4. Dispatched' = i
    BY <1>1 DEF Dispatched, Oldest
  <1>5. PollInv'
    BY <1>1 DEF NInv, PollInv
  <1>6. ArrivalsInv'
    <2> HIDE DEF i
    <2>1. arrivals' \in [1 .. MaxNotices -> Nat]
      BY <1>1, <1>3 DEF NInv, ArrivalsInv
    <2>2. arrivals[i] <= crashes
      BY <1>1, <1>3 DEF NInv, ArrivalsInv
    <2>3. CASE pc' = "sent" /\ arrivals' = [arrivals EXCEPT ![i] = @ + 1]
      <3>1. arrivals'[i] <= 1 + crashes
        BY <1>3, <2>2, <2>3 DEF NInv, ArrivalsInv
      <3> QED BY <1>1, <1>4, <2>1, <2>3, <3>1 DEF NInv, ArrivalsInv
    <2>4. CASE UNCHANGED arrivals
      BY <1>1, <2>1, <2>4 DEF NInv, ArrivalsInv
    <2> QED BY <1>1, <2>3, <2>4
  <1> QED BY <1>5, <1>6 DEF NInv

\* mark_sent or mark_failed: a row whose message has arrived gets sent_at.
LEMMA SettleNInv ==
  ASSUME NInv, Settle
  PROVE  NInv'
  <1> DEFINE i == Dispatched
  <1>1. /\ pc \in {"sent", "fail"} /\ pc' \in {"idle", "dispatch"}
        /\ queue' = queue \ {i}
        /\ pc' # "idle" => queue' # {}
        /\ sent' = IF pc = "sent" THEN sent \union {i} ELSE sent
        /\ UNCHANGED <<rows, arrivals, crashes>>
    BY DEF Settle, Settled, botVars
  <1> HIDE DEF i
  <1>2. PollInv'
    BY <1>1 DEF NInv, PollInv
  <1>3. ArrivalsInv'
    BY <1>1 DEF NInv, ArrivalsInv, i
  <1> QED BY <1>2, <1>3 DEF NInv

\* A stop forgets the poll, and allows one more message for every row.
LEMMA CrashNInv ==
  ASSUME NInv, Crash
  PROVE  NInv'
  <1>1. /\ pc' = "idle" /\ queue' = {} /\ crashes' = crashes + 1
        /\ UNCHANGED <<rows, sent, arrivals>>
    BY DEF Crash, botVars
  <1>2. PollInv'
    BY <1>1 DEF NInv, PollInv
  <1>3. ArrivalsInv'
    BY <1>1 DEF NInv, ArrivalsInv
  <1> QED BY <1>2, <1>3 DEF NInv

LEMMA NoticesInv == Spec => []NInv
  <1>1. Init => NInv
    BY InitNInv
  <1>2. NInv /\ [Next]_vars => NInv'
    <2> SUFFICES ASSUME NInv, [Next]_vars PROVE NInv'
      OBVIOUS
    <2>1. CASE UNCHANGED vars
      BY <2>1 DEF vars, NInv, PollInv, ArrivalsInv, Dispatched, Oldest
    <2>2. CASE Next
      BY <2>2, BotNInv, FetchNInv, RefreshNInv, SendNInv, SettleNInv, CrashNInv
      DEF Next, WorkerStep
    <2> QED BY <2>1, <2>2
  <1> QED BY <1>1, <1>2, PTL DEF Spec

\* A direct message is repeated only for a stop between its arrival and
\* mark_sent, however many rows wait, however often the bot adds rows and
\* whatever calls fail (run_once, _process_messages).
THEOREM MessagesArePaidFor == Spec => []OncePerStart
  <1>1. NInv => OncePerStart
    BY DEF NInv, ArrivalsInv, OncePerStart
  <1> QED BY <1>1, NoticesInv, PTL
==============================================================================
