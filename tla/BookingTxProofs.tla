--------------------------- MODULE BookingTxProofs ---------------------------
(***************************************************************************)
(* Proofs about BookingTx for every number of users, handlers and commands *)
(* and every capacity: however transactions are interleaved, repeated and  *)
(* interrupted, each commit is one operation of EventLedger, and a command *)
(* takes effect once.                                                      *)
(*                                                                         *)
(* The invariant says what a transaction may rely on between its           *)
(* statements: from the row lock to the commit nobody else changes the     *)
(* event, so what it has computed from earlier reads still is the outcome  *)
(* of an operation on the rows as they are (Prepared).                     *)
(***************************************************************************)
EXTENDS BookingTx, WaitlistProofs

LP == INSTANCE EventLedgerProofs WITH
        MaxTime <- 1, MaxLag <- 0, now <- 0, startsAt <- 1,
        cancelDeadlineAt <- 1, batchLinked <- TRUE, posted <- TRUE

------------------------------------------------------------------------------
(* The invariant.                                                          *)

IsSession(s) ==
    s = [status |-> s.status, capacity |-> s.capacity, seats |-> s.seats,
         standing |-> s.standing, newUser |-> s.newUser, writes |-> s.writes,
         outcome |-> s.outcome]

HandlersOK ==
    /\ pc \in [Handlers -> Steps]
    /\ cmd \in [Handlers -> Commands \union {NoCommand}]
    /\ tx = [h \in Handlers |-> tx[h]]
    /\ processed \in [Commands -> Results \union {"none"}]
    /\ effects \in [Commands -> Nat]
    /\ known \subseteq Users
    /\ position \in [Users -> 0 .. MaxPosition]
    /\ retired \in 0 .. MaxPosition

\* What a handler works at is a command, with a key where one is looked up.
Busy(h) ==
    /\ IsSession(tx[h])
    /\ pc[h] # "idle" => cmd[h] \in Commands
    /\ pc[h] \in {"precheck", "user", "insert_user", "members", "record",
                  "reread"} => Keyed(cmd[h])
    /\ tx[h].newUser # FALSE => pc[h] # "idle" /\ Keyed(cmd[h])

\* The event row is read under its lock, and then the user's rows.
Read(h) ==
    /\ pc[h] \in {"members", "work"} =>
        /\ tx[h].status = status
        /\ tx[h].capacity = capacity
        /\ tx[h].seats = reservedSeats
    /\ pc[h] = "work" =>
        /\ cmd[h].op = "register" =>
            cmd[h].user \notin confirmed /\ position[cmd[h].user] = 0
        /\ cmd[h].op = "cancel" /\ tx[h].standing = "seat" =>
            cmd[h].user \in confirmed
        /\ cmd[h].op = "cancel" /\ tx[h].standing = "queue" =>
            cmd[h].user \notin confirmed /\ position[cmd[h].user] > 0

\* The session of h will write this event row and these rows.
Writes(h, cap, seats, rows) ==
    /\ tx[h].capacity = cap
    /\ tx[h].seats = seats
    /\ tx[h].status = Ledger!SyncStatus(status, seats, cap)
    /\ tx[h].writes = rows

WillSeat(h, u) ==
    /\ u \notin confirmed /\ position[u] = 0
    /\ reservedSeats < capacity
    /\ Writes(h, capacity, reservedSeats + 1,
              [sit |-> {u}, unsit |-> {}, moved |-> <<>>, gone |-> 0,
               tells |-> Row(u, "seat")])

WillQueue(h, u) ==
    /\ u \notin confirmed /\ position[u] = 0
    /\ reservedSeats >= capacity
    /\ \E p \in 1 .. MaxPosition :
        /\ IsNextPosition(p, position, retired)
        /\ Writes(h, capacity, reservedSeats,
                  [sit |-> {}, unsit |-> {}, moved |-> Row(u, p), gone |-> 0,
                   tells |-> Row(u, "queue")])

WillPass(h, u) ==
    /\ u \in confirmed
    /\ reservedSeats - 1 < capacity
    /\ \E next \in Users :
        /\ IsFirst(next, position)
        /\ Writes(h, capacity, reservedSeats,
                  [sit |-> {next}, unsit |-> {u}, moved |-> Row(next, 0),
                   gone |-> position[next],
                   tells |-> [v \in {next, u} |->
                                IF v = next THEN "seat" ELSE "out"]])

WillFree(h, u) ==
    /\ u \in confirmed
    /\ Waiting(position) = {}
    /\ Writes(h, capacity, reservedSeats - 1,
              [sit |-> {}, unsit |-> {u}, moved |-> <<>>, gone |-> 0,
               tells |-> Row(u, "out")])

WillLeave(h, u) ==
    /\ u \notin confirmed /\ position[u] > 0
    /\ Writes(h, capacity, reservedSeats,
              [sit |-> {}, unsit |-> {}, moved |-> Resequenced(position, {u}),
               gone |-> position[u], tells |-> Row(u, "out")])

WillResize(h, c) ==
    /\ c >= reservedSeats
    /\ \E P \in PromotionSets(position, c - reservedSeats, {}),
          gone \in 0 .. MaxPosition :
        /\ IsGone(gone, P)
        /\ Writes(h, c, reservedSeats + Cardinality(P),
                  [sit |-> P, unsit |-> {},
                   moved |-> IF P = {} THEN <<>> ELSE Resequenced(position, P),
                   gone |-> gone, tells |-> [u \in P |-> "seat"]])

\* What the session of h has written is what the operation of its command does
\* to the rows as they are.
Ready(h) ==
    \/ /\ cmd[h].op = "register"
       /\ WillSeat(h, cmd[h].user) \/ WillQueue(h, cmd[h].user)
    \/ /\ cmd[h].op = "cancel"
       /\ \/ WillPass(h, cmd[h].user)
          \/ WillFree(h, cmd[h].user)
          \/ WillLeave(h, cmd[h].user)
    \/ cmd[h].op = "set_capacity" /\ WillResize(h, cmd[h].capacity)

Prepared(h) == pc[h] \in {"record", "commit"} => Ready(h)

\* A key is stored with the effects of its command, by one transaction.
KeyKept(h) ==
    /\ pc[h] = "record" => tx[h].outcome \in Results
    /\ pc[h] = "commit" /\ Keyed(cmd[h]) =>
        tx[h].outcome \in Results /\ processed[cmd[h]] = "none"
    /\ pc[h] = "answer" /\ Keyed(cmd[h]) =>
        tx[h].outcome \in Results /\ processed[cmd[h]] = tx[h].outcome

\* At most one transaction has the event row.
Exclusive == \A g, h \in Handlers : pc[g] \in Holding /\ pc[h] \in Holding => g = h

HInv ==
    /\ HandlersOK
    /\ Exclusive
    /\ \A h \in Handlers : Busy(h) /\ Read(h) /\ Prepared(h) /\ KeyKept(h)
    /\ DoneOnce
    /\ AnswersAreTrue

BInv == HInv /\ status \in Ledger!PublishedStatuses /\ LP!IInv

------------------------------------------------------------------------------
(* Steps between the statements that change the committed rows.            *)

\* What a session is ready to write depends on the committed rows alone.
LEMMA StillReady ==
    ASSUME NEW g \in Handlers, UNCHANGED store,
           cmd'[g] = cmd[g], tx'[g] = tx[g], Ready(g)
    PROVE  Ready(g)'
<1>1. \A cap, seats, rows : Writes(g, cap, seats, rows)
                             => Writes(g, cap, seats, rows)'
  BY DEF Writes, store
<1>2. \A u : /\ WillSeat(g, u) => WillSeat(g, u)'
             /\ WillQueue(g, u) => WillQueue(g, u)'
  BY <1>1 DEF WillSeat, WillQueue, store
<1>3. \A u : /\ WillPass(g, u) => WillPass(g, u)'
             /\ WillFree(g, u) => WillFree(g, u)'
             /\ WillLeave(g, u) => WillLeave(g, u)'
  BY <1>1 DEF WillPass, WillFree, WillLeave, store
<1>4. \A c : WillResize(g, c) => WillResize(g, c)'
  BY <1>1 DEF WillResize, IsGone, store
<1> QED
  BY <1>2, <1>3, <1>4 DEF Ready

\* What a handler relies on is its own session and the committed rows: a step
\* that changes neither leaves it true.
LEMMA Undisturbed ==
    ASSUME NEW g \in Handlers, UNCHANGED store,
           pc'[g] = pc[g], cmd'[g] = cmd[g], tx'[g] = tx[g]
    PROVE  /\ Busy(g) => Busy(g)'
           /\ Read(g) => Read(g)'
           /\ Prepared(g) => Prepared(g)'
           /\ KeyKept(g) => KeyKept(g)'
<1>1. Busy(g) => Busy(g)'
  BY DEF Busy, IsSession, Keyed
<1>2. Read(g) => Read(g)'
  BY DEF Read, store
<1>3. Prepared(g) => Prepared(g)'
  BY StillReady DEF Prepared
<1>4. KeyKept(g) => KeyKept(g)'
  BY DEF KeyKept, Keyed, store
<1> QED
  BY <1>1, <1>2, <1>3, <1>4

\* A step of one handler that commits nothing.
LEMMA LocalStep ==
    ASSUME HInv, NEW h \in Handlers, UNCHANGED <<store, effects>>,
           NEW step \in Steps, pc' = [pc EXCEPT ![h] = step],
           NEW c \in Commands \union {NoCommand}, cmd' = [cmd EXCEPT ![h] = c],
           NEW s, tx' = [tx EXCEPT ![h] = s],
           step \in Holding =>
                pc[h] \in Holding \/ \A g \in Handlers \ {h} : pc[g] \notin Holding,
           Busy(h)', Read(h)', Prepared(h)', KeyKept(h)',
           AnswersAreTrue'
    PROVE  HInv'
<1> USE DEF HInv
<1>1. HandlersOK'
  BY DEF HandlersOK, store
<1>2. Exclusive'
  BY DEF Exclusive, HandlersOK
<1>3. ASSUME NEW g \in Handlers
      PROVE  Busy(g)' /\ Read(g)' /\ Prepared(g)' /\ KeyKept(g)'
  <2>1. CASE g = h
    BY <2>1
  <2>2. CASE g # h
    <3>1. pc'[g] = pc[g] /\ cmd'[g] = cmd[g] /\ tx'[g] = tx[g]
      BY <2>2 DEF HandlersOK
    <3> QED
      BY <3>1, Undisturbed
  <2> QED
    BY <2>1, <2>2
<1>4. DoneOnce'
  BY DEF DoneOnce, store
<1> QED
  BY <1>1, <1>2, <1>3, <1>4

\* The end of a transaction: the user is told nothing, or the stored result.
LEMMA ReplyStep ==
    ASSUME HInv, NEW h \in Handlers, NEW answer, Reply(h, answer),
           Keyed(cmd[h]) /\ answer \in Results => processed[cmd[h]] = answer
    PROVE  HInv'
<1> USE DEF HInv
<1>1. /\ UNCHANGED <<store, effects>>
      /\ pc' = [pc EXCEPT ![h] = "idle"]
      /\ cmd' = [cmd EXCEPT ![h] = NoCommand]
      /\ tx' = [tx EXCEPT ![h] = Fresh]
  BY DEF Reply
<1>2. pc'[h] = "idle" /\ tx'[h] = Fresh
  BY <1>1 DEF HandlersOK
<1>3. Busy(h)' /\ Read(h)' /\ Prepared(h)' /\ KeyKept(h)'
  BY <1>2 DEF Busy, IsSession, Fresh, Read, Prepared, KeyKept
<1>4. AnswersAreTrue'
  <2>1. processed' = processed
    BY <1>1 DEF store
  <2>2. SUFFICES ASSUME NEW c \in Commands, NEW r \in Results,
                        <<c, r>> \in answers'
                 PROVE  processed[c] = r
    BY <2>1 DEF AnswersAreTrue
  <2>3. CASE <<c, r>> \in answers
    BY <2>3 DEF AnswersAreTrue
  <2>4. CASE Keyed(cmd[h]) /\ <<c, r>> = <<cmd[h], answer>>
    BY <2>4
  <2> QED
    BY <2>2, <2>3, <2>4 DEF Reply
<1> QED
  BY <1>1, <1>3, <1>4, LocalStep DEF Steps, Holding

\* A handler goes on without having changed its session.
LEMMA GotoStep ==
    ASSUME HInv, NEW h \in Handlers, NEW step \in Steps, Goto(h, step),
           NEW s, tx' = [tx EXCEPT ![h] = s],
           step \in Holding =>
                pc[h] \in Holding \/ \A g \in Handlers \ {h} : pc[g] \notin Holding,
           Busy(h)', Read(h)', Prepared(h)', KeyKept(h)'
    PROVE  HInv'
<1>1. /\ UNCHANGED <<store, effects, answers>>
      /\ pc' = [pc EXCEPT ![h] = step]
      /\ cmd' = [cmd EXCEPT ![h] = cmd[h]]
      /\ cmd[h] \in Commands \union {NoCommand}
  BY DEF Goto, HInv, HandlersOK
<1>2. AnswersAreTrue'
  BY <1>1 DEF HInv, AnswersAreTrue, store
<1> QED
  BY <1>1, <1>2, LocalStep

\* Deliver
LEMMA DeliverStep ==
    ASSUME HInv, NEW h \in Handlers, NEW c \in Commands, Deliver(h, c)
    PROVE  HInv'
<1> USE DEF HInv
<1>1. PICK step \in {"precheck", "lock"} :
        /\ pc' = [pc EXCEPT ![h] = step]
        /\ step = "precheck" => Keyed(c)
  BY DEF Deliver
<1>2. /\ UNCHANGED <<store, effects, answers>>
      /\ cmd' = [cmd EXCEPT ![h] = c]
      /\ tx' = [tx EXCEPT ![h] = tx[h]]
      /\ pc[h] = "idle"
  BY DEF Deliver, HandlersOK
<1>3. pc'[h] = step /\ cmd'[h] = c /\ tx'[h] = tx[h]
  BY <1>1, <1>2 DEF HandlersOK
<1>4. Busy(h)' /\ Read(h)' /\ Prepared(h)' /\ KeyKept(h)'
  BY <1>1, <1>2, <1>3 DEF Busy, IsSession, Read, Prepared, KeyKept
<1>5. AnswersAreTrue'
  BY <1>2 DEF AnswersAreTrue, store
<1> QED
  BY <1>1, <1>2, <1>4, <1>5, LocalStep DEF Steps, Holding

\* Precheck, FindUser, InsertUser: nothing of the event is read yet.
LEMMA BeforeTheLock ==
    ASSUME HInv, NEW h \in Handlers,
           Precheck(h) \/ FindUser(h) \/ InsertUser(h)
    PROVE  HInv'
<1> USE DEF HInv
<1>1. /\ pc[h] \in {"precheck", "user", "insert_user"}
      /\ Keyed(cmd[h]) /\ IsSession(tx[h]) /\ cmd[h] \in Commands
  BY DEF Precheck, FindUser, InsertUser, Busy
<1>2. CASE \E answer : /\ Reply(h, answer)
                       /\ answer = processed[cmd[h]] \/ answer = "refused"
  BY <1>2, ReplyStep DEF Results
<1>3. CASE \E step \in {"user", "insert_user", "lock", "reread"} :
            Goto(h, step) /\ UNCHANGED tx
  <2>1. PICK step \in {"user", "insert_user", "lock", "reread"} :
            Goto(h, step) /\ UNCHANGED tx
    BY <1>3
  <2>2. /\ pc'[h] = step /\ cmd' = cmd /\ tx' = [tx EXCEPT ![h] = tx[h]]
    BY <2>1 DEF Goto, HandlersOK
  <2>3. Busy(h)' /\ Read(h)' /\ Prepared(h)' /\ KeyKept(h)'
    BY <1>1, <2>1, <2>2
    DEF Busy, IsSession, Keyed, Read, Prepared, KeyKept
  <2> QED
    BY <2>1, <2>2, <2>3, GotoStep DEF Steps, Holding
<1>4. CASE /\ Goto(h, "lock")
           /\ tx' = [tx EXCEPT ![h] = [tx[h] EXCEPT !.newUser = TRUE]]
  <2>1. /\ pc'[h] = "lock" /\ cmd' = cmd
        /\ tx'[h] = [tx[h] EXCEPT !.newUser = TRUE]
    BY <1>4 DEF Goto, HandlersOK
  <2>2. IsSession(tx[h])'
    BY <1>1, <2>1 DEF IsSession
  <2>3. Busy(h)' /\ Read(h)' /\ Prepared(h)' /\ KeyKept(h)'
    BY <1>1, <2>1, <2>2 DEF Busy, Keyed, Read, Prepared, KeyKept
  <2> QED
    BY <1>4, <2>3, GotoStep DEF Steps, Holding
<1> QED
  BY <1>2, <1>3, <1>4 DEF Precheck, FindUser, InsertUser

\* LockEvent: the row that is read stays as it is until the commit.
LEMMA LockEventStep ==
    ASSUME HInv, NEW h \in Handlers, LockEvent(h)
    PROVE  HInv'
<1> USE DEF HInv
<1> DEFINE s == [tx[h] EXCEPT !.status = status, !.capacity = capacity,
                              !.seats = reservedSeats]
<1>1. PICK step \in {"members", "work"} :
        /\ Goto(h, step)
        /\ step = "members" <=> Keyed(cmd[h])
  BY DEF LockEvent
<1>2. /\ tx' = [tx EXCEPT ![h] = s]
      /\ pc[h] = "lock"
      /\ \A g \in Handlers \ {h} : pc[g] \notin Holding
  BY DEF LockEvent, EventLocked
<1>3. pc'[h] = step /\ cmd' = cmd /\ UNCHANGED store /\ tx'[h] = s
  BY <1>1, <1>2 DEF Goto, HandlersOK
<1>4. IsSession(tx[h]) /\ cmd[h] \in Commands
  BY <1>2 DEF Busy
<1>5. /\ IsSession(tx[h])'
      /\ tx'[h].newUser = tx[h].newUser
      /\ tx'[h].status = status
      /\ tx'[h].capacity = capacity
      /\ tx'[h].seats = reservedSeats
  BY <1>3, <1>4 DEF IsSession
<1>6. Busy(h)'
  BY <1>1, <1>2, <1>3, <1>4, <1>5 DEF Busy, Keyed
<1>7. Read(h)'
  BY <1>1, <1>3, <1>5 DEF Read, store, Keyed
<1>8. Prepared(h)' /\ KeyKept(h)'
  BY <1>3 DEF Prepared, KeyKept
<1> HIDE DEF s
<1> QED
  BY <1>1, <1>2, <1>6, <1>7, <1>8, GotoStep DEF Steps

\* ReadMembers
LEMMA ReadMembersStep ==
    ASSUME HInv, NEW h \in Handlers, ReadMembers(h)
    PROVE  HInv'
<1> USE DEF HInv
<1> DEFINE u == cmd[h].user
           standing == IF u \in confirmed THEN "seat"
                       ELSE IF position[u] > 0 THEN "queue" ELSE "none"
           s == [tx[h] EXCEPT !.standing = standing]
<1>1. pc[h] = "members" /\ Keyed(cmd[h]) /\ IsSession(tx[h])
      /\ cmd[h] \in Commands
  BY DEF ReadMembers, Busy
<1>2. CASE Reply(h, "refused")
  BY <1>2, ReplyStep DEF Results
<1>3. CASE /\ (cmd[h].op = "register") = (standing = "none")
           /\ tx' = [tx EXCEPT ![h] = s]
           /\ Goto(h, "work")
  <2>1. pc'[h] = "work" /\ cmd' = cmd /\ UNCHANGED store /\ tx'[h] = s
    BY <1>3 DEF Goto, HandlersOK
  <2>2. /\ IsSession(tx[h])'
        /\ tx'[h].newUser = tx[h].newUser
        /\ tx'[h].status = status
        /\ tx'[h].capacity = capacity
        /\ tx'[h].seats = reservedSeats
        /\ tx'[h].standing = standing
    BY <1>1, <2>1 DEF IsSession, Read
  <2>3. Busy(h)'
    BY <1>1, <2>1, <2>2 DEF Busy, Keyed
  <2>4. u \in Users /\ position[u] \in Nat
    BY <1>1, CommandsAssumption, PositionAssumption DEF Keyed, HandlersOK
  <2>5. cmd[h].op = "register" => u \notin confirmed /\ position[u] = 0
    BY <1>3, <2>4
  <2>6. Read(h)'
    BY <2>1, <2>2, <2>5 DEF Read, store
  <2>7. Prepared(h)' /\ KeyKept(h)'
    BY <2>1 DEF Prepared, KeyKept
  <2> HIDE DEF s
  <2> QED
    BY <1>1, <1>3, <2>3, <2>6, <2>7, GotoStep DEF Steps, Holding
<1> QED
  BY <1>2, <1>3 DEF ReadMembers

\* The session of h has written these rows.
HasWritten(h, seats, rows) ==
    /\ tx'[h].capacity = capacity
    /\ tx'[h].seats = seats
    /\ tx'[h].status = Ledger!SyncStatus(status, seats, capacity)
    /\ tx'[h].writes = rows

\* An operation that has written rows which make it prepared.
LEMMA WrittenStep ==
    ASSUME HInv, NEW h \in Handlers, pc[h] = "work", Keyed(cmd[h]),
           NEW seats, NEW rows, NEW outcome \in Results,
           Written(h, seats, rows, outcome),
           HasWritten(h, seats, rows) => Prepared(h)'
    PROVE  HInv'
<1> USE DEF HInv
<1> DEFINE s == [tx[h] EXCEPT
                    !.seats = seats,
                    !.status = Ledger!SyncStatus(@, seats, tx[h].capacity),
                    !.writes = rows, !.outcome = outcome]
<1>1. tx' = [tx EXCEPT ![h] = s] /\ Goto(h, "record")
  BY DEF Written
<1>2. pc'[h] = "record" /\ cmd' = cmd /\ UNCHANGED store /\ tx'[h] = s
  BY <1>1 DEF Goto, HandlersOK
<1>3. IsSession(tx[h]) /\ cmd[h] \in Commands
  BY DEF Busy
<1>4. /\ IsSession(tx[h])'
      /\ tx'[h].newUser = tx[h].newUser
      /\ tx'[h].status = Ledger!SyncStatus(tx[h].status, seats, tx[h].capacity)
      /\ tx'[h].capacity = tx[h].capacity
      /\ tx'[h].seats = seats
      /\ tx'[h].writes = rows
      /\ tx'[h].outcome = outcome
  BY <1>2, <1>3 DEF IsSession
<1>5. Busy(h)'
  BY <1>2, <1>3, <1>4 DEF Busy, Keyed
<1>6. Read(h)' /\ KeyKept(h)'
  BY <1>2, <1>4 DEF Read, KeyKept
<1>7. tx[h].status = status /\ tx[h].capacity = capacity
  BY DEF Read
<1>8. HasWritten(h, seats, rows)
  BY <1>4, <1>7 DEF HasWritten
<1> HIDE DEF s
<1> QED
  BY <1>1, <1>5, <1>6, <1>8, GotoStep DEF Steps, Holding

\* What a handler at work has read, and that writing keeps the committed rows.
LEMMA AtWork ==
    ASSUME HInv, NEW h \in Handlers, pc[h] = "work"
    PROVE  /\ tx[h].status = status
           /\ tx[h].capacity = capacity
           /\ tx[h].seats = reservedSeats
           /\ cmd[h] \in Commands
           /\ Keyed(cmd[h]) => cmd[h].user \in Users
           /\ \A step : step # "work" /\ Goto(h, step) =>
                pc'[h] = step /\ cmd' = cmd /\ UNCHANGED store
BY CommandsAssumption DEF HInv, HandlersOK, Read, Busy, Goto, Keyed

\* Rows with these columns.
LEMMA IsRows ==
    ASSUME NEW a, NEW b, NEW c, NEW d, NEW e, NEW r,
           r \in [sit : {a}, unsit : {b}, moved : {c}, gone : {d}, tells : {e}]
    PROVE  r = [sit |-> a, unsit |-> b, moved |-> c, gone |-> d, tells |-> e]
<1>1. r = [sit |-> r.sit, unsit |-> r.unsit, moved |-> r.moved,
           gone |-> r.gone, tells |-> r.tells]
  OBVIOUS
<1> QED
  BY <1>1

\* What the operations write in place of nothing.
LEMMA NoRowsExcept ==
    ASSUME NEW x, NEW y
    PROVE  /\ [NoRows EXCEPT !.sit = x, !.tells = y]
                = [sit |-> x, unsit |-> {}, moved |-> <<>>, gone |-> 0,
                   tells |-> y]
           /\ [NoRows EXCEPT !.unsit = x, !.tells = y]
                = [sit |-> {}, unsit |-> x, moved |-> <<>>, gone |-> 0,
                   tells |-> y]
           /\ [NoRows EXCEPT !.moved = x, !.tells = y]
                = [sit |-> {}, unsit |-> {}, moved |-> x, gone |-> 0,
                   tells |-> y]
<1>1. [NoRows EXCEPT !.sit = x, !.tells = y]
        = [sit |-> x, unsit |-> {}, moved |-> <<>>, gone |-> 0, tells |-> y]
  <2> DEFINE r == [NoRows EXCEPT !.sit = x, !.tells = y]
  <2>1. r \in [sit : {x}, unsit : {{}}, moved : {<<>>}, gone : {0}, tells : {y}]
    BY DEF NoRows
  <2> HIDE DEF r
  <2>2. r = [sit |-> x, unsit |-> {}, moved |-> <<>>, gone |-> 0, tells |-> y]
    BY <2>1, IsRows
  <2> QED
    BY <2>2 DEF r
<1>2. [NoRows EXCEPT !.unsit = x, !.tells = y]
        = [sit |-> {}, unsit |-> x, moved |-> <<>>, gone |-> 0, tells |-> y]
  <2> DEFINE r == [NoRows EXCEPT !.unsit = x, !.tells = y]
  <2>1. r \in [sit : {{}}, unsit : {x}, moved : {<<>>}, gone : {0}, tells : {y}]
    BY DEF NoRows
  <2> HIDE DEF r
  <2>2. r = [sit |-> {}, unsit |-> x, moved |-> <<>>, gone |-> 0, tells |-> y]
    BY <2>1, IsRows
  <2> QED
    BY <2>2 DEF r
<1>3. [NoRows EXCEPT !.moved = x, !.tells = y]
        = [sit |-> {}, unsit |-> {}, moved |-> x, gone |-> 0, tells |-> y]
  <2> DEFINE r == [NoRows EXCEPT !.moved = x, !.tells = y]
  <2>1. r \in [sit : {{}}, unsit : {{}}, moved : {x}, gone : {0}, tells : {y}]
    BY DEF NoRows
  <2> HIDE DEF r
  <2>2. r = [sit |-> {}, unsit |-> {}, moved |-> x, gone |-> 0, tells |-> y]
    BY <2>1, IsRows
  <2> QED
    BY <2>2 DEF r
<1> QED
  BY <1>1, <1>2, <1>3

\* What leaving the waitlist writes in place of nothing.
LEMMA NoRowsLeft ==
    ASSUME NEW x, NEW y, NEW z
    PROVE  [NoRows EXCEPT !.moved = x, !.gone = z, !.tells = y]
             = [sit |-> {}, unsit |-> {}, moved |-> x, gone |-> z, tells |-> y]
<1> DEFINE r == [NoRows EXCEPT !.moved = x, !.gone = z, !.tells = y]
<1>1. r \in [sit : {{}}, unsit : {{}}, moved : {x}, gone : {z}, tells : {y}]
  BY DEF NoRows
<1> HIDE DEF r
<1>2. r = [sit |-> {}, unsit |-> {}, moved |-> x, gone |-> z, tells |-> y]
  BY <1>1, IsRows
<1> QED
  BY <1>2 DEF r

\* RegisterSeat
LEMMA RegisterSeatStep ==
    ASSUME HInv, NEW h \in Handlers, RegisterSeat(h)
    PROVE  HInv'
<1> DEFINE u == cmd[h].user
           rows == [sit |-> {u}, unsit |-> {}, moved |-> <<>>, gone |-> 0,
                    tells |-> Row(u, "seat")]
<1>1. /\ pc[h] = "work" /\ cmd[h].op = "register" /\ Keyed(cmd[h])
      /\ tx[h].seats < tx[h].capacity
  BY DEF RegisterSeat, Keyed
<1>2. rows = [NoRows EXCEPT !.sit = {u}, !.tells = Row(u, "seat")]
  BY NoRowsExcept
<1>3. Written(h, reservedSeats + 1, rows, "seat")
  BY <1>1, <1>2, AtWork DEF RegisterSeat
<1>4. pc'[h] = "record" /\ cmd' = cmd /\ UNCHANGED store
  BY <1>1, <1>3, AtWork DEF Written
<1>5. u \notin confirmed /\ position[u] = 0 /\ reservedSeats < capacity
  BY <1>1, AtWork DEF HInv, Read
<1>6. HasWritten(h, reservedSeats + 1, rows) => Prepared(h)'
  BY <1>1, <1>4, <1>5 DEF Prepared, Ready, WillSeat, HasWritten, Writes, store, Row
<1> QED
  BY <1>1, <1>3, <1>6, WrittenStep DEF Results

\* RegisterQueue
LEMMA RegisterQueueStep ==
    ASSUME HInv, NEW h \in Handlers, RegisterQueue(h)
    PROVE  HInv'
<1> DEFINE u == cmd[h].user
           rows(p) == [sit |-> {}, unsit |-> {}, moved |-> Row(u, p),
                       gone |-> 0, tells |-> Row(u, "queue")]
<1>1. /\ pc[h] = "work" /\ cmd[h].op = "register" /\ Keyed(cmd[h])
      /\ tx[h].seats >= tx[h].capacity
  BY DEF RegisterQueue, Keyed
<1>2. PICK p \in 1 .. MaxPosition :
        /\ IsNextPosition(p, position, retired)
        /\ Written(h, tx[h].seats,
                   [NoRows EXCEPT !.moved = Row(u, p),
                                  !.tells = Row(u, "queue")], "queue")
  BY DEF RegisterQueue
<1>3. rows(p) = [NoRows EXCEPT !.moved = Row(u, p), !.tells = Row(u, "queue")]
  BY NoRowsExcept
<1>4. Written(h, reservedSeats, rows(p), "queue")
  BY <1>1, <1>2, <1>3, AtWork
<1>5. pc'[h] = "record" /\ cmd' = cmd /\ UNCHANGED store
  BY <1>1, <1>4, AtWork DEF Written
<1>6. u \notin confirmed /\ position[u] = 0 /\ reservedSeats >= capacity
  BY <1>1, AtWork DEF HInv, Read
<1>7. HasWritten(h, reservedSeats, rows(p)) => Prepared(h)'
  BY <1>1, <1>2, <1>5, <1>6 DEF Prepared, Ready, WillQueue, HasWritten, Writes, store, Row
<1> QED
  BY <1>1, <1>4, <1>7, WrittenStep DEF Results

\* CancelSeat
LEMMA CancelSeatStep ==
    ASSUME HInv, NEW h \in Handlers, CancelSeat(h)
    PROVE  HInv'
<1> DEFINE u == cmd[h].user
<1>1. /\ pc[h] = "work" /\ cmd[h].op = "cancel" /\ Keyed(cmd[h])
      /\ tx[h].standing = "seat"
  BY DEF CancelSeat, Keyed
<1>2. u \in confirmed
  BY <1>1 DEF HInv, Read
<1>3. CASE \E next \in Users :
            /\ IsFirst(next, position)
            /\ tx[h].seats - 1 < tx[h].capacity
            /\ Written(h, tx[h].seats,
                       [sit |-> {next}, unsit |-> {u},
                        moved |-> Row(next, 0), gone |-> position[next],
                        tells |-> [v \in {next, u} |->
                                        IF v = next THEN "seat" ELSE "out"]],
                       "cancelled")
  <2> DEFINE rows(next) ==
                [sit |-> {next}, unsit |-> {u},
                 moved |-> Row(next, 0), gone |-> position[next],
                 tells |-> [v \in {next, u} |->
                                IF v = next THEN "seat" ELSE "out"]]
  <2>1. PICK next \in Users :
            /\ IsFirst(next, position)
            /\ tx[h].seats - 1 < tx[h].capacity
            /\ Written(h, tx[h].seats, rows(next), "cancelled")
    BY <1>3
  <2>2. /\ Written(h, reservedSeats, rows(next), "cancelled")
        /\ reservedSeats - 1 < capacity
    BY <1>1, <2>1, AtWork
  <2>3. pc'[h] = "record" /\ cmd' = cmd /\ UNCHANGED store
    BY <1>1, <2>2, AtWork DEF Written
  <2>4. HasWritten(h, reservedSeats, rows(next)) => WillPass(h, u)'
    BY <1>2, <2>1, <2>2, <2>3 DEF WillPass, HasWritten, Writes, store
  <2>5. HasWritten(h, reservedSeats, rows(next)) => Prepared(h)'
    BY <1>1, <2>3, <2>4 DEF Prepared, Ready
  <2> HIDE DEF rows
  <2> QED
    BY <1>1, <2>2, <2>5, WrittenStep DEF Results
<1>4. CASE /\ Waiting(position) = {}
           /\ Written(h, tx[h].seats - 1,
                      [NoRows EXCEPT !.unsit = {u},
                                     !.tells = Row(u, "out")], "cancelled")
  <2> DEFINE rows == [sit |-> {}, unsit |-> {u}, moved |-> <<>>, gone |-> 0,
                      tells |-> Row(u, "out")]
  <2>1. rows = [NoRows EXCEPT !.unsit = {u}, !.tells = Row(u, "out")]
    BY NoRowsExcept
  <2>2. Written(h, reservedSeats - 1, rows, "cancelled")
    BY <1>1, <1>4, <2>1, AtWork
  <2>3. pc'[h] = "record" /\ cmd' = cmd /\ UNCHANGED store
    BY <1>1, <2>2, AtWork DEF Written
  <2>4. HasWritten(h, reservedSeats - 1, rows) => WillFree(h, u)'
    BY <1>2, <1>4, <2>3 DEF WillFree, HasWritten, Writes, store, Row
  <2>5. HasWritten(h, reservedSeats - 1, rows) => Prepared(h)'
    BY <1>1, <2>3, <2>4 DEF Prepared, Ready
  <2> HIDE DEF rows
  <2> QED
    BY <1>1, <2>2, <2>5, WrittenStep DEF Results
<1> QED
  BY <1>3, <1>4 DEF CancelSeat

\* CancelQueue
LEMMA CancelQueueStep ==
    ASSUME HInv, NEW h \in Handlers, CancelQueue(h)
    PROVE  HInv'
<1> DEFINE u == cmd[h].user
           rows == [sit |-> {}, unsit |-> {},
                    moved |-> Resequenced(position, {u}),
                    gone |-> position[u], tells |-> Row(u, "out")]
<1>1. /\ pc[h] = "work" /\ cmd[h].op = "cancel" /\ Keyed(cmd[h])
      /\ tx[h].standing = "queue"
  BY DEF CancelQueue, Keyed
<1>2. rows = [NoRows EXCEPT !.moved = QueueWithout(u), !.gone = position[u],
                            !.tells = Row(u, "out")]
  <2>1. QueueWithout(u) = Resequenced(position, {u})
    BY DEF QueueWithout
  <2>2. rows = [sit |-> {}, unsit |-> {}, moved |-> QueueWithout(u),
                gone |-> position[u], tells |-> Row(u, "out")]
    BY <2>1
  <2>3. [NoRows EXCEPT !.moved = QueueWithout(u), !.gone = position[u],
                       !.tells = Row(u, "out")]
          = [sit |-> {}, unsit |-> {}, moved |-> QueueWithout(u),
             gone |-> position[u], tells |-> Row(u, "out")]
    BY NoRowsLeft
  <2> HIDE DEF rows
  <2> QED
    BY <2>2, <2>3
<1>3. Written(h, reservedSeats, rows, "cancelled")
  BY <1>1, <1>2, AtWork DEF CancelQueue
<1>4. pc'[h] = "record" /\ cmd' = cmd /\ UNCHANGED store
  BY <1>1, <1>3, AtWork DEF Written
<1>5. u \notin confirmed /\ position[u] > 0
  BY <1>1 DEF HInv, Read
<1>6. HasWritten(h, reservedSeats, rows) => WillLeave(h, u)'
  BY <1>4, <1>5 DEF WillLeave, HasWritten, Writes, store, Row
<1>7. HasWritten(h, reservedSeats, rows) => Prepared(h)'
  BY <1>1, <1>4, <1>6 DEF Prepared, Ready
<1> HIDE DEF rows
<1> QED
  BY <1>1, <1>3, <1>7, WrittenStep DEF Results

\* SetCapacity: an administrator's transaction, which stores no key.
LEMMA SetCapacityStep ==
    ASSUME HInv, reservedSeats \in Nat, NEW h \in Handlers, SetCapacity(h)
    PROVE  HInv'
<1> USE DEF HInv
<1> DEFINE c == cmd[h].capacity
<1>1. pc[h] = "work" /\ cmd[h].op = "set_capacity" /\ ~Keyed(cmd[h])
  BY DEF SetCapacity, Keyed
<1>2. CASE Reply(h, "refused")
  BY <1>2, ReplyStep DEF Results
<1>3. CASE c >= tx[h].seats /\ ~(c < tx[h].seats) /\ Goto(h, "commit")
  <2> DEFINE rows(P, gone) ==
                [sit |-> P, unsit |-> {},
                 moved |-> IF P = {} THEN <<>> ELSE Resequenced(position, P),
                 gone |-> gone, tells |-> [u \in P |-> "seat"]]
             seats(P) == tx[h].seats + Cardinality(P)
             s(P, gone) ==
                [tx[h] EXCEPT
                    !.capacity = c, !.seats = seats(P),
                    !.status = Ledger!SyncStatus(@, seats(P), c),
                    !.writes = rows(P, gone), !.outcome = "set"]
  <2>1. PICK P \in PromotionSets(position, c - tx[h].seats, {}),
             gone \in 0 .. MaxPosition :
                /\ IsGone(gone, P)
                /\ tx' = [tx EXCEPT ![h] = s(P, gone)]
    <3>1. PICK P \in PromotionSets(position, c - tx[h].seats, {}),
               gone \in 0 .. MaxPosition :
                /\ IsGone(gone, P)
                /\ tx' = [tx EXCEPT
                        ![h].capacity = c,
                        ![h].seats = seats(P),
                        ![h].status = Ledger!SyncStatus(@, seats(P), c),
                        ![h].writes = rows(P, gone),
                        ![h].outcome = "set"]
      BY <1>3, Zenon DEF SetCapacity
    <3>2. tx' = [tx EXCEPT ![h] = s(P, gone)]
      BY <3>1
    <3> HIDE DEF s
    <3> QED
      BY <3>1, <3>2
  <2>2. pc'[h] = "commit" /\ cmd' = cmd /\ UNCHANGED store
        /\ tx'[h] = s(P, gone)
    BY <1>3, <2>1 DEF Goto, HandlersOK
  <2>3. IsSession(tx[h]) /\ cmd[h] \in Commands
    BY <1>1 DEF Busy
  <2>4. /\ IsSession(tx[h])'
        /\ tx'[h].newUser = tx[h].newUser
        /\ tx'[h].status = Ledger!SyncStatus(tx[h].status, seats(P), c)
        /\ tx'[h].capacity = c
        /\ tx'[h].seats = seats(P)
        /\ tx'[h].writes = rows(P, gone)
    <3> HIDE DEF c, rows, seats
    <3> QED
      BY <2>2, <2>3 DEF IsSession
  <2>5. Busy(h)'
    BY <1>1, <2>2, <2>3, <2>4 DEF Busy, Keyed
  <2>6. Read(h)' /\ KeyKept(h)'
    BY <1>1, <2>2, <2>4 DEF Read, KeyKept, Keyed
  <2>7. tx[h].status = status /\ tx[h].seats = reservedSeats
    BY <1>1, AtWork
  <2>8. WillResize(h, c)'
    <3>1. UNCHANGED <<status, reservedSeats, position>> /\ cmd' = cmd
      BY <2>2 DEF store
    <3>2. /\ c >= reservedSeats
          /\ P \in PromotionSets(position, c - reservedSeats, {})
          /\ IsGone(gone, P)'
      BY <1>3, <2>1, <2>7, <3>1 DEF IsGone
    <3>3. /\ tx'[h].status
                = Ledger!SyncStatus(status, reservedSeats + Cardinality(P), c)
          /\ tx'[h].capacity = c
          /\ tx'[h].seats = reservedSeats + Cardinality(P)
          /\ tx'[h].writes = rows(P, gone)
      BY <2>4, <2>7
    <3> QED
      BY <3>1, <3>2, <3>3 DEF WillResize, Writes
  <2>9. Prepared(h)'
    BY <1>1, <2>2, <2>8 DEF Prepared, Ready
  <2> HIDE DEF s
  <2> QED
    BY <1>1, <1>3, <2>1, <2>5, <2>6, <2>9, GotoStep DEF Steps, Holding
<1> QED
  <2>1. c < tx[h].seats \/ c >= tx[h].seats
    <3>1. c \in 1 .. MaxCapacity /\ tx[h].seats = reservedSeats
      BY <1>1, AtWork, CommandsAssumption DEF Keyed
    <3> QED
      BY <3>1, CapacityAssumption
  <2> QED
    BY <1>1, <1>2, <1>3, <2>1 DEF SetCapacity

\* RecordKey: the key is free and what is written stays, or all of it goes.
LEMMA RecordKeyStep ==
    ASSUME HInv, NEW h \in Handlers, RecordKey(h)
    PROVE  HInv'
<1> USE DEF HInv
<1>1. /\ pc[h] = "record" /\ Keyed(cmd[h]) /\ IsSession(tx[h])
      /\ cmd[h] \in Commands /\ tx[h].outcome \in Results
  BY DEF RecordKey, Busy, KeyKept
<1>2. CASE /\ Goto(h, "reread")
           /\ tx' = [tx EXCEPT ![h] = [Fresh EXCEPT !.outcome = tx[h].outcome]]
  <2>1. pc'[h] = "reread" /\ cmd' = cmd
        /\ tx'[h] = [Fresh EXCEPT !.outcome = tx[h].outcome]
    BY <1>2 DEF Goto, HandlersOK
  <2>2. IsSession(tx[h])' /\ tx'[h].newUser = FALSE
    BY <2>1 DEF IsSession, Fresh
  <2>3. Busy(h)' /\ Read(h)' /\ Prepared(h)' /\ KeyKept(h)'
    BY <1>1, <2>1, <2>2 DEF Busy, Keyed, Read, Prepared, KeyKept
  <2> QED
    BY <1>2, <2>3, GotoStep DEF Steps, Holding
<1>3. CASE ~KeyIsTaken(cmd[h]) /\ Goto(h, "commit") /\ UNCHANGED tx
  <2>1. /\ pc'[h] = "commit" /\ cmd' = cmd /\ UNCHANGED store
        /\ tx' = [tx EXCEPT ![h] = tx[h]] /\ tx'[h] = tx[h]
    BY <1>3 DEF Goto, HandlersOK
  <2>2. Busy(h)' /\ Read(h)'
    BY <1>1, <2>1 DEF Busy, IsSession, Keyed, Read
  <2>3. KeyKept(h)'
    BY <1>1, <1>3, <2>1 DEF KeyKept, Keyed, KeyIsTaken, store
  <2>4. Prepared(h)'
    BY <1>1, <2>1, StillReady DEF Prepared
  <2> QED
    BY <1>1, <1>3, <2>1, <2>2, <2>3, <2>4, GotoStep DEF Steps, Holding
<1> QED
  BY <1>2, <1>3 DEF RecordKey

\* Answer and Reread tell what is stored for the key.
LEMMA AnswerStep ==
    ASSUME HInv, NEW h \in Handlers, Answer(h) \/ Reread(h)
    PROVE  HInv'
BY ReplyStep
DEF Answer, Reread, AfterIntegrityError, HInv, KeyKept, Results

\* Crash: no handler is at work, and what is committed stays.
LEMMA CrashStep ==
    ASSUME HInv, Crash
    PROVE  HInv'
<1> USE DEF HInv
<1>1. /\ UNCHANGED <<store, effects, answers>>
      /\ pc' = [h \in Handlers |-> "idle"]
      /\ cmd' = [h \in Handlers |-> NoCommand]
      /\ tx' = [h \in Handlers |-> Fresh]
  BY DEF Crash
<1>2. HandlersOK'
  BY <1>1 DEF HandlersOK, Steps, store
<1>3. Exclusive'
  BY <1>1 DEF Exclusive, Holding
<1>4. ASSUME NEW h \in Handlers
      PROVE  Busy(h)' /\ Read(h)' /\ Prepared(h)' /\ KeyKept(h)'
  <2>1. pc'[h] = "idle" /\ tx'[h] = Fresh
    BY <1>1
  <2> QED
    BY <2>1 DEF Busy, IsSession, Fresh, Read, Prepared, KeyKept
<1>5. DoneOnce' /\ AnswersAreTrue'
  BY <1>1 DEF DoneOnce, AnswersAreTrue, store
<1> QED
  BY <1>2, <1>3, <1>4, <1>5

------------------------------------------------------------------------------
(* Commits are operations of the ledger.                                   *)

\* What the invariant of the ledger says of the committed rows.
LEMMA CommittedRows ==
    ASSUME BInv
    PROVE  /\ capacity \in 1 .. MaxCapacity
           /\ reservedSeats \in Nat
           /\ reservedSeats <= capacity
           /\ confirmed \subseteq Users
           /\ position \in [Users -> 0 .. MaxPosition]
           /\ position \in [Users -> Nat]
           /\ retired \in Nat
           /\ told \in [Users -> Ledger!Notices]
           /\ Distinct(position)
           /\ confirmed \cap Waiting(position) = {}
           /\ status = Ledger!SyncStatus(status, reservedSeats, capacity)
<1>1. LP!TypeOK /\ LP!SeatsCounted /\ LP!OneStanding /\ LP!PositionsDistinct
      /\ LP!FullMeansFull /\ HandlersOK /\ status \in Ledger!PublishedStatuses
  BY DEF BInv, HInv, LP!IInv, LP!SeatInv
<1>2. /\ capacity \in 1 .. MaxCapacity /\ confirmed \subseteq Users
      /\ position \in [Users -> 0 .. MaxPosition]
      /\ position \in [Users -> Nat]
      /\ retired \in Nat
  BY <1>1 DEF LP!TypeOK, LP!Capacities, HandlersOK
<1>3. told \in [Users -> Ledger!Notices]
  BY <1>1 DEF LP!TypeOK, LP!Notices, Ledger!Notices
<1>4. reservedSeats = Cardinality(confirmed) /\ reservedSeats <= capacity
  BY <1>1 DEF LP!SeatsCounted, LP!Cardinality, Cardinality
<1>5. reservedSeats \in Nat
  BY <1>2, <1>4, UsersAssumption, FS_Subset, FS_CardinalityType
<1>6. Distinct(position) /\ confirmed \cap Waiting(position) = {}
  BY <1>1 DEF LP!OneStanding, LP!PositionsDistinct, LP!Distinct, LP!Waiting,
              Distinct, Waiting
<1>7. status = Ledger!SyncStatus(status, reservedSeats, capacity)
  BY <1>1 DEF LP!FullMeansFull, LP!Published, LP!PublishedStatuses,
              Ledger!SyncStatus, Ledger!Published, Ledger!PublishedStatuses
<1> QED
  BY <1>1, <1>2, <1>3, <1>4, <1>5, <1>6, <1>7

\* What rows written over others leave.
LEMMA OverNothing ==
    ASSUME NEW S, NEW old \in [Users -> S]
    PROVE  Over(<<>>, old) = old
BY DEF Over

LEMMA OverRow ==
    ASSUME NEW S, NEW old \in [Users -> S], NEW u \in Users, NEW x
    PROVE  Over(Row(u, x), old) = [old EXCEPT ![u] = x]
BY DEF Over, Row

LEMMA OverAll ==
    ASSUME NEW S, NEW old, NEW new \in [Users -> S]
    PROVE  Over(new, old) = new
BY DEF Over

\* What a commit leaves in the tables of the ledger.
LEMMA Committed ==
    ASSUME NEW h \in Handlers, Commit(h), NEW cap, NEW seats,
           NEW sit, NEW unsit, NEW moved, NEW gone, NEW tells,
           Writes(h, cap, seats, [sit |-> sit, unsit |-> unsit,
                                  moved |-> moved, gone |-> gone,
                                  tells |-> tells])
    PROVE  /\ capacity' = cap
           /\ reservedSeats' = seats
           /\ status' = Ledger!SyncStatus(status, seats, cap)
           /\ confirmed' = (confirmed \ unsit) \union sit
           /\ position' = Over(moved, position)
           /\ retired' = Larger(retired, gone)
           /\ told' = Over(tells, told)
BY DEF Commit, Writes

\* A registration is Register, with the seats and the queue of the commit.
LEMMA CommitRegisters ==
    ASSUME BInv, NEW h \in Handlers, Commit(h), NEW u \in Users,
           WillSeat(h, u) \/ WillQueue(h, u)
    PROVE  Ledger!Register(u)
<1>1. /\ position \in [Users -> Nat] /\ retired \in Nat
      /\ told \in [Users -> Ledger!Notices]
      /\ status \in Ledger!PublishedStatuses
      /\ reservedSeats \in Nat /\ capacity \in Nat
  BY CommittedRows DEF BInv
<1>2. Ledger!RegistrationAllowed
  BY <1>1 DEF Ledger!RegistrationAllowed, Ledger!PublishedStatuses
<1>3. Ledger!NoMembership(u)
  BY DEF WillSeat, WillQueue, Ledger!NoMembership
<1>4. ASSUME WillSeat(h, u)
      PROVE  /\ Ledger!HasFreeSeat /\ Ledger!TakeSeat(u)
             /\ UNCHANGED <<Ledger!waitlistVars, capacity>>
  <2>1. /\ capacity' = capacity
        /\ reservedSeats' = reservedSeats + 1
        /\ status' = Ledger!SyncStatus(status, reservedSeats + 1, capacity)
        /\ confirmed' = (confirmed \ {}) \union {u}
        /\ position' = Over(<<>>, position)
        /\ retired' = Larger(retired, 0)
        /\ told' = Over(Row(u, "seat"), told)
    BY <1>4, Committed DEF WillSeat
  <2>2. position' = position /\ told' = [told EXCEPT ![u] = "seat"]
    BY <1>1, <2>1, OverNothing, OverRow
  <2>3. retired' = retired
    BY <1>1, <2>1 DEF Larger
  <2> QED
    BY <1>4, <2>1, <2>2, <2>3
    DEF WillSeat, Ledger!HasFreeSeat, Ledger!TakeSeat, Ledger!waitlistVars,
        Ledger!SyncStatus, Ledger!Published, Ledger!PublishedStatuses
<1>5. ASSUME WillQueue(h, u)
      PROVE  /\ ~Ledger!HasFreeSeat /\ Ledger!Enqueue(u)
             /\ capacity' = capacity
             /\ status' = Ledger!SyncStatus(status, reservedSeats, capacity)
  <2>1. PICK p \in 1 .. MaxPosition :
        /\ IsNextPosition(p, position, retired)
        /\ Writes(h, capacity, reservedSeats,
                  [sit |-> {}, unsit |-> {}, moved |-> Row(u, p), gone |-> 0,
                   tells |-> Row(u, "queue")])
    BY <1>5 DEF WillQueue
  <2>2. /\ capacity' = capacity
        /\ reservedSeats' = reservedSeats
        /\ status' = Ledger!SyncStatus(status, reservedSeats, capacity)
        /\ confirmed' = confirmed
        /\ position' = Over(Row(u, p), position)
        /\ retired' = Larger(retired, 0)
        /\ told' = Over(Row(u, "queue"), told)
    <3>1. confirmed' = (confirmed \ {}) \union {}
      BY <2>1, Committed
    <3> QED
      BY <2>1, <3>1, Committed
  <2>3. /\ position' = [position EXCEPT ![u] = p]
        /\ told' = [told EXCEPT ![u] = "queue"]
    BY <1>1, <2>2, OverRow
  <2>4. retired' = retired
    BY <1>1, <2>2 DEF Larger
  <2>5. Ledger!IsNextPosition(p, position, retired)
    BY <2>1 DEF IsNextPosition, Ledger!IsNextPosition
  <2>6. ~Ledger!HasFreeSeat
    BY <1>1, <1>5 DEF WillQueue, Ledger!HasFreeSeat
  <2>7. Ledger!Enqueue(u)
    BY <2>2, <2>3, <2>4, <2>5 DEF Ledger!Enqueue
  <2> QED
    BY <2>2, <2>6, <2>7
<1> QED
  BY <1>2, <1>3, <1>4, <1>5
  DEF Ledger!Register, Ledger!clockVars, Ledger!publicationVars,
      Ledger!waitlistVars

\* A cancellation of a reservation is CancelReservation within the deadline.
LEMMA CommitCancels ==
    ASSUME BInv, NEW h \in Handlers, Commit(h), NEW u \in Users,
           WillPass(h, u) \/ WillFree(h, u)
    PROVE  Ledger!CancelReservation(u, FALSE)
<1>1. /\ position \in [Users -> Nat] /\ retired \in Nat
      /\ told \in [Users -> Ledger!Notices]
      /\ reservedSeats \in Nat /\ capacity \in Nat
  BY CommittedRows
<1>2. ASSUME WillPass(h, u)
      PROVE  /\ u \in confirmed
             /\ \E next \in Users :
                    /\ Ledger!IsFirst(next, position)
                    /\ reservedSeats - 1 < capacity
                    /\ confirmed' = (confirmed \ {u}) \union {next}
                    /\ reservedSeats' = reservedSeats
                    /\ position' = [position EXCEPT ![next] = 0]
                    /\ retired' = Ledger!Larger(retired, position[next])
                    /\ told' = [told EXCEPT ![u] = "out", ![next] = "seat"]
             /\ status' = Ledger!SyncStatus(status, reservedSeats', capacity)
             /\ capacity' = capacity
  <2>1. PICK next \in Users :
        /\ IsFirst(next, position)
        /\ Writes(h, capacity, reservedSeats,
                  [sit |-> {next}, unsit |-> {u}, moved |-> Row(next, 0),
                   gone |-> position[next],
                   tells |-> [v \in {next, u} |->
                                IF v = next THEN "seat" ELSE "out"]])
    BY <1>2 DEF WillPass
  <2>2. /\ capacity' = capacity
        /\ reservedSeats' = reservedSeats
        /\ status' = Ledger!SyncStatus(status, reservedSeats, capacity)
        /\ confirmed' = (confirmed \ {u}) \union {next}
        /\ position' = Over(Row(next, 0), position)
        /\ retired' = Larger(retired, position[next])
        /\ told' = Over([v \in {next, u} |-> IF v = next THEN "seat" ELSE "out"],
                        told)
    BY <2>1, Committed
  <2>3. position' = [position EXCEPT ![next] = 0]
    BY <1>1, <2>2, OverRow
  <2>4. told' = [told EXCEPT ![u] = "out", ![next] = "seat"]
    BY <1>1, <2>2 DEF Over
  <2>5. Ledger!IsFirst(next, position)
    BY <2>1 DEF IsFirst, Ledger!IsFirst, Waiting, Ledger!Waiting
  <2>6. retired' = Ledger!Larger(retired, position[next])
    BY <2>2 DEF Larger, Ledger!Larger
  <2>7. u \in confirmed /\ reservedSeats - 1 < capacity
    BY <1>2 DEF WillPass
  <2> QED
    BY <2>2, <2>3, <2>4, <2>5, <2>6, <2>7
<1>3. ASSUME WillFree(h, u)
      PROVE  /\ u \in confirmed
             /\ Ledger!Waiting(position) = {}
             /\ confirmed' = confirmed \ {u}
             /\ reservedSeats' = reservedSeats - 1
             /\ told' = [told EXCEPT ![u] = "out"]
             /\ UNCHANGED <<position, retired, capacity>>
             /\ status' = Ledger!SyncStatus(status, reservedSeats', capacity)
  <2>1. /\ capacity' = capacity
        /\ reservedSeats' = reservedSeats - 1
        /\ status' = Ledger!SyncStatus(status, reservedSeats - 1, capacity)
        /\ confirmed' = (confirmed \ {u}) \union {}
        /\ position' = Over(<<>>, position)
        /\ retired' = Larger(retired, 0)
        /\ told' = Over(Row(u, "out"), told)
    BY <1>3, Committed DEF WillFree
  <2>2. position' = position /\ told' = [told EXCEPT ![u] = "out"]
    BY <1>1, <2>1, OverNothing, OverRow
  <2>3. retired' = retired
    BY <1>1, <2>1 DEF Larger
  <2>4. u \in confirmed /\ Ledger!Waiting(position) = {}
    BY <1>3 DEF WillFree, Waiting, Ledger!Waiting
  <2>5. confirmed' = confirmed \ {u}
    BY <2>1
  <2> QED
    BY <2>1, <2>2, <2>3, <2>4, <2>5
<1> QED
  BY <1>2, <1>3
  DEF Ledger!CancelReservation, Ledger!clockVars, Ledger!publicationVars,
      Ledger!waitlistVars

\* A user who leaves the waitlist commits CancelWaitlistEntry.
LEMMA CommitLeaves ==
    ASSUME BInv, NEW h \in Handlers, Commit(h), NEW u \in Users,
           WillLeave(h, u)
    PROVE  Ledger!CancelWaitlistEntry(u)
<1>1. /\ position \in [Users -> Nat]
      /\ told \in [Users -> Ledger!Notices]
      /\ status = Ledger!SyncStatus(status, reservedSeats, capacity)
  BY CommittedRows
<1>2. /\ capacity' = capacity
      /\ reservedSeats' = reservedSeats
      /\ status' = Ledger!SyncStatus(status, reservedSeats, capacity)
      /\ confirmed' = (confirmed \ {}) \union {}
      /\ position' = Over(Resequenced(position, {u}), position)
      /\ retired' = Larger(retired, position[u])
      /\ told' = Over(Row(u, "out"), told)
  BY Committed DEF WillLeave
<1>3. position' = Resequenced(position, {u})
  BY <1>1, <1>2, ResequencedType, OverAll
<1>4. told' = [told EXCEPT ![u] = "out"]
  BY <1>1, <1>2, OverRow
<1>5. Ledger!LeaveQueue(u)
  BY <1>2, <1>3
  DEF Ledger!LeaveQueue, Ledger!Resequenced, Resequenced, Ledger!Waiting,
      Waiting, Ledger!Larger, Larger, Ledger!Cardinality, Cardinality
<1>6. confirmed' = confirmed /\ status' = status
  BY <1>1, <1>2
<1>7. u \notin confirmed /\ position[u] > 0
  BY DEF WillLeave
<1> QED
  BY <1>2, <1>4, <1>5, <1>6, <1>7
  DEF Ledger!CancelWaitlistEntry, Ledger!clockVars, Ledger!publicationVars

\* A change of the capacity commits SetCapacity, with its promotions.
LEMMA CommitResizes ==
    ASSUME BInv, NEW h \in Handlers, Commit(h), NEW c \in 1 .. MaxCapacity,
           WillResize(h, c)
    PROVE  Ledger!SetCapacity(c, 0)
<1>1. /\ position \in [Users -> Nat] /\ retired \in Nat
      /\ told \in [Users -> Ledger!Notices]
      /\ status \in Ledger!PublishedStatuses
  BY CommittedRows DEF BInv
<1>2. PICK P \in PromotionSets(position, c - reservedSeats, {}),
           gone \in 0 .. MaxPosition :
        /\ IsGone(gone, P)
        /\ Writes(h, c, reservedSeats + Cardinality(P),
                  [sit |-> P, unsit |-> {},
                   moved |-> IF P = {} THEN <<>> ELSE Resequenced(position, P),
                   gone |-> gone, tells |-> [u \in P |-> "seat"]])
  BY DEF WillResize
<1>3. /\ capacity' = c
      /\ reservedSeats' = reservedSeats + Cardinality(P)
      /\ status' = Ledger!SyncStatus(status, reservedSeats + Cardinality(P), c)
      /\ confirmed' = (confirmed \ {}) \union P
      /\ position' = Over(IF P = {} THEN <<>> ELSE Resequenced(position, P),
                          position)
      /\ retired' = Larger(retired, gone)
      /\ told' = Over([u \in P |-> "seat"], told)
  BY <1>2, Committed
<1>4. P \in SUBSET Users
  BY <1>2, WaitingFinite DEF PromotionSets
<1>5. told' = [u \in Users |-> IF u \in P THEN "seat" ELSE told[u]]
  BY <1>3, <1>4 DEF Over
<1>6. confirmed' = confirmed \union P
  BY <1>3
<1>7. \/ P = {} /\ position' = position /\ retired' = retired
      \/ \E first \in P :
            /\ \A u \in P : position[first] <= position[u]
            /\ position' = Resequenced(position, P)
            /\ retired' = Larger(retired, position[first])
  <2>1. CASE P = {}
    <3>1. position' = Over(<<>>, position) /\ gone = 0
      BY <1>2, <1>3, <2>1 DEF IsGone
    <3>2. position' = position
      BY <1>1, <3>1, OverNothing
    <3>3. retired' = retired
      BY <1>1, <1>3, <3>1 DEF Larger
    <3> QED
      BY <2>1, <3>2, <3>3
  <2>2. CASE P # {}
    <3>1. PICK first \in P :
            gone = position[first] /\ \A u \in P : position[first] <= position[u]
      BY <1>2, <2>2 DEF IsGone
    <3>2. position' = Over(Resequenced(position, P), position)
      BY <1>3, <2>2
    <3>3. position' = Resequenced(position, P)
      BY <1>1, <3>2, ResequencedType, OverAll
    <3> QED
      BY <1>3, <3>1, <3>3
  <2> QED
    BY <2>1, <2>2
<1>8. Ledger!Settle(P, reservedSeats, confirmed, position, retired)
  BY <1>3, <1>6, <1>7
  DEF Ledger!Settle, Ledger!Resequenced, Resequenced, Ledger!Waiting,
      Waiting, Ledger!Larger, Larger, Ledger!Cardinality, Cardinality
<1>9. P \in Ledger!PromotionSets(position, c - reservedSeats, {})
  BY <1>2
  DEF Ledger!PromotionSets, PromotionSets, Ledger!Waiting, Waiting,
      Ledger!Smaller, Smaller, Ledger!Cardinality, Cardinality
<1>10. Ledger!Mutable(0)
  BY <1>1 DEF Ledger!Mutable, Ledger!PublishedStatuses
<1>11. c >= reservedSeats
  BY DEF WillResize
<1>12. status' = Ledger!SyncStatus(status, reservedSeats', c)
  BY <1>3
<1> QED
  BY <1>3, <1>5, <1>8, <1>9, <1>10, <1>11, <1>12
  DEF Ledger!SetCapacity, Ledger!clockVars, Ledger!publicationVars

\* Every commit is an operation of the ledger on the rows as they are.
LEMMA CommitOperates ==
    ASSUME BInv, NEW h \in Handlers, Commit(h)
    PROVE  \/ \E u \in Users :
                \/ Ledger!Register(u)
                \/ Ledger!CancelReservation(u, FALSE)
                \/ Ledger!CancelWaitlistEntry(u)
           \/ \E c \in 1 .. MaxCapacity : Ledger!SetCapacity(c, 0)
<1>1. pc[h] = "commit" /\ Ready(h) /\ cmd[h] \in Commands
  BY DEF Commit, BInv, HInv, Busy, Prepared
<1>2. CASE cmd[h].op = "register"
           /\ (WillSeat(h, cmd[h].user) \/ WillQueue(h, cmd[h].user))
  BY <1>1, <1>2, CommitRegisters, CommandsAssumption
<1>3. CASE cmd[h].op = "cancel"
           /\ (WillPass(h, cmd[h].user) \/ WillFree(h, cmd[h].user))
  BY <1>1, <1>3, CommitCancels, CommandsAssumption
<1>4. CASE cmd[h].op = "cancel" /\ WillLeave(h, cmd[h].user)
  BY <1>1, <1>4, CommitLeaves, CommandsAssumption
<1>5. CASE cmd[h].op = "set_capacity" /\ WillResize(h, cmd[h].capacity)
  BY <1>1, <1>5, CommitResizes, CommandsAssumption
<1> QED
  BY <1>1, <1>2, <1>3, <1>4, <1>5 DEF Ready

LEMMA CommitIsSerial ==
    ASSUME BInv, NEW h \in Handlers, Commit(h)
    PROVE  Ledger!RegistrationStep \/ Ledger!AdminStep
<1>1. 0 \in Ledger!Readings
  BY DEF Ledger!Readings, Ledger!Time
<1>2. \A c \in 1 .. MaxCapacity : c \in Ledger!Capacities
  BY DEF Ledger!Capacities
<1> QED
  BY <1>1, <1>2, CommitOperates DEF Ledger!RegistrationStep, Ledger!AdminStep

\* The ledger's operations have one meaning in both instances.
LEMMA SameOperations ==
    /\ \A u : Ledger!Register(u) => LP!Register(u)
    /\ \A u, b : Ledger!CancelReservation(u, b) => LP!CancelReservation(u, b)
    /\ \A u : Ledger!CancelWaitlistEntry(u) => LP!CancelWaitlistEntry(u)
    /\ \A c, t : Ledger!SetCapacity(c, t) => LP!SetCapacity(c, t)
<1>1. \A u : Ledger!Register(u) => LP!Register(u)
  BY DEF Ledger!Register, LP!Register,
    Ledger!RegistrationAllowed, LP!RegistrationAllowed,
    Ledger!NoMembership, LP!NoMembership, Ledger!HasFreeSeat, LP!HasFreeSeat,
    Ledger!TakeSeat, LP!TakeSeat, Ledger!Enqueue, LP!Enqueue,
    Ledger!waitlistVars, LP!waitlistVars, Ledger!clockVars, LP!clockVars,
    Ledger!publicationVars, LP!publicationVars,
    Ledger!SyncStatus, LP!SyncStatus, Ledger!Published, LP!Published,
    Ledger!PublishedStatuses, LP!PublishedStatuses,
    Ledger!IsNextPosition, LP!IsNextPosition
<1>2. \A u, b : Ledger!CancelReservation(u, b) => LP!CancelReservation(u, b)
  BY DEF Ledger!CancelReservation, LP!CancelReservation,
    Ledger!IsFirst, LP!IsFirst, Ledger!Waiting, LP!Waiting,
    Ledger!Larger, LP!Larger,
    Ledger!waitlistVars, LP!waitlistVars, Ledger!clockVars, LP!clockVars,
    Ledger!publicationVars, LP!publicationVars,
    Ledger!SyncStatus, LP!SyncStatus, Ledger!Published, LP!Published,
    Ledger!PublishedStatuses, LP!PublishedStatuses
<1>3. \A u : Ledger!CancelWaitlistEntry(u) => LP!CancelWaitlistEntry(u)
  BY DEF Ledger!CancelWaitlistEntry, LP!CancelWaitlistEntry,
    Ledger!LeaveQueue, LP!LeaveQueue, Ledger!Resequenced, LP!Resequenced,
    Ledger!Waiting, LP!Waiting, Ledger!Cardinality, LP!Cardinality,
    Ledger!Larger, LP!Larger, Ledger!clockVars, LP!clockVars,
    Ledger!publicationVars, LP!publicationVars
<1>4. \A c, t : Ledger!SetCapacity(c, t) => LP!SetCapacity(c, t)
  <2>1. \A P, a, b, c, d : Ledger!Settle(P, a, b, c, d) => LP!Settle(P, a, b, c, d)
    <3>1. \A S : Ledger!Cardinality(S) = LP!Cardinality(S)
      BY DEF Ledger!Cardinality, LP!Cardinality
    <3>2. \A q, G : Ledger!Resequenced(q, G) = LP!Resequenced(q, G)
      BY DEF Ledger!Resequenced, LP!Resequenced, Ledger!Waiting, LP!Waiting,
        Ledger!Cardinality, LP!Cardinality
    <3>3. \A m, n : Ledger!Larger(m, n) = LP!Larger(m, n)
      BY DEF Ledger!Larger, LP!Larger
    <3> QED
      BY <3>1, <3>2, <3>3 DEF Ledger!Settle, LP!Settle
  <2>2. \A a, b, c : Ledger!PromotionSets(a, b, c) = LP!PromotionSets(a, b, c)
    BY DEF Ledger!PromotionSets, LP!PromotionSets,
      Ledger!Waiting, LP!Waiting, Ledger!Cardinality, LP!Cardinality,
      Ledger!Smaller, LP!Smaller
  <2>3. \A a, b, c : Ledger!SyncStatus(a, b, c) = LP!SyncStatus(a, b, c)
    BY DEF Ledger!SyncStatus, LP!SyncStatus, Ledger!Published, LP!Published,
      Ledger!PublishedStatuses, LP!PublishedStatuses
  <2>4. \A t : Ledger!Mutable(t) => LP!Mutable(t)
    BY DEF Ledger!Mutable, LP!Mutable
  <2> QED
    BY <2>1, <2>2, <2>3, <2>4 DEF Ledger!SetCapacity, LP!SetCapacity,
      Ledger!clockVars, LP!clockVars, Ledger!publicationVars,
      LP!publicationVars
<1> QED
  BY <1>1, <1>2, <1>3, <1>4

------------------------------------------------------------------------------
(* A commit keeps the invariant.                                           *)

\* Renumbering never moves a user back, as positions are distinct.
LEMMA ResequencedBound ==
    ASSUME NEW queue \in [Users -> 0 .. MaxPosition], NEW Gone, Distinct(queue)
    PROVE  Resequenced(queue, Gone) \in [Users -> 0 .. MaxPosition]
<1> DEFINE rest == Waiting(queue) \ Gone
           ahead(u) == {v \in rest : queue[v] <= queue[u]}
<1>1. queue \in [Users -> Nat] /\ MaxPosition \in Nat
  BY PositionAssumption
<1>2. ASSUME NEW u \in rest
      PROVE  Cardinality(ahead(u)) \in 0 .. MaxPosition
  <2> DEFINE f == [v \in ahead(u) |-> queue[v]]
  <2>1. u \in Users /\ queue[u] \in 0 .. MaxPosition /\ rest \in SUBSET Users
    BY WaitingFinite
  <2>2. \A v \in ahead(u) : f[v] \in 1 .. queue[u]
    BY <1>1, <2>1 DEF Waiting
  <2>3. \A v, w \in ahead(u) : f[v] = f[w] => v = w
    BY DEF Distinct
  <2>4. f \in Injection(ahead(u), 1 .. queue[u])
    <3> HIDE DEF ahead
    <3> QED
      BY <2>2, <2>3 DEF Injection, IsInjective
  <2>5. IsFiniteSet(1 .. queue[u]) /\ Cardinality(1 .. queue[u]) = queue[u]
    BY <2>1, FS_Interval
  <2>6. /\ IsFiniteSet(ahead(u))
        /\ Cardinality(ahead(u)) \in Nat
        /\ Cardinality(ahead(u)) <= queue[u]
    <3> HIDE DEF ahead, f
    <3> QED
      BY <2>4, <2>5, FS_Injection, FS_CardinalityType
  <2> HIDE DEF ahead, f
  <2> QED
    BY <1>1, <2>1, <2>6
<1> QED
  BY <1>1, <1>2 DEF Resequenced

\* The committed positions are in bounds.
LEMMA CommitBounded ==
    ASSUME BInv, NEW h \in Handlers, Commit(h)
    PROVE  /\ position' \in [Users -> 0 .. MaxPosition]
           /\ retired' \in 0 .. MaxPosition
<1>1. /\ position \in [Users -> 0 .. MaxPosition]
      /\ retired \in 0 .. MaxPosition
      /\ Distinct(position)
      /\ MaxPosition \in Nat
  BY CommittedRows, PositionAssumption DEF BInv, HInv, HandlersOK
<1>2. pc[h] = "commit" /\ Ready(h) /\ cmd[h] \in Commands
  BY DEF Commit, BInv, HInv, Busy, Prepared
<1>3. ASSUME NEW cap, NEW seats, NEW sit, NEW unsit, NEW moved, NEW tells,
             NEW gone \in 0 .. MaxPosition,
             Over(moved, position) \in [Users -> 0 .. MaxPosition],
             Writes(h, cap, seats, [sit |-> sit, unsit |-> unsit,
                                    moved |-> moved, gone |-> gone,
                                    tells |-> tells])
      PROVE  /\ position' \in [Users -> 0 .. MaxPosition]
             /\ retired' \in 0 .. MaxPosition
  BY <1>1, <1>3, Committed DEF Larger
<1>4. /\ Over(<<>>, position) \in [Users -> 0 .. MaxPosition]
      /\ \A u \in Users, p \in 0 .. MaxPosition :
            Over(Row(u, p), position) \in [Users -> 0 .. MaxPosition]
      /\ \A Gone : Over(Resequenced(position, Gone), position)
                        \in [Users -> 0 .. MaxPosition]
  <2>1. Over(<<>>, position) \in [Users -> 0 .. MaxPosition]
    BY <1>1, OverNothing
  <2>2. \A u \in Users, p \in 0 .. MaxPosition :
            Over(Row(u, p), position) \in [Users -> 0 .. MaxPosition]
    BY <1>1, OverRow
  <2>3. \A Gone : Over(Resequenced(position, Gone), position)
                        \in [Users -> 0 .. MaxPosition]
    BY <1>1, ResequencedBound, OverAll
  <2> QED
    BY <2>1, <2>2, <2>3
<1>5. 0 \in 0 .. MaxPosition /\ \A u \in Users : position[u] \in 0 .. MaxPosition
  BY <1>1
<1>6. ASSUME NEW u \in Users, WillSeat(h, u) \/ WillFree(h, u)
      PROVE  /\ position' \in [Users -> 0 .. MaxPosition]
             /\ retired' \in 0 .. MaxPosition
  BY <1>3, <1>4, <1>5, <1>6 DEF WillSeat, WillFree
<1>7. ASSUME NEW u \in Users, WillQueue(h, u)
      PROVE  /\ position' \in [Users -> 0 .. MaxPosition]
             /\ retired' \in 0 .. MaxPosition
  <2>1. PICK p \in 1 .. MaxPosition :
            Writes(h, capacity, reservedSeats,
                   [sit |-> {}, unsit |-> {}, moved |-> Row(u, p), gone |-> 0,
                    tells |-> Row(u, "queue")])
    BY <1>7 DEF WillQueue
  <2>2. p \in 0 .. MaxPosition
    BY <1>1
  <2> QED
    BY <1>3, <1>4, <1>5, <2>1, <2>2
<1>8. ASSUME NEW u \in Users, WillPass(h, u)
      PROVE  /\ position' \in [Users -> 0 .. MaxPosition]
             /\ retired' \in 0 .. MaxPosition
  <2>1. PICK next \in Users :
            Writes(h, capacity, reservedSeats,
                   [sit |-> {next}, unsit |-> {u}, moved |-> Row(next, 0),
                    gone |-> position[next],
                    tells |-> [v \in {next, u} |->
                                IF v = next THEN "seat" ELSE "out"]])
    BY <1>8 DEF WillPass
  <2> QED
    BY <1>3, <1>4, <1>5, <2>1
<1>9. ASSUME NEW u \in Users, WillLeave(h, u)
      PROVE  /\ position' \in [Users -> 0 .. MaxPosition]
             /\ retired' \in 0 .. MaxPosition
  BY <1>3, <1>4, <1>5, <1>9 DEF WillLeave
<1>10. ASSUME NEW c, WillResize(h, c)
       PROVE  /\ position' \in [Users -> 0 .. MaxPosition]
              /\ retired' \in 0 .. MaxPosition
  <2>1. PICK P \in PromotionSets(position, c - reservedSeats, {}),
             gone \in 0 .. MaxPosition :
            Writes(h, c, reservedSeats + Cardinality(P),
                   [sit |-> P, unsit |-> {},
                    moved |-> IF P = {} THEN <<>> ELSE Resequenced(position, P),
                    gone |-> gone, tells |-> [u \in P |-> "seat"]])
    BY <1>10 DEF WillResize
  <2>2. Over(IF P = {} THEN <<>> ELSE Resequenced(position, P), position)
            \in [Users -> 0 .. MaxPosition]
    BY <1>4
  <2> QED
    BY <1>3, <2>1, <2>2
<1> QED
  BY <1>2, <1>6, <1>7, <1>8, <1>9, <1>10, CommandsAssumption DEF Ready

\* The rows stay sound and the event stays published.
LEMMA CommitKeepsLedger ==
    ASSUME BInv, NEW h \in Handlers, Commit(h)
    PROVE  LP!IInv' /\ status' \in Ledger!PublishedStatuses
<1>1. LP!RegistrationStep \/ LP!AdminStep
  <2>1. 0 \in LP!Readings /\ FALSE \in BOOLEAN
    BY DEF LP!Readings, LP!Time
  <2>2. \A c \in 1 .. MaxCapacity : c \in LP!Capacities
    BY DEF LP!Capacities
  <2> QED
    BY <2>1, <2>2, CommitOperates, SameOperations
    DEF LP!RegistrationStep, LP!AdminStep
<1>2. LP!IInv'
  <2>1. [LP!Next]_LP!vars
    BY <1>1 DEF LP!Next
  <2>2. MaxCapacity \in Nat \ {0} /\ MaxPosition \in Nat
    BY CapacityAssumption, PositionAssumption
  <2>3. LP!IsFiniteSet(Users)
    BY UsersAssumption DEF LP!IsFiniteSet, IsFiniteSet
  <2>4. LP!IInv
    BY DEF BInv
  <2> QED
    BY <2>1, <2>2, <2>3, <2>4, LP!Inductive
<1>3. status' \in Ledger!PublishedStatuses
  <2>1. \A seats, cap :
            Ledger!SyncStatus(status, seats, cap) \in Ledger!PublishedStatuses
    BY DEF BInv, Ledger!SyncStatus, Ledger!Published, Ledger!PublishedStatuses
  <2>2. \A u : Ledger!Register(u) => status' \in Ledger!PublishedStatuses
    BY <2>1 DEF Ledger!Register, Ledger!TakeSeat
  <2>3. \A u : Ledger!CancelReservation(u, FALSE)
                => status' \in Ledger!PublishedStatuses
    BY <2>1 DEF Ledger!CancelReservation
  <2>4. \A u : Ledger!CancelWaitlistEntry(u)
                => status' \in Ledger!PublishedStatuses
    BY DEF BInv, Ledger!CancelWaitlistEntry
  <2>5. \A c : Ledger!SetCapacity(c, 0) => status' \in Ledger!PublishedStatuses
    BY <2>1 DEF Ledger!SetCapacity
  <2> QED
    BY <2>2, <2>3, <2>4, <2>5, CommitOperates
<1> QED
  BY <1>2, <1>3

\* The handlers after a commit: the one that has committed has the row no more
\* and stored its result under a key that was free; the others had not the row,
\* and a result they were about to tell was stored before.
LEMMA CommitKeepsHandlers ==
    ASSUME BInv, NEW h \in Handlers, Commit(h)
    PROVE  HInv'
<1> USE DEF BInv, HInv
<1>1. /\ pc[h] = "commit" /\ IsSession(tx[h]) /\ cmd[h] \in Commands
      /\ pc' = [pc EXCEPT ![h] = "answer"]
      /\ tx' = [tx EXCEPT ![h] = [Fresh EXCEPT !.outcome = tx[h].outcome]]
      /\ UNCHANGED <<cmd, answers>>
      /\ processed' = StoredKey(h)
      /\ effects' = IF Keyed(cmd[h]) THEN [effects EXCEPT ![cmd[h]] = @ + 1]
                    ELSE effects
  BY DEF Commit, Busy
<1>2. Keyed(cmd[h]) => tx[h].outcome \in Results /\ processed[cmd[h]] = "none"
  BY <1>1 DEF KeyKept
<1>3. /\ pc'[h] = "answer" /\ cmd' = cmd
      /\ tx'[h] = [Fresh EXCEPT !.outcome = tx[h].outcome]
  BY <1>1 DEF HandlersOK
<1>4. IsSession(tx[h])' /\ tx'[h].newUser = FALSE
      /\ tx'[h].outcome = tx[h].outcome
  BY <1>3 DEF IsSession, Fresh
<1>5. processed' \in [Commands -> Results \union {"none"}]
      /\ effects' \in [Commands -> Nat]
  BY <1>1, <1>2 DEF HandlersOK, StoredKey
<1>6. \A c \in Commands : processed[c] # "none" => processed'[c] = processed[c]
  BY <1>1, <1>2 DEF HandlersOK, StoredKey
<1>7. HandlersOK'
  <2>1. known' \subseteq Users
    <3>1. tx[h].newUser # FALSE => cmd[h].user \in Users
      BY <1>1, CommandsAssumption DEF Busy, Keyed
    <3> QED
      BY <3>1 DEF Commit, HandlersOK
  <2>2. /\ position' \in [Users -> 0 .. MaxPosition]
        /\ retired' \in 0 .. MaxPosition
    BY CommitBounded
  <2>3. pc' \in [Handlers -> Steps] /\ tx' = [g \in Handlers |-> tx'[g]]
    BY <1>1 DEF HandlersOK, Steps
  <2> QED
    BY <1>1, <1>5, <2>1, <2>2, <2>3 DEF HandlersOK
<1>8. Exclusive'
  BY <1>1 DEF Exclusive, Holding, HandlersOK
<1>9. ASSUME NEW g \in Handlers
      PROVE  Busy(g)' /\ Read(g)' /\ Prepared(g)' /\ KeyKept(g)'
  <2>1. CASE g = h
    <3>1. Busy(h)' /\ Read(h)' /\ Prepared(h)'
      BY <1>1, <1>3, <1>4 DEF Busy, Read, Prepared
    <3>2. KeyKept(h)'
      BY <1>1, <1>2, <1>3, <1>4 DEF KeyKept, Keyed, StoredKey, HandlersOK
    <3> QED
      BY <2>1, <3>1, <3>2
  <2>2. CASE g # h
    <3>1. pc'[g] = pc[g] /\ tx'[g] = tx[g] /\ cmd'[g] = cmd[g]
      BY <1>1, <2>2 DEF HandlersOK
    <3>2. pc[g] \notin {"members", "work", "record", "commit"}
      BY <1>1, <2>2 DEF Exclusive, Holding
    <3>3. Busy(g)'
      BY <3>1 DEF Busy, IsSession, Keyed
    <3>4. Read(g)' /\ Prepared(g)'
      BY <3>1, <3>2 DEF Read, Prepared
    <3>5. KeyKept(g)'
      <4>1. pc[g] = "answer" => cmd[g] \in Commands
        BY DEF Busy
      <4> QED
        BY <1>6, <3>1, <3>2, <4>1 DEF KeyKept, Keyed, Results
    <3> QED
      BY <3>3, <3>4, <3>5
  <2> QED
    BY <2>1, <2>2
<1>10. DoneOnce'
  <2>1. CASE Keyed(cmd[h])
    BY <1>1, <1>2, <2>1 DEF DoneOnce, StoredKey, HandlersOK, Results
  <2>2. CASE ~Keyed(cmd[h])
    BY <1>1, <2>2 DEF DoneOnce, StoredKey
  <2> QED
    BY <2>1, <2>2
<1>11. AnswersAreTrue'
  BY <1>1, <1>6 DEF AnswersAreTrue, Results
<1> QED
  BY <1>7, <1>8, <1>9, <1>10, <1>11

------------------------------------------------------------------------------
(* The theorems.                                                           *)

\* The event has just been published, and no handler is at work.
LEMMA BookingInitially == Init => BInv
<1> SUFFICES ASSUME Init PROVE BInv
  BY DEF Init
<1>1. HandlersOK
  BY CapacityAssumption, PositionAssumption, NewUsersAssumption
  DEF Init, HandlersOK, Steps
<1>2. Exclusive
  BY DEF Init, Exclusive, Holding
<1>3. ASSUME NEW h \in Handlers
      PROVE  Busy(h) /\ Read(h) /\ Prepared(h) /\ KeyKept(h)
  BY DEF Init, Busy, IsSession, Fresh, Read, Prepared, KeyKept
<1>4. DoneOnce /\ AnswersAreTrue
  BY DEF Init, DoneOnce, AnswersAreTrue
<1>5. status \in Ledger!PublishedStatuses
  BY DEF Init, Ledger!PublishedStatuses
<1>6. LP!IInv
  <2>1. LP!Waiting(position) = {}
    BY DEF Init, LP!Waiting
  <2>2. LP!TypeOK
    <3>1. 0 \in LP!Time /\ 1 \in LP!Time
      BY DEF LP!Time
    <3>2. capacity \in LP!Capacities
      BY CapacityAssumption DEF Init, LP!Capacities
    <3>3. told \in [Users -> LP!Notices]
      BY DEF Init, LP!Notices
    <3> QED
      BY <3>1, <3>2, <3>3 DEF Init, LP!TypeOK, LP!Statuses
  <2>3. LP!SeatsCounted
    <3>1. Cardinality({}) = 0
      BY FS_EmptySet
    <3>2. LP!Cardinality({}) = 0
      BY <3>1 DEF LP!Cardinality, Cardinality
    <3> QED
      BY <3>2, CapacityAssumption DEF Init, LP!SeatsCounted
  <2>4. LP!OneStanding /\ LP!PositionsDistinct
    BY <2>1 DEF Init, LP!OneStanding, LP!PositionsDistinct, LP!Distinct
  <2>5. LP!FullMeansFull /\ LP!CancelledIsEmpty /\ LP!EveryoneIsTold
    BY CapacityAssumption
    DEF Init, LP!FullMeansFull, LP!CancelledIsEmpty, LP!EveryoneIsTold,
        LP!Standing, LP!PublishedStatuses, LP!Published
  <2> QED
    BY <2>2, <2>3, <2>4, <2>5 DEF LP!IInv, LP!SeatInv
<1> QED
  BY <1>1, <1>2, <1>3, <1>4, <1>5, <1>6 DEF BInv, HInv

\* A step that commits nothing leaves the rows alone.
LEMMA OtherSteps ==
    ASSUME HInv, reservedSeats \in Nat, Next, \A h \in Handlers : ~Commit(h)
    PROVE  HInv' /\ UNCHANGED store
<1>1. CASE Crash
  BY <1>1, CrashStep DEF Crash
<1>2. CASE \E h \in Handlers : \E c \in Commands : Deliver(h, c)
  BY <1>2, DeliverStep DEF Deliver
<1>3. CASE \E h \in Handlers : Continue(h)
  <2>1. PICK h \in Handlers : Continue(h)
    BY <1>3
  <2>2. HInv'
    BY <2>1, BeforeTheLock, LockEventStep, ReadMembersStep, RegisterSeatStep,
       RegisterQueueStep, CancelSeatStep, CancelQueueStep, SetCapacityStep,
       RecordKeyStep, AnswerStep
    DEF Continue
  <2>3. UNCHANGED store
    BY <2>1
    DEF Continue, Precheck, FindUser, InsertUser, LockEvent, ReadMembers,
        RegisterSeat, RegisterQueue, CancelSeat, CancelQueue, SetCapacity,
        RecordKey, Answer, Reread, Written, Goto, Reply
  <2> QED
    BY <2>2, <2>3
<1> QED
  BY <1>1, <1>2, <1>3 DEF Next

\* Nothing changes.
LEMMA BookingStutters ==
    ASSUME HInv, UNCHANGED vars
    PROVE  HInv' /\ UNCHANGED store
<1>1. UNCHANGED <<store, pc, cmd, tx, effects, answers>>
  BY DEF vars, store
<1>2. \A h \in Handlers : Busy(h)' /\ Read(h)' /\ Prepared(h)' /\ KeyKept(h)'
  BY <1>1, Undisturbed DEF HInv
<1>3. HandlersOK' /\ Exclusive' /\ DoneOnce' /\ AnswersAreTrue'
  BY <1>1 DEF HInv, HandlersOK, Exclusive, DoneOnce, AnswersAreTrue, store
<1> QED
  BY <1>1, <1>2, <1>3 DEF HInv

\* Rows that are not written stay sound.
LEMMA LedgerRests ==
    ASSUME BInv, UNCHANGED store
    PROVE  LP!IInv' /\ status' \in Ledger!PublishedStatuses
<1>1. [LP!Next]_LP!vars
  BY DEF store, LP!vars
<1>2. MaxCapacity \in Nat \ {0} /\ MaxPosition \in Nat
  BY CapacityAssumption, PositionAssumption
<1>3. LP!IsFiniteSet(Users)
  BY UsersAssumption DEF LP!IsFiniteSet, IsFiniteSet
<1>4. LP!IInv
  BY DEF BInv
<1>5. LP!IInv'
  BY <1>1, <1>2, <1>3, <1>4, LP!Inductive
<1> QED
  BY <1>5 DEF BInv, store

\* Every step preserves the invariant.
LEMMA BookingInductive == BInv /\ [Next]_vars => BInv'
<1> SUFFICES ASSUME BInv, [Next]_vars PROVE BInv'
  OBVIOUS
<1>1. CASE \E h \in Handlers : Commit(h)
  BY <1>1, CommitKeepsLedger, CommitKeepsHandlers DEF BInv
<1>2. CASE Next /\ \A h \in Handlers : ~Commit(h)
  BY <1>2, CommittedRows, OtherSteps, LedgerRests DEF BInv
<1>3. CASE UNCHANGED vars
  BY <1>3, BookingStutters, LedgerRests DEF BInv
<1> QED
  BY <1>1, <1>2, <1>3

\* The invariant holds of every behaviour, whatever is delivered and however
\* often the bot stops.
THEOREM BookingInvariant == Spec => []BInv
BY BookingInitially, BookingInductive, PTL DEF Spec

\* The committed rows and the handlers keep their types.
THEOREM BookingTypeCorrect == Spec => []TypeOK
<1>1. BInv => TypeOK
  <2> SUFFICES ASSUME BInv PROVE TypeOK
    OBVIOUS
  <2>1. MaxCapacity \in Nat
    BY CapacityAssumption
  <2>2. reservedSeats \in 0 .. MaxCapacity
    BY <2>1, CommittedRows
  <2> QED
    BY <2>2, CommittedRows DEF TypeOK, BInv, HInv, HandlersOK
<1> QED
  BY BookingInvariant, <1>1, PTL

\* A command takes effect once, however often it is delivered.
THEOREM EffectsHappenOnce == Spec => []DoneOnce
<1>1. BInv => DoneOnce
  BY DEF BInv, HInv
<1> QED
  BY BookingInvariant, <1>1, PTL

\* Nobody is told a result that was not committed.
THEOREM NobodyIsMisled == Spec => []AnswersAreTrue
<1>1. BInv => AnswersAreTrue
  BY DEF BInv, HInv
<1> QED
  BY BookingInvariant, <1>1, PTL

\* Interleaved transactions, each computed from reads of earlier steps, are
\* operations of the ledger one after the other.
THEOREM TransactionsAreSerial == Spec => CommitsAreSerial
<1>1. BInv /\ [Next]_vars =>
        [Ledger!RegistrationStep \/ Ledger!AdminStep]_
          <<status, capacity, reservedSeats, confirmed, position, retired, told>>
  <2> SUFFICES ASSUME BInv, [Next]_vars
               PROVE  [Ledger!RegistrationStep \/ Ledger!AdminStep]_
                        <<status, capacity, reservedSeats, confirmed, position,
                          retired, told>>
    OBVIOUS
  <2>1. CASE \E h \in Handlers : Commit(h)
    BY <2>1, CommitIsSerial
  <2>2. CASE Next /\ \A h \in Handlers : ~Commit(h)
    BY <2>2, CommittedRows, OtherSteps DEF BInv, store
  <2>3. CASE UNCHANGED vars
    BY <2>3 DEF vars
  <2> QED
    BY <2>1, <2>2, <2>3
<1> QED
  BY BookingInvariant, <1>1, PTL DEF Spec, CommitsAreSerial

\* What is proved of the ledger's serial operations holds of the concurrent
\* transactions: no race overbooks the event, seats a user who also waits,
\* gives two users one place, or leaves the status or a notice behind.
THEOREM RacesAreHarmless ==
    Spec => [](/\ Ledger!SeatsCounted /\ Ledger!OneStanding
               /\ Ledger!PositionsDistinct /\ Ledger!FullMeansFull
               /\ Ledger!EveryoneIsTold)
<1>1. BInv => /\ Ledger!SeatsCounted /\ Ledger!OneStanding
              /\ Ledger!PositionsDistinct /\ Ledger!FullMeansFull
              /\ Ledger!EveryoneIsTold
  <2> SUFFICES ASSUME BInv
               PROVE  /\ Ledger!SeatsCounted /\ Ledger!OneStanding
                      /\ Ledger!PositionsDistinct /\ Ledger!FullMeansFull
                      /\ Ledger!EveryoneIsTold
    OBVIOUS
  <2>1. /\ LP!SeatsCounted /\ LP!OneStanding /\ LP!PositionsDistinct
        /\ LP!FullMeansFull /\ LP!EveryoneIsTold
    BY DEF BInv, LP!IInv, LP!SeatInv
  <2>2. Ledger!SeatsCounted
    BY <2>1 DEF LP!SeatsCounted, Ledger!SeatsCounted, LP!Cardinality,
                Ledger!Cardinality
  <2>3. Ledger!OneStanding /\ Ledger!PositionsDistinct
    BY <2>1 DEF LP!OneStanding, Ledger!OneStanding, LP!PositionsDistinct,
                Ledger!PositionsDistinct, LP!Distinct, Ledger!Distinct,
                LP!Waiting, Ledger!Waiting
  <2>4. Ledger!FullMeansFull
    BY <2>1 DEF LP!FullMeansFull, Ledger!FullMeansFull, LP!Published,
                Ledger!Published, LP!PublishedStatuses,
                Ledger!PublishedStatuses
  <2>5. Ledger!EveryoneIsTold
    BY <2>1 DEF LP!EveryoneIsTold, Ledger!EveryoneIsTold, LP!Standing,
                Ledger!Standing
  <2> QED
    BY <2>2, <2>3, <2>4, <2>5
<1> QED
  BY BookingInvariant, <1>1, PTL
==============================================================================
