------------------------- MODULE PromotionLoopProofs -------------------------
(***************************************************************************)
(* Proofs about PromotionLoop for every set of users, every waitlist and   *)
(* any number of free seats: the loop computes the formula that            *)
(* EventLedger uses in its place.                                          *)
(*                                                                         *)
(* The argument.  The users promoted so far are the first of the waitlist  *)
(* as it was when the loop was entered, and the rows still active are in   *)
(* the order they had then, whether they keep their positions (before the  *)
(* first turn) or have just been renumbered.  So the row that the next     *)
(* turn takes is the first of those left, and its position is the one it   *)
(* had at first, or 1.                                                     *)
(***************************************************************************)
EXTENDS PromotionLoop, WaitlistProofs

\* What does not change while the loop runs.
Entered ==
    /\ queue \in [Users -> Nat]
    /\ Distinct(queue)
    /\ free \in Nat
    /\ excluded \in SUBSET Waiting(queue)
    /\ \A u \in excluded : IsLast(u)

\* The rows, by the users promoted so far.
RowsInv ==
    /\ rows \in [Users -> [status : {"active", "promoted", "none"},
                           position : Nat]]
    /\ Active = Waiting(queue) \ PromotedUsers

\* The users promoted so far are the first in the waitlist.
PromotedInv ==
    /\ promoted \in Seq(Users)
    /\ left = free - Len(promoted)
    /\ left >= 0
    /\ PromotedUsers \in SUBSET (Waiting(queue) \ excluded)
    /\ PromotedInOrder
    /\ \A u \in PromotedUsers, v \in Active : queue[u] < queue[v]

\* The rows still active have the positions of the formula, and those promoted
\* keep the ones they had at their turn.
PositionsInv ==
    /\ promoted = <<>> => \A u \in Active : rows[u].position = queue[u]
    /\ promoted # <<>> =>
        \A u \in Active : rows[u].position = Resequenced(queue, PromotedUsers)[u]
    /\ \A i \in 1 .. Len(promoted) :
        rows[promoted[i]].position = IF i = 1 THEN queue[promoted[1]] ELSE 1

LInv == Entered /\ RowsInv /\ PromotedInv /\ PositionsInv

------------------------------------------------------------------------------

\* The users promoted so far are users, as many as the turns of the loop.
LEMMA PromotedCount ==
    ASSUME Entered, PromotedInv
    PROVE  /\ IsFiniteSet(PromotedUsers)
           /\ Cardinality(PromotedUsers) = Len(promoted)
           /\ Len(promoted) \in Nat
<1> DEFINE turns == 1 .. Len(promoted)
           turn == [i \in turns |-> promoted[i]]
<1>1. Len(promoted) \in Nat /\ \A i \in turns : promoted[i] \in Users
  BY DEF PromotedInv
<1>2. IsFiniteSet(turns) /\ Cardinality(turns) = Len(promoted)
  BY <1>1, FS_Interval
<1>3. turn \in Bijection(turns, PromotedUsers)
  <2>1. turn \in [turns -> PromotedUsers]
    BY DEF PromotedUsers
  <2>2. \A p \in PromotedUsers : \E i \in turns : turn[i] = p
    BY DEF PromotedUsers
  <2>3. \A i, j \in turns : turn[i] = turn[j] => i = j
    <3> SUFFICES ASSUME NEW i \in turns, NEW j \in turns, i # j
                 PROVE  promoted[i] # promoted[j]
      OBVIOUS
    <3>1. i < j \/ j < i
      OBVIOUS
    <3>2. queue[promoted[i]] < queue[promoted[j]]
          \/ queue[promoted[j]] < queue[promoted[i]]
      BY <3>1 DEF PromotedInv, PromotedInOrder
    <3>3. queue[promoted[i]] \in Nat /\ queue[promoted[j]] \in Nat
      BY <1>1 DEF Entered
    <3> QED
      BY <3>2, <3>3
  <2> QED
    BY <2>1, <2>2, <2>3 DEF Bijection, Injection, Surjection, IsInjective
<1>4. IsFiniteSet(PromotedUsers) /\ Cardinality(PromotedUsers) = Cardinality(turns)
  <2>1. turn \in Bijection(turns, PromotedUsers) /\ IsFiniteSet(turns)
    BY <1>2, <1>3
  <2>2. ExistsBijection(turns, PromotedUsers)
    BY <2>1 DEF ExistsBijection
  <2> HIDE DEF turns, turn
  <2> QED
    BY <2>1, <2>2, FS_Bijection
<1> QED
  BY <1>1, <1>2, <1>4

\* The rows still active are ordered by (position, id) as the waitlist was
\* when the loop was entered.
LEMMA ActiveOrder ==
    ASSUME Entered, RowsInv, PositionsInv,
           NEW u \in Active, NEW v \in Active
    PROVE  Before(u, v) <=> queue[u] < queue[v]
<1>1. /\ u \in Waiting(queue) \ PromotedUsers /\ v \in Waiting(queue) \ PromotedUsers
      /\ u \in Users /\ v \in Users
      /\ u \in Nat /\ v \in Nat
      /\ queue[u] \in Nat /\ queue[v] \in Nat
      /\ rows[u].position \in Nat /\ rows[v].position \in Nat
  BY WaitingFinite, RowIds DEF Entered, RowsInv, Active
<1>2. u = v \/ queue[u] < queue[v] \/ queue[v] < queue[u]
  BY <1>1 DEF Entered, Distinct
<1>3. queue[u] < queue[v] => rows[u].position < rows[v].position
  <2>1. CASE promoted = <<>>
    BY <2>1 DEF PositionsInv
  <2>2. CASE promoted # <<>>
    BY <2>2, <1>1, ResequencedOrder DEF PositionsInv, Entered
  <2> QED
    BY <2>1, <2>2
<1>4. queue[v] < queue[u] => rows[v].position < rows[u].position
  <2>1. CASE promoted = <<>>
    BY <2>1 DEF PositionsInv
  <2>2. CASE promoted # <<>>
    BY <2>2, <1>1, ResequencedOrder DEF PositionsInv, Entered
  <2> QED
    BY <2>1, <2>2
<1>5. CASE u = v
  BY <1>1, <1>5 DEF Before
<1>6. CASE queue[u] < queue[v]
  BY <1>1, <1>3, <1>6 DEF Before
<1>7. CASE queue[v] < queue[u]
  BY <1>1, <1>4, <1>7 DEF Before
<1> QED
  BY <1>2, <1>5, <1>6, <1>7

\* next_waitlist_entry_for_promotion returns the first of the rows still
\* active, the excluded one included: that one is the last.
LEMMA NextEntryIsFirst ==
    ASSUME Entered, RowsInv, PositionsInv, NEW r \in Users, IsNextEntry(r)
    PROVE  /\ r \in Waiting(queue) \ excluded
           /\ r \in Active
           /\ r \notin PromotedUsers
           /\ \A s \in Active \ {r} : queue[r] < queue[s]
<1>1. r \in Active /\ r \notin excluded
  BY DEF IsNextEntry
<1>2. r \in Waiting(queue) /\ r \notin PromotedUsers
  BY <1>1 DEF RowsInv
<1>3. ASSUME NEW s \in Active \ {r}
      PROVE  queue[r] < queue[s]
  <2>1. s \in Users /\ s \in Waiting(queue) /\ queue[r] \in Nat /\ queue[s] \in Nat
    BY <1>3 DEF RowsInv, Entered, Active
  <2>2. CASE s \in excluded
    <3>1. queue[r] <= queue[s]
      BY <2>2 DEF Entered, IsLast
    <3>2. queue[r] # queue[s]
      BY <1>2, <1>3, <2>1 DEF Entered, Distinct
    <3> QED
      BY <2>1, <3>1, <3>2
  <2>3. CASE s \notin excluded
    <3>1. Before(r, s)
      BY <1>3, <2>3 DEF IsNextEntry
    <3> QED
      BY <1>1, <1>3, <3>1, ActiveOrder
  <2> QED
    BY <2>2, <2>3
<1> QED
  BY <1>1, <1>2, <1>3

\* The rank of a row among those that stay, counted from one, is the number of
\* rows that stay and are not behind it.
LEMMA RankCounts ==
    ASSUME Entered, RowsInv, PositionsInv,
           NEW kept \in SUBSET Active, NEW s \in kept
    PROVE  Rank(s, kept) = Cardinality({t \in kept : queue[t] <= queue[s]})
<1> DEFINE ahead == {t \in kept : Before(t, s)}
           notbehind == {t \in kept : queue[t] <= queue[s]}
<1>1. \A t \in kept : t \in Active /\ t \in Users /\ t \in Waiting(queue)
                      /\ queue[t] \in Nat
  BY DEF Active, RowsInv, Entered
<1>2. \A t \in kept : Before(t, s) <=> queue[t] < queue[s]
  BY <1>1, ActiveOrder
<1>3. \A t \in kept : queue[t] <= queue[s] <=> queue[t] < queue[s] \/ t = s
  BY <1>1 DEF Entered, Distinct
<1>4. notbehind = ahead \union {s} /\ s \notin ahead
  BY <1>1, <1>2, <1>3
<1>5. IsFiniteSet(ahead)
  <2>1. ahead \in SUBSET Users
    BY <1>1
  <2> HIDE DEF ahead
  <2> QED
    BY <2>1, UsersAssumption, FS_Subset
<1>6. Cardinality(notbehind) = Cardinality(ahead) + 1 /\ Cardinality(ahead) \in Nat
  <2> HIDE DEF ahead, notbehind
  <2> QED
    BY <1>4, <1>5, FS_AddElement, FS_CardinalityType
<1> QED
  BY <1>6 DEF Rank

------------------------------------------------------------------------------

\* Before the first turn nobody has been promoted.
LEMMA LoopStarts == Init => LInv
<1> SUFFICES ASSUME Init PROVE LInv
  OBVIOUS
<1>1. Entered
  <2>1. queue \in [Users -> Nat]
    BY LoopBounds DEF Init
  <2>2. free \in Nat
    BY LoopBounds DEF Init
  <2>3. excluded \in SUBSET Waiting(queue) /\ \A u \in excluded : IsLast(u)
    BY DEF Init
  <2> QED
    BY <2>1, <2>2, <2>3 DEF Entered, Init
<1>2. promoted = <<>> /\ Len(promoted) = 0 /\ PromotedUsers = {}
  BY DEF Init, PromotedUsers
<1>3. /\ \A u \in Users : rows[u].status = "active" <=> queue[u] > 0
      /\ \A u \in Users : queue[u] > 0 => rows[u].position = queue[u]
  BY DEF Init
<1>4. Active = Waiting(queue)
  BY <1>3 DEF Active, Waiting
<1>5. RowsInv
  <2>1. rows \in [Users -> [status : {"active", "promoted", "none"},
                            position : Nat]]
    BY <1>1 DEF Init, Entered
  <2> QED
    BY <1>2, <1>4, <2>1 DEF RowsInv
<1>6. PromotedInv
  BY <1>1, <1>2 DEF PromotedInv, PromotedInOrder, Entered, Init
<1>7. PositionsInv
  BY <1>2, <1>3, <1>4 DEF PositionsInv, Waiting
<1> QED
  BY <1>1, <1>5, <1>6, <1>7 DEF LInv

\* A turn adds its row to the promoted ones and takes it from the active ones.
LEMMA TurnMovesOneRow ==
    ASSUME LInv, NEW r \in Users, Promote(r)
    PROVE  /\ Entered'
           /\ promoted' \in Seq(Users)
           /\ Len(promoted') = Len(promoted) + 1
           /\ Len(promoted) \in Nat
           /\ \A i \in 1 .. Len(promoted) : promoted'[i] = promoted[i]
           /\ promoted'[Len(promoted) + 1] = r
           /\ PromotedUsers' = PromotedUsers \union {r}
           /\ Active' = Active \ {r}
<1>1. Entered /\ RowsInv /\ PromotedInv /\ PositionsInv
  BY DEF LInv
<1>2. queue' = queue /\ free' = free /\ excluded' = excluded
      /\ IsNextEntry(r) /\ promoted' = Append(promoted, r)
  BY DEF Promote
<1>3. Entered'
  BY <1>1, <1>2 DEF Entered, Distinct, Waiting, IsLast
<1>4. /\ promoted' \in Seq(Users)
      /\ Len(promoted') = Len(promoted) + 1
      /\ Len(promoted) \in Nat
      /\ \A i \in 1 .. Len(promoted) : promoted'[i] = promoted[i]
      /\ promoted'[Len(promoted) + 1] = r
  BY <1>1, <1>2 DEF PromotedInv
<1>5. PromotedUsers' = PromotedUsers \union {r}
  <2>1. 1 .. Len(promoted') = (1 .. Len(promoted)) \union {Len(promoted) + 1}
    BY <1>4
  <2>2. PromotedUsers' = {promoted'[i] : i \in 1 .. Len(promoted')}
    BY DEF PromotedUsers
  <2>3. PromotedUsers' = {promoted'[i] : i \in 1 .. Len(promoted)} \union {r}
    BY <1>4, <2>1, <2>2
  <2>4. {promoted'[i] : i \in 1 .. Len(promoted)} = PromotedUsers
    BY <1>4 DEF PromotedUsers
  <2> QED
    BY <2>3, <2>4
<1>6. Active' = Active \ {r}
  <2>1. \A s \in Users : rows'[s].status =
                IF s = r THEN "promoted" ELSE rows[s].status
    <3> SUFFICES ASSUME NEW s \in Users
                 PROVE  rows'[s].status =
                            IF s = r THEN "promoted" ELSE rows[s].status
      OBVIOUS
    <3>1. rows[s] \in [status : {"active", "promoted", "none"}, position : Nat]
      BY <1>1 DEF RowsInv
    <3>2. rows'[s] = IF s = r THEN [rows[s] EXCEPT !.status = "promoted"]
                     ELSE IF s \in Active
                     THEN [rows[s] EXCEPT !.position = Rank(s, Active \ {r})]
                     ELSE rows[s]
      BY DEF Promote
    <3> QED
      BY <3>1, <3>2
  <2>2. Active' = {s \in Users : rows'[s].status = "active"}
    BY DEF Active
  <2> QED
    BY <2>1, <2>2 DEF Active
<1> QED
  BY <1>3, <1>4, <1>5, <1>6

\* The positions a turn leaves: the row it promotes keeps its own, those that
\* stay active are renumbered, the rows promoted before are left alone.
LEMMA TurnSetsPositions ==
    ASSUME LInv, NEW r \in Users, Promote(r)
    PROVE  /\ rows' \in [Users -> [status : {"active", "promoted", "none"},
                                   position : Nat]]
           /\ rows'[r].position = rows[r].position
           /\ \A s \in Active \ {r} : rows'[s].position =
                    Resequenced(queue, PromotedUsers \union {r})[s]
           /\ \A s \in PromotedUsers : rows'[s].position = rows[s].position
<1> DEFINE kept == Active \ {r}
           Row == [status : {"active", "promoted", "none"}, position : Nat]
<1>1. Entered /\ RowsInv /\ PromotedInv /\ PositionsInv
  BY DEF LInv
<1>2. /\ \A s \in Users : rows[s] \in Row
      /\ \A s \in Users : rows'[s] =
            IF s = r THEN [rows[s] EXCEPT !.status = "promoted"]
            ELSE IF s \in Active
            THEN [rows[s] EXCEPT !.position = Rank(s, kept)]
            ELSE rows[s]
      /\ rows' = [s \in Users |-> rows'[s]]
  BY <1>1 DEF Promote, RowsInv
<1>3. r \in Active /\ r \notin PromotedUsers
  BY <1>1, NextEntryIsFirst DEF Promote
<1>4. kept = Waiting(queue) \ (PromotedUsers \union {r})
  BY <1>1 DEF RowsInv
<1>5. ASSUME NEW s \in kept
      PROVE  /\ s \in Users
             /\ Rank(s, kept) = Resequenced(queue, PromotedUsers \union {r})[s]
             /\ Rank(s, kept) \in Nat
  <2>1. s \in Users
    BY DEF Active
  <2>2. Rank(s, kept) = Cardinality({t \in kept : queue[t] <= queue[s]})
    BY <1>1, RankCounts
  <2>3. Resequenced(queue, PromotedUsers \union {r})[s] =
            Cardinality({t \in kept : queue[t] <= queue[s]})
    BY <1>4, <2>1 DEF Resequenced
  <2>4. Resequenced(queue, PromotedUsers \union {r})[s] \in Nat
    BY <1>1, <2>1, ResequencedType DEF Entered
  <2> QED
    BY <2>1, <2>2, <2>3, <2>4
<1>6. \A s \in kept : rows'[s] \in Row /\ rows'[s].position = Rank(s, kept)
  <2> HIDE DEF kept
  <2> SUFFICES ASSUME NEW s \in kept
               PROVE  rows'[s] \in Row /\ rows'[s].position = Rank(s, kept)
    OBVIOUS
  <2>1. s \in Users /\ s \in Active /\ s # r
    BY <1>5 DEF kept
  <2>2. rows'[s] = [rows[s] EXCEPT !.position = Rank(s, kept)]
    BY <1>2, <2>1
  <2> QED
    BY <1>2, <1>5, <2>1, <2>2
<1>7. rows'[r] \in Row /\ rows'[r].position = rows[r].position
  BY <1>2
<1>8. \A s \in Users \ Active : s # r /\ rows'[s] = rows[s]
  BY <1>2, <1>3
<1>9. \A s \in Users : rows'[s] \in Row
  <2> HIDE DEF kept, Row
  <2>1. \A s \in Users : s \in kept \/ s = r \/ s \in Users \ Active
    BY DEF kept
  <2> QED
    BY <1>2, <1>6, <1>7, <1>8, <2>1
<1>10. rows' \in [Users -> Row]
  <2> HIDE DEF Row
  <2> QED
    BY <1>2, <1>9
<1>11. PromotedUsers \in SUBSET (Users \ Active)
  BY <1>1, WaitingFinite DEF RowsInv, PromotedInv
<1> QED
  <2> HIDE DEF kept
  <2>1. \A s \in kept : rows'[s].position =
                Resequenced(queue, PromotedUsers \union {r})[s]
    BY <1>5, <1>6
  <2>2. \A s \in PromotedUsers : rows'[s].position = rows[s].position
    BY <1>8, <1>11
  <2> QED
    BY <1>7, <1>10, <2>1, <2>2 DEF kept

\* One turn keeps the invariant.
LEMMA TurnKeepsInvariant ==
    ASSUME LInv, NEW r \in Users, Promote(r)
    PROVE  LInv'
<1>1. Entered /\ RowsInv /\ PromotedInv /\ PositionsInv
  BY DEF LInv
<1>2. /\ queue' = queue /\ free' = free /\ excluded' = excluded
      /\ left' = left - 1 /\ left > 0 /\ IsNextEntry(r)
  BY DEF Promote, FreeSeat
<1>3. /\ Entered'
      /\ promoted' \in Seq(Users)
      /\ Len(promoted') = Len(promoted) + 1
      /\ Len(promoted) \in Nat
      /\ \A i \in 1 .. Len(promoted) : promoted'[i] = promoted[i]
      /\ promoted'[Len(promoted) + 1] = r
      /\ PromotedUsers' = PromotedUsers \union {r}
      /\ Active' = Active \ {r}
  BY TurnMovesOneRow
<1>4. /\ r \in Waiting(queue) \ excluded
      /\ r \in Active /\ r \notin PromotedUsers
      /\ \A s \in Active \ {r} : queue[r] < queue[s]
  BY <1>1, <1>2, NextEntryIsFirst
<1>5. /\ rows' \in [Users -> [status : {"active", "promoted", "none"},
                              position : Nat]]
      /\ rows'[r].position = rows[r].position
      /\ \A s \in Active \ {r} : rows'[s].position =
                Resequenced(queue, PromotedUsers \union {r})[s]
      /\ \A s \in PromotedUsers : rows'[s].position = rows[s].position
  BY TurnSetsPositions
<1>6. \A i \in 1 .. Len(promoted) : promoted[i] \in PromotedUsers
  BY DEF PromotedUsers
<1>7. RowsInv'
  <2>1. Waiting(queue)' = Waiting(queue)
    BY <1>2 DEF Waiting
  <2>2. Active' = Waiting(queue) \ (PromotedUsers \union {r})
    BY <1>1, <1>3 DEF RowsInv
  <2> QED
    BY <1>3, <1>5, <2>1, <2>2 DEF RowsInv
<1>8. PromotedInv'
  <2>1. left' = free' - Len(promoted') /\ left' >= 0
    BY <1>1, <1>2, <1>3 DEF PromotedInv, Entered
  <2>2. PromotedUsers' \in SUBSET (Waiting(queue') \ excluded')
    BY <1>1, <1>2, <1>3, <1>4 DEF PromotedInv
  <2>3. PromotedInOrder'
    <3> SUFFICES ASSUME NEW i \in 1 .. Len(promoted'),
                        NEW j \in 1 .. Len(promoted'), i < j
                 PROVE  queue[promoted'[i]] < queue[promoted'[j]]
      BY <1>2 DEF PromotedInOrder
    <3>1. i \in 1 .. Len(promoted) /\ promoted'[i] = promoted[i]
      BY <1>3
    <3>2. CASE j = Len(promoted) + 1
      <4>1. promoted[i] \in PromotedUsers /\ promoted'[j] = r
        BY <1>3, <1>6, <3>1, <3>2
      <4> QED
        BY <1>1, <1>4, <3>1, <4>1 DEF PromotedInv
    <3>3. CASE j # Len(promoted) + 1
      <4>1. j \in 1 .. Len(promoted) /\ promoted'[j] = promoted[j]
        BY <1>3, <3>3
      <4> QED
        BY <1>1, <3>1, <4>1 DEF PromotedInv, PromotedInOrder
    <3> QED
      BY <3>2, <3>3
  <2>4. \A u \in PromotedUsers', v \in Active' : queue'[u] < queue'[v]
    BY <1>1, <1>2, <1>3, <1>4 DEF PromotedInv
  <2> QED
    BY <1>3, <2>1, <2>2, <2>3, <2>4 DEF PromotedInv
<1>9. PositionsInv'
  <2>1. promoted' # <<>>
    BY <1>3
  <2>2. \A u \in Active' : rows'[u].position = Resequenced(queue', PromotedUsers')[u]
    BY <1>2, <1>3, <1>5
  <2>3. ASSUME NEW i \in 1 .. Len(promoted')
        PROVE  rows'[promoted'[i]].position =
                    IF i = 1 THEN queue'[promoted'[1]] ELSE 1
    <3>1. CASE i # Len(promoted) + 1
      <4>1. i \in 1 .. Len(promoted) /\ promoted'[i] = promoted[i]
            /\ 1 \in 1 .. Len(promoted) /\ promoted'[1] = promoted[1]
        BY <1>3, <3>1
      <4>2. rows'[promoted[i]].position = rows[promoted[i]].position
        BY <1>5, <1>6, <4>1
      <4> QED
        BY <1>1, <1>2, <4>1, <4>2 DEF PositionsInv
    <3>2. CASE i = Len(promoted) + 1 /\ promoted = <<>>
      <4>1. i = 1 /\ promoted'[i] = r
        BY <1>3, <3>2
      <4>2. rows[r].position = queue[r]
        BY <1>1, <1>4, <3>2 DEF PositionsInv
      <4> QED
        BY <1>2, <1>5, <4>1, <4>2
    <3>3. CASE i = Len(promoted) + 1 /\ promoted # <<>>
      <4>1. promoted'[i] = r /\ i # 1
        BY <1>1, <1>3, <3>3 DEF PromotedInv
      <4>2. rows[r].position = Resequenced(queue, PromotedUsers)[r]
        BY <1>1, <1>4, <3>3 DEF PositionsInv
      <4>3. Active = Waiting(queue) \ PromotedUsers /\ r \in Users
            /\ \A v \in Active : queue[v] \in Nat
        BY <1>1, <1>4 DEF RowsInv, Active, Entered
      <4>4. Resequenced(queue, PromotedUsers)[r] =
                Cardinality({v \in Active : queue[v] <= queue[r]})
        BY <1>4, <4>3 DEF Resequenced
      <4>5. {v \in Active : queue[v] <= queue[r]} = {r}
        BY <1>4, <4>3
      <4>6. Cardinality({r}) = 1
        BY FS_Singleton
      <4> QED
        BY <1>5, <4>1, <4>2, <4>4, <4>5, <4>6
    <3> QED
      BY <3>1, <3>2, <3>3
  <2> QED
    BY <2>1, <2>2, <2>3 DEF PositionsInv
<1> QED
  BY <1>3, <1>7, <1>8, <1>9 DEF LInv

LEMMA LoopInvariant == Spec => []LInv
<1>1. Init => LInv
  BY LoopStarts
<1>2. LInv /\ [Next]_vars => LInv'
  <2> SUFFICES ASSUME LInv, [Next]_vars PROVE LInv'
    OBVIOUS
  <2>1. CASE Next
    BY <2>1, TurnKeepsInvariant DEF Next
  <2>2. CASE UNCHANGED vars
    <3>1. Entered /\ RowsInv /\ PromotedInv /\ PositionsInv
      BY DEF LInv
    <3>2. queue' = queue /\ free' = free /\ excluded' = excluded
          /\ rows' = rows /\ left' = left /\ promoted' = promoted
      BY <2>2 DEF vars
    <3>3. Active' = Active /\ PromotedUsers' = PromotedUsers
      BY <3>2 DEF Active, PromotedUsers
    <3>4. Entered'
      BY <3>1, <3>2 DEF Entered, Distinct, Waiting, IsLast
    <3>5. RowsInv'
      BY <3>1, <3>2, <3>3 DEF RowsInv, Waiting
    <3>6. PromotedInv'
      BY <3>1, <3>2, <3>3 DEF PromotedInv, PromotedInOrder, Waiting
    <3>7. PositionsInv'
      BY <3>1, <3>2, <3>3 DEF PositionsInv
    <3> QED
      BY <3>4, <3>5, <3>6, <3>7 DEF LInv
  <2> QED
    BY <2>1, <2>2
<1> QED
  BY <1>1, <1>2, PTL DEF Spec

------------------------------------------------------------------------------

\* A loop that has ended has promoted as many of the candidates as there were
\* free seats, or all of them.
LEMMA EndedLoopMeetsFormula == LInv => LoopMeetsItsFormula
<1> SUFFICES ASSUME LInv, Ended
             PROVE  PromotedUsers \in PromotionSets(queue, free, excluded)
  BY DEF LInv, PositionsInv, LoopMeetsItsFormula
<1> DEFINE candidates == Waiting(queue) \ excluded
<1>1. Entered /\ RowsInv /\ PromotedInv
  BY DEF LInv
<1>2. /\ IsFiniteSet(PromotedUsers)
      /\ Cardinality(PromotedUsers) = Len(promoted)
      /\ Len(promoted) \in Nat
  BY <1>1, PromotedCount
<1>3. /\ PromotedUsers \in SUBSET candidates
      /\ left = free - Len(promoted) /\ left >= 0 /\ free \in Nat
  BY <1>1 DEF PromotedInv, Entered
<1>4. /\ IsFiniteSet(candidates) /\ Cardinality(candidates) \in Nat
      /\ Cardinality(PromotedUsers) <= Cardinality(candidates)
  <2>1. candidates \in SUBSET Waiting(queue)
    OBVIOUS
  <2>2. IsFiniteSet(candidates)
    BY <2>1, WaitingFinite, FS_Subset
  <2> HIDE DEF candidates
  <2> QED
    BY <1>3, <2>2, FS_Subset, FS_CardinalityType
<1>5. Cardinality(PromotedUsers) = Smaller(free, Cardinality(candidates))
  <2>1. CASE left <= 0
    BY <1>2, <1>3, <1>4, <2>1 DEF Smaller
  <2>2. CASE Active \ excluded = {}
    <3>1. candidates = PromotedUsers
      BY <1>1, <1>3, <2>2 DEF RowsInv
    <3> QED
      <4>1. Cardinality(candidates) = Len(promoted) /\ Len(promoted) <= free
        BY <1>2, <1>3, <3>1
      <4> HIDE DEF candidates
      <4> QED
        BY <1>2, <1>3, <4>1 DEF Smaller
  <2> QED
    BY <2>1, <2>2 DEF Ended
<1>6. \A u \in PromotedUsers, v \in candidates \ PromotedUsers : queue[u] < queue[v]
  BY <1>1 DEF RowsInv, PromotedInv
<1> QED
  BY <1>3, <1>5, <1>6 DEF PromotionSets

\* For every waitlist, any number of free seats and any excluded last user, the
\* loop of _promote_waitlist_until_capacity, when it ends, has promoted the
\* users of PromotionSets, has left the positions of Resequenced on the rows
\* still active, and on the promoted rows the first position of the waitlist
\* and then always 1: what EventLedger says of it in one formula.
THEOREM LoopIsItsFormula == Spec => []LoopMeetsItsFormula
BY LoopInvariant, EndedLoopMeetsFormula, PTL

\* However the rows are renumbered between two turns, users are promoted in the
\* order the waitlist had when the loop was entered.
THEOREM LoopKeepsOrder == Spec => []PromotedInOrder
<1>1. LInv => PromotedInOrder
  BY DEF LInv, PromotedInv
<1> QED
  BY <1>1, LoopInvariant, PTL
==============================================================================
