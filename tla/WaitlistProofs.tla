---------------------------- MODULE WaitlistProofs ----------------------------
(***************************************************************************)
(* What the operators of Waitlist guarantee, for every set of users.       *)
(***************************************************************************)
EXTENDS Waitlist, FiniteSetTheorems, TLAPS

\* The waitlist is a finite set of users.
LEMMA WaitingFinite ==
    ASSUME NEW queue
    PROVE  /\ Waiting(queue) \in SUBSET Users
           /\ IsFiniteSet(Waiting(queue))
BY UsersAssumption, FS_Subset DEF Waiting

\* The rank of a user among those who stay is a positive number.
LEMMA RankType ==
    ASSUME NEW queue \in [Users -> Nat], NEW Gone,
           NEW u \in Waiting(queue) \ Gone
    PROVE  LET rank == {v \in Waiting(queue) \ Gone : queue[v] <= queue[u]}
           IN  /\ IsFiniteSet(rank)
               /\ Cardinality(rank) \in Nat \ {0}
<1> DEFINE rank == {v \in Waiting(queue) \ Gone : queue[v] <= queue[u]}
<1>1. rank \in SUBSET Waiting(queue)
  OBVIOUS
<1>2. IsFiniteSet(rank)
  BY <1>1, WaitingFinite, FS_Subset
<1>3. u \in rank
  BY DEF Waiting
<1>4. Cardinality(rank) \in Nat /\ Cardinality(rank) # 0
  BY <1>2, <1>3, FS_CardinalityType, FS_EmptySet
<1> QED
  BY <1>2, <1>4

\* Renumbering gives a position to exactly the users who stay.
LEMMA ResequencedType ==
    ASSUME NEW queue \in [Users -> Nat], NEW Gone
    PROVE  /\ Resequenced(queue, Gone) \in [Users -> Nat]
           /\ Waiting(Resequenced(queue, Gone)) = Waiting(queue) \ Gone
<1> DEFINE rest == Waiting(queue) \ Gone
           new == Resequenced(queue, Gone)
<1>1. \A u \in rest : new[u] \in Nat \ {0}
  BY RankType, WaitingFinite DEF Resequenced
<1>2. \A u \in Users \ rest : new[u] = 0
  BY DEF Resequenced
<1>3. new \in [Users -> Nat]
  <2>1. \A u \in Users : new[u] \in Nat
    BY <1>1, <1>2
  <2>2. new = [u \in Users |-> new[u]]
    BY DEF Resequenced
  <2> HIDE DEF new
  <2> QED
    BY <2>1, <2>2
<1>4. Waiting(new) = rest
  <2> HIDE DEF new
  <2> QED
    BY <1>1, <1>2, WaitingFinite DEF Waiting
<1> QED
  BY <1>3, <1>4

\* Renumbering keeps the order of the users who stay, so that positions which
\* were distinct stay distinct.
LEMMA ResequencedOrder ==
    ASSUME NEW queue \in [Users -> Nat], NEW Gone,
           NEW u \in Waiting(queue) \ Gone, NEW v \in Waiting(queue) \ Gone,
           queue[u] < queue[v]
    PROVE  Resequenced(queue, Gone)[u] < Resequenced(queue, Gone)[v]
<1> DEFINE ahead(w) == {x \in Waiting(queue) \ Gone : queue[x] <= queue[w]}
<1>1. u \in Users /\ v \in Users
  BY WaitingFinite
<1>2. /\ IsFiniteSet(ahead(u)) /\ Cardinality(ahead(u)) \in Nat
      /\ IsFiniteSet(ahead(v)) /\ Cardinality(ahead(v)) \in Nat
  BY RankType
<1>3. ahead(u) \in SUBSET ahead(v)
  BY <1>1, WaitingFinite
<1>4. v \in ahead(v) /\ v \notin ahead(u)
  BY <1>1
<1>5. Cardinality(ahead(u)) <= Cardinality(ahead(v))
      /\ Cardinality(ahead(u)) # Cardinality(ahead(v))
  <2> HIDE DEF ahead
  <2> QED
    BY <1>2, <1>3, <1>4, FS_Subset
<1>6. /\ Resequenced(queue, Gone)[u] = Cardinality(ahead(u))
      /\ Resequenced(queue, Gone)[v] = Cardinality(ahead(v))
  BY <1>1 DEF Resequenced
<1> QED
  BY <1>2, <1>5, <1>6

\* A promotion takes waiting users who are not excluded, and no more of them
\* than there are free seats.
LEMMA PromotionSetsType ==
    ASSUME NEW queue, NEW free \in Nat, NEW Excluded,
           NEW P \in PromotionSets(queue, free, Excluded)
    PROVE  /\ P \in SUBSET (Waiting(queue) \ Excluded)
           /\ P \in SUBSET Users
           /\ IsFiniteSet(P)
           /\ Cardinality(P) \in Nat
           /\ Cardinality(P) <= free
<1> DEFINE candidates == Waiting(queue) \ Excluded
<1>1. candidates \in SUBSET Users /\ IsFiniteSet(candidates)
  BY WaitingFinite, FS_Subset
<1>2. P \in SUBSET candidates
      /\ Cardinality(P) = Smaller(free, Cardinality(candidates))
  BY DEF PromotionSets
<1>3. IsFiniteSet(P) /\ Cardinality(P) \in Nat /\ Cardinality(candidates) \in Nat
  BY <1>1, <1>2, FS_Subset, FS_CardinalityType
<1>4. Cardinality(P) <= free
  BY <1>2, <1>3 DEF Smaller
<1> QED
  BY <1>1, <1>2, <1>3, <1>4

\* Renumbering keeps distinct positions distinct.
LEMMA ResequencedDistinct ==
    ASSUME NEW queue \in [Users -> Nat], NEW Gone, Distinct(queue)
    PROVE  Distinct(Resequenced(queue, Gone))
<1> DEFINE rest == Waiting(queue) \ Gone
           new == Resequenced(queue, Gone)
<1>1. new \in [Users -> Nat] /\ Waiting(new) = rest
  BY ResequencedType
<1>2. SUFFICES ASSUME NEW u \in rest, NEW v \in rest, u # v
               PROVE  new[u] # new[v]
  BY <1>1 DEF Distinct
<1>3. u \in Users /\ v \in Users /\ queue[u] # queue[v]
  BY <1>2, WaitingFinite DEF Distinct
<1>4. queue[u] < queue[v] \/ queue[v] < queue[u]
  BY <1>3
<1>5. new[u] < new[v] \/ new[v] < new[u]
  BY <1>4, ResequencedOrder
<1>6. new[u] \in Nat /\ new[v] \in Nat
  BY <1>1, <1>3
<1> QED
  BY <1>5, <1>6

\* A user put in at the next position is behind everybody, so positions stay
\* distinct.
LEMMA NextPositionDistinct ==
    ASSUME NEW queue \in [Users -> Nat], NEW gone \in Nat, NEW p \in Nat,
           NEW u \in Users, IsNextPosition(p, queue, gone), Distinct(queue),
           NEW new, new = [queue EXCEPT ![u] = p]
    PROVE  /\ new \in [Users -> Nat]
           /\ Waiting(new) = Waiting(queue) \union {u}
           /\ Distinct(new)
<1>1. new \in [Users -> Nat]
  OBVIOUS
<1>2. p > 0 /\ \A v \in Users : p > queue[v]
  BY DEF IsNextPosition
<1>3. Waiting(new) = Waiting(queue) \union {u}
  BY <1>2 DEF Waiting
<1>4. Distinct(new)
  BY <1>2 DEF Distinct, Waiting
<1> QED
  BY <1>1, <1>3, <1>4
==============================================================================
