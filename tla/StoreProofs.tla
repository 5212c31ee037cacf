---------------------------- MODULE StoreProofs -----------------------------
(***************************************************************************)
(* Proofs about the two small stores the server keeps beside its rooms.    *)
(*                                                                         *)
(* PingManager, for any owners, caps, windows and times: the caps of the   *)
(* list and of every owner, the sliding rate limit, and which pings are    *)
(* evicted.                                                                *)
(*                                                                         *)
(* RankingStore, for any names, first files and numbers of matches: the    *)
(* totals make sense and count every player, and a restart finds all or    *)
(* nothing of the last save.                                               *)
(***************************************************************************)
EXTENDS PingManager, RankingStore, FiniteSetTheorems, WellFoundedInduction, TLAPS

\* A set of numbers that is not empty has a least element.
LEMMA NatMinimum ==
  ASSUME NEW S \in SUBSET Nat, S # {}
  PROVE  \E p \in S : \A q \in S : p <= q
<1> DEFINE R == {ss \in Nat \X Nat : ss[1] < ss[2]}
<1>1. R = OpToRel(<, Nat)
  BY Zenon DEF OpToRel
<1>2. IsWellFoundedOn(R, Nat)
  BY <1>1, NatLessThanWellFounded, Zenon
<1> HIDE DEF R
<1>3. \E p \in S : \A q \in S : ~(<<q, p>> \in R)
  BY <1>2, WFMin, Zenon
<1>4. \E p \in S : \A q \in S : ~(q < p)
  BY <1>3 DEF R
<1> QED
  BY <1>4

\* Pings with different ids, all numbers.
Distinct(S) ==
  /\ \A p \in S : p.id \in Nat
  /\ \A p, q \in S : p.id = q.id => p = q

\* Evicting the oldest leaves no more than k: all the others that stay are newer
\* than the oldest one that stays, and fewer than k are.
LEMMA NewestBound ==
  ASSUME NEW S, IsFiniteSet(S), Distinct(S), NEW k \in Nat
  PROVE  /\ Newest(S, k) \subseteq S
         /\ IsFiniteSet(Newest(S, k))
         /\ Cardinality(Newest(S, k)) <= k
<1> DEFINE N == Newest(S, k)
<1>1. N \subseteq S
  BY DEF Newest
<1>2. IsFiniteSet(N)
  BY <1>1, FS_Subset
<1>3. CASE N = {}
  BY <1>3, FS_EmptySet
<1>4. CASE N # {}
  <2> DEFINE ids == {p.id : p \in N}
  <2>1. ids \subseteq Nat /\ ids # {}
    BY <1>1, <1>4 DEF Distinct
  <2>2. PICK i \in ids : \A j \in ids : i <= j
    BY <2>1, NatMinimum
  <2>3. PICK m \in N : m.id = i
    OBVIOUS
  <2> DEFINE newer == {q \in S : q.id > m.id}
  <2>4. IsFiniteSet(newer) /\ Cardinality(newer) \in Nat /\ Cardinality(newer) < k
    BY <2>3, FS_Subset, FS_CardinalityType DEF Newest
  <2>5. N \ {m} \subseteq newer
    <3> SUFFICES ASSUME NEW q \in N \ {m} PROVE q \in newer
      OBVIOUS
    <3>1. q \in S /\ q.id \in Nat /\ m \in S /\ m.id \in Nat
      BY <1>1, <2>3 DEF Distinct
    <3>2. m.id <= q.id
      BY <2>2, <2>3
    <3>3. m.id # q.id
      BY <3>1 DEF Distinct
    <3> QED
      BY <3>1, <3>2, <3>3
  <2>6. Cardinality(N \ {m}) <= Cardinality(newer) /\ Cardinality(N \ {m}) \in Nat
    BY <2>4, <2>5, FS_Subset, FS_CardinalityType
  <2>7. Cardinality(N \ {m}) = Cardinality(N) - 1 /\ Cardinality(N) \in Nat
    BY <1>2, <2>3, FS_RemoveElement, FS_CardinalityType
  <2> HIDE DEF newer, N
  <2>8. Cardinality(N) <= k
    BY <2>4, <2>6, <2>7
  <2> QED
    BY <1>1, <1>2, <2>8 DEF N
<1> QED
  BY <1>1, <1>2, <1>3, <1>4

-----------------------------------------------------------------------------
\* The accepted placements of o from start on, for the length of a window.
InWindow(o, start) ==
  {e \in OwnedBy(log, o) : start <= e.at /\ e.at <= start + RateWindow}

\* Every accepted placement that is still in the window is in the history: the
\* pruning of the history forgets nothing that the limit may need.
HistoryComplete ==
  \A e \in log :
    /\ e.at <= now
    /\ now - e.at <= RateWindow => e \in history[e.owner]

\* A history holds accepted placements of its owner only.
HistorySound == \A o \in Owner : history[o] \subseteq OwnedBy(log, o)

\* RateLimited for every start.
RateInv ==
  \A o \in Owner, start \in Nat : Cardinality(InWindow(o, start)) <= MaxPerWindow

\* The inductive invariant.
IInv ==
  /\ TypeOK
  /\ Distinct(pings)
  /\ \A p \in pings : p.id < nextId
  /\ CapsHold
  /\ HistoryComplete /\ HistorySound /\ RateInv

\* The manager starts empty.
LEMMA InitInv == Init => IInv
<1> SUFFICES ASSUME Init PROVE IInv
  OBVIOUS
<1>1. IsFiniteSet({}) /\ Cardinality({}) = 0
  BY FS_EmptySet
<1>2. TypeOK
  BY <1>1 DEF Init, TypeOK
<1>3. \A o \in Owner : OwnedBy({}, o) = {}
  BY DEF OwnedBy
<1>4. CapsHold
  BY <1>1, <1>3, OptionsAssumption DEF Init, CapsHold
<1>5. HistoryComplete /\ HistorySound
  BY <1>3 DEF Init, HistoryComplete, HistorySound
<1>6. RateInv
  <2> SUFFICES ASSUME NEW o \in Owner, NEW start \in Nat
               PROVE  Cardinality(InWindow(o, start)) <= MaxPerWindow
    BY DEF RateInv
  <2>1. InWindow(o, start) = {}
    BY <1>3 DEF InWindow, Init
  <2> QED
    BY <1>1, <2>1, OptionsAssumption
<1> QED
  BY <1>2, <1>4, <1>5, <1>6 DEF IInv, Init, Distinct

\* Any part of a list that keeps the caps keeps them.
LEMMA SmallerList ==
  ASSUME IInv, NEW S \in SUBSET pings
  PROVE  /\ S \in SUBSET Ping /\ IsFiniteSet(S)
         /\ Distinct(S)
         /\ \A p \in S : p.id < nextId
         /\ Cardinality(S) <= MaxActive
         /\ \A o \in Owner : /\ IsFiniteSet(OwnedBy(S, o))
                             /\ Cardinality(OwnedBy(S, o)) <= MaxPerPlayer
<1>1. IsFiniteSet(pings) /\ pings \in SUBSET Ping
  BY DEF IInv, TypeOK
<1>2. /\ IsFiniteSet(S) /\ Cardinality(S) <= Cardinality(pings)
      /\ Cardinality(S) \in Nat /\ Cardinality(pings) \in Nat
  BY <1>1, FS_Subset, FS_CardinalityType
<1>3. ASSUME NEW o \in Owner
      PROVE  /\ IsFiniteSet(OwnedBy(S, o))
             /\ Cardinality(OwnedBy(S, o)) <= MaxPerPlayer
  <2>1. OwnedBy(S, o) \in SUBSET OwnedBy(pings, o) /\ OwnedBy(pings, o) \in SUBSET pings
    BY DEF OwnedBy
  <2>2. IsFiniteSet(OwnedBy(pings, o))
    BY <1>1, <2>1, FS_Subset
  <2>3. /\ IsFiniteSet(OwnedBy(S, o))
        /\ Cardinality(OwnedBy(S, o)) <= Cardinality(OwnedBy(pings, o))
        /\ Cardinality(OwnedBy(S, o)) \in Nat /\ Cardinality(OwnedBy(pings, o)) \in Nat
    BY <2>1, <2>2, FS_Subset, FS_CardinalityType
  <2>4. Cardinality(OwnedBy(pings, o)) <= MaxPerPlayer
    BY DEF IInv, CapsHold
  <2> QED
    BY <2>3, <2>4, OptionsAssumption
<1>4. Cardinality(S) <= MaxActive
  BY <1>2, OptionsAssumption DEF IInv, CapsHold
<1>5. Distinct(S) /\ \A p \in S : p.id < nextId
  BY DEF IInv, Distinct
<1> QED
  BY <1>1, <1>2, <1>3, <1>4, <1>5

-----------------------------------------------------------------------------
\* One more element in a finite set that is below a bound.
LEMMA AddBelow ==
  ASSUME NEW S, IsFiniteSet(S), NEW x, NEW n \in Nat, Cardinality(S) < n
  PROVE  IsFiniteSet(S \cup {x}) /\ Cardinality(S \cup {x}) <= n
<1>1. Cardinality(S) \in Nat
  BY FS_CardinalityType
<1>2. /\ IsFiniteSet(S \cup {x})
      /\ Cardinality(S \cup {x}) =
           IF x \in S THEN Cardinality(S) ELSE Cardinality(S) + 1
  BY FS_AddElement
<1> QED
  BY <1>1, <1>2

\* Appending a ping whose id is new, to a list with room for it.
LEMMA AppendKeepsCaps ==
  ASSUME IInv, NEW S \in SUBSET pings, NEW o \in Owner, NEW e \in Nat,
         Cardinality(S) < MaxActive, Cardinality(OwnedBy(S, o)) < MaxPerPlayer,
         pings' = S \cup {[id |-> nextId, owner |-> o, expires |-> e]},
         nextId' = nextId + 1
  PROVE  /\ pings' \in SUBSET Ping /\ IsFiniteSet(pings')
         /\ Distinct(pings')
         /\ \A p \in pings' : p.id < nextId'
         /\ CapsHold'
<1> DEFINE new == [id |-> nextId, owner |-> o, expires |-> e]
<1>1. nextId \in Nat
  BY DEF IInv, TypeOK
<1>2. new \in Ping /\ new.owner = o /\ new.id = nextId
  BY <1>1 DEF Ping
<1>3. /\ S \in SUBSET Ping /\ IsFiniteSet(S) /\ Distinct(S)
      /\ \A p \in S : p.id < nextId /\ p.id \in Nat
      /\ \A q \in Owner : /\ IsFiniteSet(OwnedBy(S, q))
                          /\ Cardinality(OwnedBy(S, q)) <= MaxPerPlayer
  BY SmallerList DEF Distinct
<1>4. pings' = S \cup {new}
  OBVIOUS
<1> HIDE DEF new
<1>5. IsFiniteSet(pings') /\ Cardinality(pings') <= MaxActive
  <2>1. MaxActive \in Nat /\ Cardinality(S) < MaxActive
    BY OptionsAssumption
  <2>2. IsFiniteSet(S)
    BY <1>3
  <2>3. IsFiniteSet(S \cup {new}) /\ Cardinality(S \cup {new}) <= MaxActive
    BY <2>1, <2>2, AddBelow
  <2> QED
    BY <1>4, <2>3
<1>6. ASSUME NEW q \in Owner
      PROVE  Cardinality(OwnedBy(pings', q)) <= MaxPerPlayer
  <2>1. CASE q = o
    <3>1. OwnedBy(pings', q) = OwnedBy(S, o) \cup {new}
      BY <1>2, <1>4, <2>1 DEF OwnedBy
    <3> QED
      BY <1>3, <3>1, AddBelow, OptionsAssumption
  <2>2. CASE q # o
    <3>1. OwnedBy(pings', q) = OwnedBy(S, q)
      BY <1>2, <1>4, <2>2 DEF OwnedBy
    <3> QED
      BY <1>3, <3>1
  <2> QED
    BY <2>1, <2>2
<1>7. Distinct(pings') /\ \A p \in pings' : p.id < nextId'
  BY <1>1, <1>2, <1>3, <1>4 DEF Distinct
<1> QED
  BY <1>2, <1>3, <1>4, <1>5, <1>6, <1>7 DEF CapsHold

\* What place keeps of the list has room for one more ping of o.
LEMMA TrimMakesRoom ==
  ASSUME IInv, NEW S \in SUBSET pings, NEW o \in Owner
  PROVE  LET T == TrimAll(TrimOwner(S, o))
         IN  /\ T \in SUBSET pings
             /\ Cardinality(T) < MaxActive
             /\ Cardinality(OwnedBy(T, o)) < MaxPerPlayer
<1> DEFINE owned == OwnedBy(S, o)
           kept == Newest(owned, MaxPerPlayer - 1)
           U == TrimOwner(S, o)
           T == TrimAll(U)
<1>1. MaxPerPlayer - 1 \in Nat /\ MaxActive - 1 \in Nat
  BY OptionsAssumption
<1>2. owned \in SUBSET pings
  BY DEF OwnedBy
<1>3. /\ kept \subseteq owned /\ IsFiniteSet(kept)
      /\ Cardinality(kept) <= MaxPerPlayer - 1
  <2> HIDE DEF owned
  <2> QED
    BY <1>1, <1>2, SmallerList, NewestBound
<1>4. U \in SUBSET pings /\ OwnedBy(U, o) = kept
  <2>1. U = (S \ owned) \cup kept
    BY DEF TrimOwner
  <2>2. \A p \in kept : p.owner = o
    BY <1>3 DEF OwnedBy
  <2> HIDE DEF kept, U
  <2> QED
    BY <1>2, <1>3, <2>1, <2>2 DEF OwnedBy
<1> HIDE DEF kept, U, owned
<1>5. T \subseteq U /\ Cardinality(T) <= MaxActive - 1 /\ IsFiniteSet(T)
  BY <1>1, <1>4, SmallerList, NewestBound DEF TrimAll
<1> HIDE DEF T
<1>6. OwnedBy(T, o) \in SUBSET kept
  BY <1>4, <1>5 DEF OwnedBy
<1>7. /\ Cardinality(OwnedBy(T, o)) <= Cardinality(kept)
      /\ Cardinality(OwnedBy(T, o)) \in Nat /\ Cardinality(kept) \in Nat
      /\ Cardinality(T) \in Nat
  BY <1>3, <1>5, <1>6, FS_Subset, FS_CardinalityType
<1> QED
  BY <1>1, <1>3, <1>4, <1>5, <1>7, OptionsAssumption DEF T, U

-----------------------------------------------------------------------------
\* Pruning the history keeps it sound and complete.
LEMMA PruningKeeps ==
  ASSUME IInv, history' = PrunedHistory(now), log' = log, now' = now
  PROVE  /\ history' \in [Owner -> SUBSET Placement]
         /\ HistoryComplete' /\ HistorySound' /\ RateInv'
<1>1. \A o \in Owner : history'[o] = {h \in history[o] : now - h.at <= RateWindow}
  BY DEF PrunedHistory, Recent
<1>2. history' \in [Owner -> SUBSET Placement]
  BY DEF PrunedHistory, Recent, IInv, TypeOK
<1>3. HistoryComplete'
  BY <1>1 DEF IInv, HistoryComplete, TypeOK, Placement
<1>4. HistorySound'
  BY <1>1 DEF IInv, HistorySound
<1>5. RateInv'
  BY DEF IInv, RateInv, InWindow
<1> QED
  BY <1>2, <1>3, <1>4, <1>5

\* An accepted placement keeps the limit: what its windows hold besides it is in
\* the pruned history, which was below the limit.
LEMMA AcceptKeepsRate ==
  ASSUME IInv, NEW o \in Owner,
         Cardinality(PrunedHistory(now)[o]) < MaxPerWindow,
         Accept(o), now' = now
  PROVE  /\ history' \in [Owner -> SUBSET Placement]
         /\ log' \in SUBSET Placement /\ IsFiniteSet(log')
         /\ HistoryComplete' /\ HistorySound' /\ RateInv'
<1> DEFINE new == [id |-> nextId, owner |-> o, at |-> now]
           pruned == PrunedHistory(now)
<1>1. /\ nextId \in Nat /\ now \in Nat /\ RateWindow \in Nat /\ MaxPerWindow \in Nat
      /\ log \in SUBSET Placement /\ IsFiniteSet(log)
      /\ history \in [Owner -> SUBSET Placement]
  BY OptionsAssumption DEF IInv, TypeOK
<1>2. new \in Placement /\ new.owner = o /\ new.at = now
  BY <1>1 DEF Placement
<1>3. /\ pruned \in [Owner -> SUBSET Placement]
      /\ \A q \in Owner : pruned[q] = {h \in history[q] : now - h.at <= RateWindow}
  BY <1>1 DEF PrunedHistory, Recent
<1>4. history' = [pruned EXCEPT ![o] = @ \cup {new}] /\ log' = log \cup {new}
  BY DEF Accept
<1>5. Cardinality(pruned[o]) < MaxPerWindow
  OBVIOUS
<1> HIDE DEF new, pruned
<1>6. history' \in [Owner -> SUBSET Placement] /\ log' \in SUBSET Placement
  BY <1>1, <1>2, <1>3, <1>4
<1>7. IsFiniteSet(log')
  BY <1>1, <1>4, FS_AddElement
<1>8. \A q \in Owner : history'[q] = pruned[q] \cup (IF q = o THEN {new} ELSE {})
  BY <1>3, <1>4
<1>9. HistoryComplete'
  BY <1>1, <1>2, <1>3, <1>4, <1>8 DEF IInv, HistoryComplete, Placement
<1>10. HistorySound'
  BY <1>2, <1>3, <1>4, <1>8 DEF IInv, HistorySound, OwnedBy
<1>11. ASSUME NEW q \in Owner, NEW start \in Nat
       PROVE  Cardinality(InWindow(q, start)') <= MaxPerWindow
  <2>1. CASE q = o /\ start <= now /\ now <= start + RateWindow
    <3>1. InWindow(q, start) \subseteq pruned[o]
      BY <1>1, <1>3, <2>1 DEF IInv, HistoryComplete, InWindow, OwnedBy, Placement
    <3>2. pruned[o] \in SUBSET log
      BY <1>3 DEF IInv, HistorySound, OwnedBy
    <3>3. IsFiniteSet(pruned[o])
      BY <1>1, <3>2, FS_Subset
    <3>4. InWindow(q, start)' \in SUBSET (pruned[o] \cup {new})
      BY <1>4, <3>1 DEF InWindow, OwnedBy
    <3>5. /\ IsFiniteSet(pruned[o] \cup {new})
          /\ Cardinality(pruned[o] \cup {new}) <= MaxPerWindow
      BY <1>1, <1>5, <3>3, AddBelow
    <3>6. /\ Cardinality(InWindow(q, start)') <= Cardinality(pruned[o] \cup {new})
          /\ Cardinality(InWindow(q, start)') \in Nat
          /\ Cardinality(pruned[o] \cup {new}) \in Nat
      BY <3>4, <3>5, FS_Subset, FS_CardinalityType
    <3> QED
      BY <1>1, <3>5, <3>6
  <2>2. CASE ~(q = o /\ start <= now /\ now <= start + RateWindow)
    <3>1. InWindow(q, start)' = InWindow(q, start)
      BY <1>2, <1>4, <2>2 DEF InWindow, OwnedBy
    <3> QED
      BY <3>1 DEF IInv, RateInv
  <2> QED
    BY <2>1, <2>2
<1>12. RateInv'
  BY <1>11 DEF RateInv
<1> QED
  BY <1>6, <1>7, <1>9, <1>10, <1>12

-----------------------------------------------------------------------------
\* prune, with or without the rest of a rejected placement.
LEMMA PruneStep ==
  ASSUME IInv, pings' = Unexpired(pings, now), history' = PrunedHistory(now),
         UNCHANGED <<nextId, now, log>>
  PROVE  IInv'
<1>1. pings' \in SUBSET pings
  BY DEF Unexpired
<1>2. /\ pings' \in SUBSET Ping /\ IsFiniteSet(pings') /\ Distinct(pings')
      /\ \A p \in pings' : p.id < nextId
      /\ CapsHold'
  BY <1>1, SmallerList DEF CapsHold
<1>3. /\ history' \in [Owner -> SUBSET Placement]
      /\ HistoryComplete' /\ HistorySound' /\ RateInv'
  BY PruningKeeps
<1> QED
  BY <1>2, <1>3 DEF IInv, TypeOK

\* place, when it accepts.
LEMMA AcceptStep ==
  ASSUME IInv, NEW o \in Owner,
         Cardinality(PrunedHistory(now)[o]) < MaxPerWindow,
         Accept(o), now' = now
  PROVE  IInv'
<1> DEFINE S == Unexpired(pings, now)
           T == TrimAll(TrimOwner(S, o))
<1>1. S \in SUBSET pings
  BY DEF Unexpired
<1> HIDE DEF S
<1>2. /\ T \in SUBSET pings
      /\ Cardinality(T) < MaxActive /\ Cardinality(OwnedBy(T, o)) < MaxPerPlayer
  BY <1>1, TrimMakesRoom
<1>3. now + Ttl \in Nat /\ nextId + 1 \in Nat /\ now \in Nat
  BY OptionsAssumption DEF IInv, TypeOK
<1>4. /\ pings' = T \cup {[id |-> nextId, owner |-> o, expires |-> now + Ttl]}
      /\ nextId' = nextId + 1
  BY DEF Accept, S
<1> HIDE DEF T
<1>5. /\ pings' \in SUBSET Ping /\ IsFiniteSet(pings') /\ Distinct(pings')
      /\ \A p \in pings' : p.id < nextId'
      /\ CapsHold'
  BY <1>2, <1>3, <1>4, AppendKeepsCaps
<1>6. /\ history' \in [Owner -> SUBSET Placement]
      /\ log' \in SUBSET Placement /\ IsFiniteSet(log')
      /\ HistoryComplete' /\ HistorySound' /\ RateInv'
  BY AcceptKeepsRate
<1> QED
  BY <1>3, <1>4, <1>5, <1>6 DEF IInv, TypeOK

\* clear.
LEMMA ClearStep ==
  ASSUME IInv, Clear
  PROVE  IInv'
<1>1. IsFiniteSet({}) /\ Cardinality({}) = 0 /\ \A o \in Owner : OwnedBy({}, o) = {}
  BY FS_EmptySet DEF OwnedBy
<1>2. TypeOK'
  BY <1>1 DEF IInv, TypeOK, Clear
<1>3. CapsHold' /\ Distinct(pings')
  BY <1>1, OptionsAssumption DEF Clear, CapsHold, Distinct
<1>4. HistoryComplete' /\ HistorySound'
  BY <1>1 DEF Clear, HistoryComplete, HistorySound
<1>5. \A o \in Owner, start \in Nat : InWindow(o, start)' = {}
  BY DEF InWindow, OwnedBy, Clear
<1>6. RateInv'
  BY <1>1, <1>5, OptionsAssumption DEF RateInv
<1> QED
  BY <1>2, <1>3, <1>4, <1>6 DEF IInv, Clear

\* The clock: what leaves the window never enters it again.
LEMMA ElapseStep ==
  ASSUME IInv, Elapse
  PROVE  IInv'
<1>1. TypeOK'
  BY DEF IInv, TypeOK, Elapse
<1>2. CapsHold' /\ Distinct(pings)' /\ HistorySound' /\ RateInv'
  BY DEF IInv, CapsHold, Distinct, HistorySound, RateInv, InWindow, Elapse
<1>3. HistoryComplete'
  BY OptionsAssumption DEF IInv, HistoryComplete, TypeOK, Placement, Elapse
<1> QED
  BY <1>1, <1>2, <1>3 DEF IInv, Elapse

\* The invariant is inductive.
LEMMA InvKept == IInv /\ [Next]_vars => IInv'
<1> SUFFICES ASSUME IInv, [Next]_vars PROVE IInv'
  OBVIOUS
<1>1. CASE Snapshot
  BY <1>1, PruneStep DEF Snapshot
<1>2. ASSUME NEW o \in Owner, NEW spectator \in BOOLEAN, Place(o, spectator)
      PROVE  IInv'
  BY <1>2, PruneStep, AcceptStep DEF Place
<1>3. CASE Clear
  BY <1>3, ClearStep
<1>4. CASE Elapse
  BY <1>4, ElapseStep
<1>5. CASE UNCHANGED vars
  BY <1>5 DEF vars, IInv, TypeOK, CapsHold, Distinct, HistoryComplete, HistorySound,
     RateInv, InWindow
<1> QED
  BY <1>1, <1>2, <1>3, <1>4, <1>5 DEF Next

\* The inductive invariant holds in every reachable state.
THEOREM Invariance == Spec => []IInv
BY InitInv, InvKept, PTL DEF Spec

\* The list, the histories and the clock keep their types.
THEOREM TypeCorrect == Spec => []TypeOK
<1>1. IInv => TypeOK
  BY DEF IInv
<1> QED
  BY <1>1, Invariance, PTL

\* Whatever mixture of placements, expiry and evictions, the list never exceeds
\* its cap, nor any owner its own.
THEOREM CapsCorrect == Spec => []CapsHold
<1>1. IInv => CapsHold
  BY DEF IInv
<1> QED
  BY <1>1, Invariance, PTL

\* No owner ever gets more placements accepted than the limit in any interval as
\* long as the window.
THEOREM RateCorrect == Spec => []RateLimited
<1>1. IInv => RateLimited
  BY OptionsAssumption DEF IInv, RateInv, InWindow, RateLimited
<1> QED
  BY <1>1, Invariance, PTL

-----------------------------------------------------------------------------
(* Evictions.                                                              *)

\* What is not among the k newest is older than all of them, and there are k.
LEMMA NewestFull ==
  ASSUME NEW S, IsFiniteSet(S), Distinct(S), NEW k \in Nat, NEW b \in Nat,
         \A q \in S : q.id < b, NEW p \in S \ Newest(S, k)
  PROVE  /\ \A q \in Newest(S, k) : q.id > p.id
         /\ Cardinality(Newest(S, k)) = k
         /\ Cardinality(S) > k
<1> DEFINE N == Newest(S, k)
           Newer(r) == {q \in S : q.id > r.id}
<1>1. \A r \in S : IsFiniteSet(Newer(r)) /\ Cardinality(Newer(r)) \in Nat
                  /\ (r \in N <=> Cardinality(Newer(r)) < k)
  BY FS_Subset, FS_CardinalityType DEF Newest
<1>2. \A r \in S : r.id \in Nat
  BY DEF Distinct
<1>3. ASSUME NEW r \in S \ N, NEW q \in N PROVE q.id > r.id
  <2>1. q \in S /\ Cardinality(Newer(q)) < k /\ ~(Cardinality(Newer(r)) < k)
    BY <1>1 DEF Newest
  <2>2. SUFFICES ASSUME ~(q.id > r.id) PROVE FALSE
    OBVIOUS
  <2>3. Newer(r) \in SUBSET Newer(q)
    BY <1>2, <2>1, <2>2
  <2> HIDE DEF Newer
  <2>4. Cardinality(Newer(r)) <= Cardinality(Newer(q))
    BY <1>1, <2>1, <2>3, FS_Subset
  <2> QED
    BY <1>1, <2>1, <2>4
<1>4. PICK r \in S \ N : \A q \in S \ N : q.id <= r.id
  <2> DEFINE ages == {b - q.id : q \in S \ N}
  <2>1. ages \in SUBSET Nat /\ ages # {}
    BY <1>2
  <2>2. PICK a \in ages : \A c \in ages : a <= c
    <3> HIDE DEF ages
    <3> QED
      BY <2>1, NatMinimum, Zenon
  <2>3. PICK r \in S \ N : a = b - r.id
    BY <2>2
  <2>4. \A q \in S \ N : b - r.id <= b - q.id
    BY <2>2, <2>3
  <2> QED
    BY <1>2, <2>4
<1>5. Newer(r) = N
  <2>1. N \subseteq S
    BY DEF Newest
  <2>2. ASSUME NEW q \in Newer(r) PROVE q \in N
    BY <1>2, <1>4
  <2>3. ASSUME NEW q \in N PROVE q \in Newer(r)
    BY <1>3, <1>4, <2>1
  <2> QED
    BY <2>2, <2>3
<1>6. Cardinality(N) <= k
  BY NewestBound
<1>7. Cardinality(N) = k
  BY <1>1, <1>4, <1>5, <1>6
<1>8. Cardinality(S) > k
  <2>1. N \cup {r} \in SUBSET S /\ r \notin N /\ IsFiniteSet(N)
    BY <1>1, <1>4, <1>5 DEF Newest
  <2> HIDE DEF N, Newer
  <2>2. Cardinality(N \cup {r}) = Cardinality(N) + 1
    BY <2>1, FS_AddElement
  <2>3. Cardinality(N \cup {r}) <= Cardinality(S) /\ Cardinality(S) \in Nat
    BY <2>1, FS_Subset, FS_CardinalityType
  <2> QED
    BY <1>7, <2>2, <2>3
<1> QED
  BY <1>3, <1>7, <1>8

\* What place removes besides the expired pings.
LEMMA AcceptEvicts ==
  ASSUME IInv, IInv', NEW o \in Owner, Accept(o), now' = now,
         NEW p \in Unexpired(pings, now) \ pings'
  PROVE  \E new \in pings' \ pings :
           \/ /\ new.owner = p.owner
              /\ Cardinality(OwnedBy(Unexpired(pings, now), p.owner)) >= MaxPerPlayer
              /\ \A q \in OwnedBy(pings', p.owner) : q.id > p.id
           \/ /\ Cardinality(pings') = MaxActive
              /\ \A q \in pings' : q.id > p.id
<1> DEFINE S == Unexpired(pings, now)
           owned == OwnedBy(S, o)
           kept == Newest(owned, MaxPerPlayer - 1)
           U == TrimOwner(S, o)
           T == TrimAll(U)
           new == [id |-> nextId, owner |-> o, expires |-> now + Ttl]
<1>1. MaxPerPlayer - 1 \in Nat /\ MaxActive - 1 \in Nat /\ nextId \in Nat
      /\ MaxPerPlayer \in Nat /\ MaxActive \in Nat
  BY OptionsAssumption DEF IInv, TypeOK
<1>2. S \in SUBSET pings /\ owned \in SUBSET pings /\ owned \subseteq S
      /\ \A q \in owned : q.owner = o
  BY DEF Unexpired, OwnedBy
<1>3. pings' = T \cup {new} /\ new.id = nextId /\ new.owner = o
  BY DEF Accept
<1>4. U = (S \ owned) \cup kept /\ T = Newest(U, MaxActive - 1)
  BY DEF TrimOwner, TrimAll
<1>5. kept \subseteq owned /\ T \subseteq U
  BY <1>4 DEF Newest
<1>6. owned = {q \in S : q.owner = o}
  BY DEF OwnedBy
<1> HIDE DEF S, owned, kept, U, T, new
<1>7. U \in SUBSET pings /\ T \in SUBSET pings
  BY <1>2, <1>4, <1>5
<1>8. /\ IsFiniteSet(owned) /\ Distinct(owned) /\ \A q \in owned : q.id < nextId
      /\ IsFiniteSet(U) /\ Distinct(U) /\ \A q \in U : q.id < nextId
      /\ IsFiniteSet(T)
      /\ \A q \in S : q.id < nextId /\ q.id \in Nat
  BY <1>2, <1>7, SmallerList DEF Distinct
<1>9. new \in pings' \ pings
  BY <1>1, <1>3 DEF IInv
<1>10. p \in S /\ p \notin T /\ p.id < nextId /\ p.id \in Nat
  BY <1>3, <1>8 DEF S
<1>11. CASE p \notin U
  <2>1. p \in owned /\ p \notin kept /\ p.owner = o
    BY <1>2, <1>4, <1>10, <1>11
  <2>2. /\ \A q \in kept : q.id > p.id
        /\ Cardinality(owned) > MaxPerPlayer - 1
    BY <1>1, <1>8, <2>1, NewestFull DEF kept
  <2>3. ASSUME NEW q \in OwnedBy(pings', o) PROVE q.id > p.id
    <3>1. q.owner = o /\ (q \in T \/ q = new)
      BY <1>3 DEF OwnedBy
    <3>2. CASE q = new
      BY <1>1, <1>3, <1>10, <3>2
    <3>3. CASE q \in T
      <4>1. q \in kept
        BY <1>2, <1>4, <1>5, <1>6, <3>1, <3>3
      <4> QED
        BY <2>2, <4>1
    <3> QED
      BY <3>1, <3>2, <3>3
  <2>4. Cardinality(owned) >= MaxPerPlayer
    <3>1. Cardinality(owned) \in Nat
      BY <1>8, FS_CardinalityType
    <3> QED
      BY <1>1, <2>2, <3>1
  <2>5. Cardinality(OwnedBy(Unexpired(pings, now), p.owner)) >= MaxPerPlayer
    BY <2>1, <2>4 DEF owned, S
  <2> QED
    BY <1>3, <1>9, <2>1, <2>3, <2>5
<1>12. CASE p \in U
  <2>1. p \in U \ Newest(U, MaxActive - 1)
    BY <1>4, <1>10, <1>12
  <2>2. /\ \A q \in T : q.id > p.id
        /\ Cardinality(T) = MaxActive - 1
    BY <1>1, <1>4, <1>8, <2>1, NewestFull
  <2>3. \A q \in pings' : q.id > p.id
    BY <1>1, <1>3, <1>10, <2>2
  <2>4. new \notin T
    BY <1>7, <1>9
  <2>5. Cardinality(pings') = MaxActive
    <3>1. Cardinality(T \cup {new}) = Cardinality(T) + 1
      BY <1>8, <2>4, FS_AddElement
    <3> QED
      BY <1>1, <1>3, <2>2, <3>1
  <2> QED
    BY <1>9, <2>3, <2>5
<1> QED
  BY <1>11, <1>12

\* A ping that has time left goes only for a newer one, of its owner at the cap of
\* the owner or of anybody at the cap of the list, and the oldest go first
\* (trim_owner_pings and the loop on max_active_pings).
THEOREM EvictionCorrect == Spec => EvictsOldest
<1> DEFINE Evicts ==
      log' # {} =>
        \A p \in Unexpired(pings, now) \ pings' :
          \E new \in pings' \ pings :
            \/ /\ new.owner = p.owner
               /\ Cardinality(OwnedBy(Unexpired(pings, now), p.owner)) >= MaxPerPlayer
               /\ \A q \in OwnedBy(pings', p.owner) : q.id > p.id
            \/ /\ Cardinality(pings') = MaxActive
               /\ \A q \in pings' : q.id > p.id
<1>1. ASSUME IInv, IInv', [Next]_vars PROVE Evicts
  <2>1. CASE Unexpired(pings, now) \subseteq pings'
    BY <2>1
  <2>2. ASSUME NEW o \in Owner, Accept(o), now' = now PROVE Evicts
    BY <1>1, <2>2, AcceptEvicts
  <2>3. CASE Snapshot
    BY <2>1, <2>3 DEF Snapshot
  <2>4. ASSUME NEW o \in Owner, NEW spectator \in BOOLEAN, Place(o, spectator)
        PROVE  Evicts
    <3>1. pings' = Unexpired(pings, now) \/ (Accept(o) /\ now' = now)
      BY <2>4 DEF Place
    <3> HIDE DEF Evicts
    <3> QED
      BY <2>1, <2>2, <3>1
  <2>5. CASE Clear
    BY <2>5 DEF Clear
  <2>6. CASE pings' = pings
    BY <2>1, <2>6 DEF Unexpired
  <2>7. CASE Elapse \/ UNCHANGED vars
    BY <2>6, <2>7 DEF Elapse, vars
  <2> HIDE DEF Evicts
  <2> QED
    BY <1>1, <2>3, <2>4, <2>5, <2>7 DEF Next
<1> QED
  BY <1>1, Invariance, PTL DEF Spec, EvictsOldest

-----------------------------------------------------------------------------
(* RankingStore: the operators that load and record.                       *)

\* Totals a history of matches can have, of players with the key k.
Sensible(t, k) ==
  /\ t \in Totals
  /\ KeyOf[t.name] = k
  /\ t.wins <= t.matches
  /\ t.best >= 0

\* A table with sensible totals only.
SensibleTable(t) == IsTable(t) /\ \A k \in DOMAIN t : Sensible(t[k], k)

\* What the table has counted for the players with the key k.
MatchesOf(t, k) == IF k \in DOMAIN t THEN t[k].matches ELSE 0

\* A file lists finitely many entries for every key.
FiniteFile(f) == \A k \in Key : IsFiniteSet(SameKey(f.entries, k))

\* The inductive invariant: the last conjunct ties the file to the last save that
\* completed; it is Damaged from the moment a save begins to write.
RankingInv ==
  /\ RankingTypeOK
  /\ SensibleTable(players) /\ SensibleTable(saved)
  /\ \A k \in Key : played[k] = MatchesOf(players, k)
  /\ FiniteFile(file)
  /\ saved # Nobody => file = Damaged \/ file = Serialized(saved)

-----------------------------------------------------------------------------
\* An entry of a file is sensible once sanitize_stored_entry has seen it.
LEMMA SanitizedSensible ==
  ASSUME NEW e \in Raw, NEW k, KeyOf[e.name] = k
  PROVE  Sensible(Sanitized(e), k)
BY DEF Sensible, Sanitized, Raw, Totals, Smaller, Larger

\* Merging two entries of a player gives a sensible one.
LEMMA MergedSensible ==
  ASSUME NEW k, NEW a, Sensible(a, k), NEW b, Sensible(b, k)
  PROVE  Sensible(Merged(a, b), k)
BY DEF Sensible, Merged, Totals, Larger

\* What MergedInOrder passes through.
IsMerging(f, q) ==
  f = [n \in 1..Len(q) |-> IF n = 1 THEN Sanitized(q[1])
                           ELSE Merged(f[n - 1], Sanitized(q[n]))]

Merging(q) == CHOOSE f : IsMerging(f, q)

LEMMA MergingExists ==
  ASSUME NEW q, Len(q) \in Nat
  PROVE  IsMerging(Merging(q), q)
<1> DEFINE UpTo(f, n) ==
             f = [i \in 1..n |-> IF i = 1 THEN Sanitized(q[1])
                                 ELSE Merged(f[i - 1], Sanitized(q[i]))]
           Bad == {n \in 0..Len(q) : \A f : ~UpTo(f, n)}
<1>1. ASSUME Bad # {} PROVE FALSE
  <2>1. PICK n \in Bad : \A j \in Bad : n <= j
    <3>1. Bad \in SUBSET Nat
      OBVIOUS
    <3> HIDE DEF Bad
    <3> QED
      BY <1>1, <3>1, NatMinimum, Zenon
  <2>2. CASE n = 0
    <3> DEFINE f == [i \in 1..0 |-> i]
    <3>1. UpTo(f, 0)
      OBVIOUS
    <3> QED
      BY <2>1, <2>2, <3>1
  <2>3. CASE n # 0
    <3>0. n \in Nat /\ n <= Len(q) /\ \A j \in Bad : n <= j
      BY <2>1
    <3>1. n - 1 \in 0..Len(q) /\ n - 1 \notin Bad
      <4> HIDE DEF Bad
      <4> QED
        BY <2>3, <3>0
    <3>2. PICK f : UpTo(f, n - 1)
      BY <3>1
    <3> DEFINE v == IF n = 1 THEN Sanitized(q[1]) ELSE Merged(f[n - 1], Sanitized(q[n]))
               g == [i \in 1..n |-> IF i = n THEN v ELSE f[i]]
    <3>3. ASSUME NEW i \in 1..n
          PROVE  g[i] = IF i = 1 THEN Sanitized(q[1]) ELSE Merged(g[i - 1], Sanitized(q[i]))
      <4>1. i # 1 => g[i - 1] = f[i - 1]
        BY <3>0
      <4>2. CASE i = n
        BY <3>0, <4>1, <4>2
      <4>3. CASE i # n
        <5>1. g[i] = f[i] /\ i \in 1..(n - 1)
          BY <3>0, <4>3
        <5>2. f[i] = IF i = 1 THEN Sanitized(q[1]) ELSE Merged(f[i - 1], Sanitized(q[i]))
          BY <3>2, <5>1
        <5> QED
          BY <4>1, <5>1, <5>2
      <4> QED
        BY <4>2, <4>3
    <3>4. UpTo(g, n)
      <4>1. g = [i \in 1..n |-> g[i]]
        OBVIOUS
      <4> HIDE DEF g
      <4> QED
        BY <3>3, <4>1
    <3> QED
      BY <2>1, <3>4
  <2> QED
    BY <2>2, <2>3
<1>2. \E f : UpTo(f, Len(q))
  BY <1>1
<1>3. \E f : IsMerging(f, q)
  BY <1>2 DEF IsMerging
<1> QED
  BY <1>3, Zenon DEF Merging

\* However many entries of a player a file lists, and in whatever order they are
\* merged, what is loaded for that player is sensible.
LEMMA MergedInOrderSensible ==
  ASSUME NEW k, NEW q, Len(q) \in Nat \ {0},
         \A i \in 1..Len(q) : q[i] \in Raw /\ KeyOf[q[i].name] = k
  PROVE  Sensible(MergedInOrder(q), k)
<1> DEFINE f == Merging(q)
           Bad == {n \in 1..Len(q) : ~Sensible(f[n], k)}
<1>1. f = [n \in 1..Len(q) |-> IF n = 1 THEN Sanitized(q[1])
                               ELSE Merged(f[n - 1], Sanitized(q[n]))]
  BY MergingExists DEF IsMerging
<1>2. MergedInOrder(q) = f[Len(q)]
  BY DEF MergedInOrder, Merging, IsMerging
<1>3. \A n \in 1..Len(q) : Sensible(Sanitized(q[n]), k)
  BY SanitizedSensible
<1> HIDE DEF f
<1>4. ASSUME Bad # {} PROVE FALSE
  <2>1. PICK n \in Bad : \A j \in Bad : n <= j
    <3>1. Bad \in SUBSET Nat
      OBVIOUS
    <3> HIDE DEF Bad
    <3> QED
      BY <1>4, <3>1, NatMinimum, Zenon
  <2>2. n \in 1..Len(q) /\ ~Sensible(f[n], k)
    BY <2>1
  <2>3. n # 1
    BY <1>1, <1>3, <2>2
  <2>4. n - 1 \in 1..Len(q) /\ n - 1 \notin Bad
    <3> HIDE DEF Bad
    <3> QED
      BY <2>1, <2>2, <2>3
  <2>5. Sensible(f[n - 1], k)
    BY <2>4
  <2>6. f[n] = Merged(f[n - 1], Sanitized(q[n]))
    BY <1>1, <2>2, <2>3
  <2> QED
    BY <1>3, <2>2, <2>5, <2>6, MergedSensible
<1>5. Len(q) \in 1..Len(q)
  OBVIOUS
<1> QED
  BY <1>2, <1>4, <1>5

-----------------------------------------------------------------------------
\* An order of the entries of a player lists them all, and nothing else.
LEMMA OrderOf ==
  ASSUME NEW S, IsFiniteSet(S), NEW q \in SetToSeqs(S)
  PROVE  /\ Len(q) = Cardinality(S) /\ Len(q) \in Nat
         /\ \A i \in 1..Len(q) : q[i] \in S
<1>1. Cardinality(S) \in Nat
  BY FS_CardinalityType
<1>2. q \in [1..Cardinality(S) -> S]
  BY DEF SetToSeqs
<1> QED
  BY <1>1, <1>2

\* The empty ranking is a sensible one.
LEMMA NobodySensible == SensibleTable(Nobody)
BY DEF SensibleTable, IsTable, Nobody

\* Usable entries have a key that is not NoKey.
LEMMA UsableKey ==
  ASSUME NEW S \in SUBSET Raw, NEW e \in Usable(S)
  PROVE  e \in Raw /\ KeyOf[e.name] \in Key
BY RankingAssumption DEF Usable, Raw

\* What load_players may find for one player.
FoundFor(f, k) == {MergedInOrder(q) : q \in SetToSeqs(SameKey(f.entries, k))}

KeysOf(f) == {KeyOf[e.name] : e \in Usable(f.entries)}

LEMMA LoadsByKey ==
  ASSUME NEW f, f.state = "entries"
  PROVE  Loads(f) = {t \in [KeysOf(f) -> UNION {FoundFor(f, k) : k \in KeysOf(f)}] :
                       \A k \in KeysOf(f) : t[k] \in FoundFor(f, k)}
BY DEF Loads, FoundFor, KeysOf

\* Whatever a file says, what is loaded is sensible.
LEMMA LoadsSensible ==
  ASSUME NEW f \in File, FiniteFile(f), NEW t \in Loads(f)
  PROVE  SensibleTable(t)
<1>1. CASE f.state # "entries"
  <2>1. t = Nobody
    BY <1>1 DEF Loads
  <2> QED
    BY <2>1, NobodySensible
<1>2. CASE f.state = "entries"
  <2>1. /\ t \in [KeysOf(f) -> UNION {FoundFor(f, k) : k \in KeysOf(f)}]
        /\ \A k \in KeysOf(f) : t[k] \in FoundFor(f, k)
    <3>1. t \in {s \in [KeysOf(f) -> UNION {FoundFor(f, k) : k \in KeysOf(f)}] :
                   \A k \in KeysOf(f) : s[k] \in FoundFor(f, k)}
      BY <1>2, LoadsByKey
    <3> QED
      BY <3>1
  <2>2. DOMAIN t = KeysOf(f) /\ t = [k \in KeysOf(f) |-> t[k]]
    BY <2>1
  <2>3. f.entries \in SUBSET Raw
    BY DEF File
  <2>4. KeysOf(f) \subseteq Key
    BY <2>3, UsableKey DEF KeysOf
  <2>5. ASSUME NEW k \in KeysOf(f) PROVE Sensible(t[k], k)
    <3> DEFINE S == SameKey(f.entries, k)
    <3>1. PICK q \in SetToSeqs(S) : t[k] = MergedInOrder(q)
      BY <2>1 DEF FoundFor
    <3>2. IsFiniteSet(S)
      BY <2>4 DEF FiniteFile
    <3>3. PICK e \in Usable(f.entries) : KeyOf[e.name] = k
      BY DEF KeysOf
    <3>4. e \in S
      BY <3>3 DEF SameKey
    <3>5. \A x \in S : x \in Raw /\ KeyOf[x.name] = k
      BY <2>3 DEF SameKey, Usable
    <3> HIDE DEF S
    <3>6. Len(q) = Cardinality(S) /\ Len(q) \in Nat /\ \A i \in 1..Len(q) : q[i] \in S
      BY <3>1, <3>2, OrderOf
    <3>7. Len(q) # 0
      BY <3>2, <3>4, <3>6, FS_EmptySet
    <3>8. Sensible(MergedInOrder(q), k)
      BY <3>5, <3>6, <3>7, MergedInOrderSensible
    <3> QED
      BY <3>1, <3>8
  <2>6. \A k \in KeysOf(f) : t[k] \in Totals
    BY <2>5 DEF Sensible
  <2> QED
    BY <2>2, <2>4, <2>5, <2>6 DEF SensibleTable, IsTable
<1> QED
  BY <1>1, <1>2

-----------------------------------------------------------------------------
\* The entry a save writes for one player.
EntryOf(t, k) ==
  [name |-> t[k].name, matches |-> t[k].matches,
   wins |-> t[k].wins, best |-> t[k].best, valid |-> TRUE]

\* A save writes an entry that is usable, under its key, and that sanitising
\* leaves as it is.
LEMMA EntrySurvives ==
  ASSUME NEW t, SensibleTable(t), NEW k \in DOMAIN t
  PROVE  /\ EntryOf(t, k) \in Raw
         /\ EntryOf(t, k).valid
         /\ KeyOf[EntryOf(t, k).name] = k
         /\ k \in Key /\ k # NoKey
         /\ Sanitized(EntryOf(t, k)) = t[k]
<1>1. /\ t[k] \in Totals /\ KeyOf[t[k].name] = k
      /\ t[k].wins <= t[k].matches /\ t[k].best >= 0
  BY DEF SensibleTable, Sensible
<1>2. k \in Key /\ k # NoKey
  BY RankingAssumption DEF SensibleTable, IsTable
<1> QED
  BY <1>1, <1>2 DEF EntryOf, Raw, Totals, Sanitized, Smaller, Larger

LEMMA SerializedEntries ==
  ASSUME NEW t
  PROVE  /\ Serialized(t).state = "entries"
         /\ Serialized(t).entries = {EntryOf(t, k) : k \in DOMAIN t}
BY DEF Serialized, EntryOf

\* A save writes one entry for every player of the ranking, and no other.
LEMMA OneEntryEach ==
  ASSUME NEW t, SensibleTable(t)
  PROVE  /\ KeysOf(Serialized(t)) = DOMAIN t
         /\ \A k \in DOMAIN t : SameKey(Serialized(t).entries, k) = {EntryOf(t, k)}
         /\ \A k \in Key \ DOMAIN t : SameKey(Serialized(t).entries, k) = {}
<1> DEFINE E == {EntryOf(t, k) : k \in DOMAIN t}
<1>1. \A k \in DOMAIN t : EntryOf(t, k).valid /\ KeyOf[EntryOf(t, k).name] = k /\ k # NoKey
  BY EntrySurvives
<1>2. Usable(E) = E
  BY <1>1 DEF Usable
<1>3. {KeyOf[e.name] : e \in E} = DOMAIN t
  BY <1>1
<1>4. \A k \in DOMAIN t : {e \in E : KeyOf[e.name] = k} = {EntryOf(t, k)}
  BY <1>1
<1>5. \A k \in Key \ DOMAIN t : {e \in E : KeyOf[e.name] = k} = {}
  BY <1>1
<1>6. Serialized(t).entries = E
  BY SerializedEntries
<1> HIDE DEF E
<1> QED
  BY <1>2, <1>3, <1>4, <1>5, <1>6 DEF KeysOf, SameKey

\* A file that a save has written is one the server can have written.
LEMMA SerializedFile ==
  ASSUME NEW t, SensibleTable(t)
  PROVE  /\ Serialized(t) \in File /\ FiniteFile(Serialized(t))
         /\ Serialized(t) # Damaged
<1>1. \A k \in DOMAIN t : EntryOf(t, k) \in Raw
  BY EntrySurvives
<1>2. Serialized(t) \in File
  BY <1>1 DEF Serialized, EntryOf, File
<1>3. Serialized(t) # Damaged
  BY SerializedEntries DEF Damaged
<1>4. ASSUME NEW k \in Key PROVE IsFiniteSet(SameKey(Serialized(t).entries, k))
  <2>1. \/ SameKey(Serialized(t).entries, k) = {EntryOf(t, k)}
        \/ SameKey(Serialized(t).entries, k) = {}
    BY OneEntryEach
  <2> QED
    BY <2>1, FS_EmptySet, FS_Singleton
<1> QED
  BY <1>2, <1>3, <1>4 DEF FiniteFile

\* A single entry comes into memory as it is sanitised.
LEMMA OneChoice ==
  ASSUME NEW e
  PROVE  {MergedInOrder(q) : q \in SetToSeqs({e})} = {Sanitized(e)}
<1>1. IsFiniteSet({e}) /\ Cardinality({e}) = 1
  BY FS_Singleton
<1>2. ASSUME NEW q \in SetToSeqs({e}) PROVE MergedInOrder(q) = Sanitized(e)
  <2>1. Len(q) = 1 /\ Len(q) \in Nat /\ q[1] = e
    <3> DEFINE S == {e}
    <3>1. IsFiniteSet(S) /\ Cardinality(S) = 1 /\ q \in SetToSeqs(S)
      BY <1>1
    <3>2. \A x \in S : x = e
      OBVIOUS
    <3> HIDE DEF S
    <3>3. /\ Len(q) = Cardinality(S) /\ Len(q) \in Nat
          /\ \A i \in 1..Len(q) : q[i] \in S
      BY <3>1, OrderOf
    <3> QED
      BY <3>1, <3>2, <3>3
  <2> DEFINE f == Merging(q)
  <2>2. f = [n \in 1..Len(q) |-> IF n = 1 THEN Sanitized(q[1])
                                 ELSE Merged(f[n - 1], Sanitized(q[n]))]
    BY <2>1, MergingExists DEF IsMerging
  <2>3. MergedInOrder(q) = f[Len(q)]
    BY DEF MergedInOrder, Merging, IsMerging
  <2> HIDE DEF f
  <2> QED
    BY <2>1, <2>2, <2>3
<1>3. [i \in 1..1 |-> e] \in SetToSeqs({e})
  BY <1>1 DEF SetToSeqs
<1> QED
  BY <1>2, <1>3

\* A restart finds in a whole file what was saved: merging and sanitising change
\* nothing.
LEMMA LoadsSaved ==
  ASSUME NEW t, SensibleTable(t), NEW s \in Loads(Serialized(t))
  PROVE  s = t
<1> DEFINE f == Serialized(t)
<1>1. f.state = "entries"
  BY SerializedEntries
<1>2. KeysOf(f) = DOMAIN t
  BY OneEntryEach
<1>3. ASSUME NEW k \in DOMAIN t PROVE FoundFor(f, k) = {t[k]}
  <2>1. SameKey(f.entries, k) = {EntryOf(t, k)}
    BY OneEntryEach
  <2>2. Sanitized(EntryOf(t, k)) = t[k]
    BY EntrySurvives
  <2> QED
    BY <2>1, <2>2, OneChoice DEF FoundFor
<1> HIDE DEF f
<1>4. /\ s \in [KeysOf(f) -> UNION {FoundFor(f, k) : k \in KeysOf(f)}]
      /\ \A k \in KeysOf(f) : s[k] \in FoundFor(f, k)
  <2>1. s \in {r \in [KeysOf(f) -> UNION {FoundFor(f, k) : k \in KeysOf(f)}] :
                 \A k \in KeysOf(f) : r[k] \in FoundFor(f, k)}
    BY <1>1, LoadsByKey DEF f
  <2> QED
    BY <2>1
<1>5. s = [k \in DOMAIN t |-> s[k]]
  BY <1>2, <1>4
<1>6. \A k \in DOMAIN t : s[k] = t[k]
  BY <1>2, <1>3, <1>4
<1>7. t = [k \in DOMAIN t |-> t[k]]
  BY DEF SensibleTable, IsTable
<1> QED
  BY <1>5, <1>6, <1>7

-----------------------------------------------------------------------------
\* Crediting one human counts one match more for the key of the name, if there
\* is one, and nothing for any other.
LEMMA CreditedCounts ==
  ASSUME NEW t, SensibleTable(t), NEW h \in Human, NEW won \in BOOLEAN
  PROVE  /\ SensibleTable(Credited(t, h, won))
         /\ \A k \in Key : MatchesOf(Credited(t, h, won), k) =
                             MatchesOf(t, k) + (IF KeyOf[h.name] = k THEN 1 ELSE 0)
<1> DEFINE j == KeyOf[h.name]
<1>1. h.name \in Name /\ h.score \in Int /\ j \in Key \cup {NoKey}
  BY RankingAssumption DEF Human
<1>2. IsTable(t) /\ \A k \in DOMAIN t : Sensible(t[k], k) /\ t[k].matches \in Nat
  BY DEF SensibleTable, Sensible, Totals
<1>3. CASE j = NoKey
  <2>1. Credited(t, h, won) = t
    BY <1>3 DEF Credited
  <2>2. \A k \in Key : KeyOf[h.name] # k
    BY <1>3, RankingAssumption
  <2> QED
    BY <1>2, <2>1, <2>2 DEF MatchesOf
<1>4. CASE j # NoKey
  <2> DEFINE old == IF j \in DOMAIN t THEN t[j]
                    ELSE [name |-> h.name, matches |-> 0, wins |-> 0, best |-> 0]
             new == [name |-> h.name, matches |-> old.matches + 1,
                     wins |-> old.wins + (IF won THEN 1 ELSE 0),
                     best |-> Larger(old.best, h.score)]
             u == [k \in DOMAIN t \cup {j} |-> IF k = j THEN new ELSE t[k]]
  <2>1. Credited(t, h, won) = u
    BY <1>4 DEF Credited, WithEntry
  <2>2. /\ old.matches \in Nat /\ old.wins \in Nat /\ old.best \in Int
        /\ old.wins <= old.matches /\ old.best >= 0
        /\ old.matches = MatchesOf(t, j)
    <3>1. CASE j \in DOMAIN t
      BY <1>2, <3>1 DEF Sensible, Totals, MatchesOf
    <3>2. CASE j \notin DOMAIN t
      BY <3>2 DEF MatchesOf
    <3> QED
      BY <3>1, <3>2
  <2> HIDE DEF old
  <2>3. Sensible(new, j) /\ new.matches = MatchesOf(t, j) + 1
    <3>1. (IF won THEN 1 ELSE 0) \in {0, 1}
      OBVIOUS
    <3> DEFINE w == IF won THEN 1 ELSE 0
    <3> HIDE DEF w
    <3>2. w \in {0, 1}
      BY <3>1 DEF w
    <3>3. new = [name |-> h.name, matches |-> old.matches + 1,
                 wins |-> old.wins + w, best |-> Larger(old.best, h.score)]
      BY DEF w
    <3> HIDE DEF new
    <3> QED
      BY <1>1, <2>2, <3>2, <3>3 DEF Sensible, Totals, Larger
  <2> HIDE DEF new
  <2>4. /\ DOMAIN u = DOMAIN t \cup {j}
        /\ u[j] = new
        /\ \A k \in DOMAIN t : k # j => u[k] = t[k]
    OBVIOUS
  <2>5. u = [k \in DOMAIN u |-> u[k]]
    OBVIOUS
  <2> HIDE DEF u
  <2>6. \A k \in DOMAIN u : Sensible(u[k], k)
    BY <1>2, <2>3, <2>4
  <2>7. SensibleTable(u)
    <3>1. DOMAIN u \subseteq Key
      BY <1>1, <1>2, <1>4, <2>4 DEF IsTable
    <3>2. \A k \in DOMAIN u : u[k] \in Totals
      BY <2>6 DEF Sensible
    <3> QED
      BY <2>5, <2>6, <3>1, <3>2 DEF SensibleTable, IsTable
  <2>8. ASSUME NEW k \in Key
        PROVE  MatchesOf(u, k) = MatchesOf(t, k) + (IF j = k THEN 1 ELSE 0)
    <3>1. CASE j = k
      BY <2>3, <2>4, <3>1 DEF MatchesOf
    <3>2. CASE j # k
      <4>1. MatchesOf(u, k) = MatchesOf(t, k)
        BY <2>4, <3>2 DEF MatchesOf
      <4>2. MatchesOf(t, k) \in Nat
        BY <1>2 DEF MatchesOf
      <4> QED
        BY <3>2, <4>1, <4>2
    <3> QED
      BY <3>1, <3>2
  <2> QED
    BY <2>1, <2>7, <2>8
<1> QED
  BY <1>3, <1>4

\* The humans among the first n of a final ranking who have the key k.
HumansOf(ranking, n, k) == {i \in 1..n : KeyOf[ranking[i].name] = k}

\* One human more.
LEMMA OneHumanMore ==
  ASSUME NEW ranking, NEW n \in Nat \ {0}, NEW k
  PROVE  /\ Cardinality(HumansOf(ranking, n - 1, k)) \in Nat
         /\ Cardinality(HumansOf(ranking, n, k)) =
              Cardinality(HumansOf(ranking, n - 1, k))
                + (IF KeyOf[ranking[n].name] = k THEN 1 ELSE 0)
<1> DEFINE S == HumansOf(ranking, n - 1, k)
           T == HumansOf(ranking, n, k)
<1>1. IsFiniteSet(S) /\ Cardinality(S) \in Nat
  <2>1. IsFiniteSet(1..(n - 1))
    BY FS_Interval
  <2>2. S \subseteq 1..(n - 1)
    BY DEF HumansOf
  <2> HIDE DEF S
  <2> QED
    BY <2>1, <2>2, FS_Subset, FS_CardinalityType
<1>2. CASE KeyOf[ranking[n].name] = k
  <2>1. T = S \cup {n} /\ n \notin S
    BY <1>2 DEF HumansOf
  <2> HIDE DEF S, T
  <2>2. Cardinality(T) = Cardinality(S) + 1
    BY <1>1, <2>1, FS_AddElement
  <2> QED
    BY <1>1, <1>2, <2>2 DEF S, T
<1>3. CASE KeyOf[ranking[n].name] # k
  <2>1. T = S
    BY <1>3 DEF HumansOf
  <2> HIDE DEF S, T
  <2>2. Cardinality(T) = Cardinality(S)
    BY <2>1
  <2> QED
    BY <1>1, <1>3, <2>2 DEF S, T
<1> QED
  BY <1>2, <1>3

-----------------------------------------------------------------------------
\* What CreditedAfter passes through.
IsCrediting(f, table, ranking, won) ==
  f = [n \in 0..Len(ranking) |-> IF n = 0 THEN table
                                 ELSE Credited(f[n - 1], ranking[n], won)]

Crediting(table, ranking, won) == CHOOSE f : IsCrediting(f, table, ranking, won)

LEMMA CreditingExists ==
  ASSUME NEW table, NEW ranking, NEW won, Len(ranking) \in Nat
  PROVE  IsCrediting(Crediting(table, ranking, won), table, ranking, won)
<1> DEFINE UpTo(f, n) ==
             f = [i \in 0..n |-> IF i = 0 THEN table ELSE Credited(f[i - 1], ranking[i], won)]
           Bad == {n \in 0..Len(ranking) : \A f : ~UpTo(f, n)}
<1>1. ASSUME Bad # {} PROVE FALSE
  <2>1. PICK n \in Bad : \A j \in Bad : n <= j
    <3>1. Bad \in SUBSET Nat
      OBVIOUS
    <3> HIDE DEF Bad
    <3> QED
      BY <1>1, <3>1, NatMinimum, Zenon
  <2>2. CASE n = 0
    <3> DEFINE f == [i \in 0..0 |-> table]
    <3>1. UpTo(f, 0)
      OBVIOUS
    <3> QED
      BY <2>1, <2>2, <3>1
  <2>3. CASE n # 0
    <3>0. n \in Nat /\ n <= Len(ranking) /\ \A j \in Bad : n <= j
      BY <2>1
    <3>1. n - 1 \in 0..Len(ranking) /\ n - 1 \notin Bad
      <4> HIDE DEF Bad
      <4> QED
        BY <2>3, <3>0
    <3>2. PICK f : UpTo(f, n - 1)
      BY <3>1
    <3> DEFINE v == Credited(f[n - 1], ranking[n], won)
               g == [i \in 0..n |-> IF i = n THEN v ELSE f[i]]
    <3>3. ASSUME NEW i \in 0..n
          PROVE  g[i] = IF i = 0 THEN table ELSE Credited(g[i - 1], ranking[i], won)
      <4>1. i # 0 => g[i - 1] = f[i - 1]
        BY <3>0
      <4>2. CASE i = n
        BY <2>3, <3>0, <4>1, <4>2
      <4>3. CASE i # n
        <5>1. g[i] = f[i] /\ i \in 0..(n - 1)
          BY <3>0, <4>3
        <5>2. f[i] = IF i = 0 THEN table ELSE Credited(f[i - 1], ranking[i], won)
          BY <3>2, <5>1
        <5> QED
          BY <4>1, <5>1, <5>2
      <4> QED
        BY <4>2, <4>3
    <3>4. UpTo(g, n)
      <4>1. g = [i \in 0..n |-> g[i]]
        OBVIOUS
      <4> HIDE DEF g
      <4> QED
        BY <3>3, <4>1
    <3> QED
      BY <2>1, <3>4
  <2> QED
    BY <2>2, <2>3
<1>2. \E f : UpTo(f, Len(ranking))
  BY <1>1
<1>3. \E f : IsCrediting(f, table, ranking, won)
  BY <1>2 DEF IsCrediting
<1> QED
  BY <1>3, Zenon DEF Crediting

\* The table t counts what `table` did, and the first n humans of the ranking.
CountsFirst(t, n, table, ranking) ==
  /\ SensibleTable(t)
  /\ \A k \in Key :
       MatchesOf(t, k) = MatchesOf(table, k) + Cardinality(HumansOf(ranking, n, k))

\* Sensible tables count whole matches.
LEMMA MatchesOfNat ==
  ASSUME NEW t, SensibleTable(t), NEW k
  PROVE  MatchesOf(t, k) \in Nat
BY DEF SensibleTable, Sensible, Totals, MatchesOf

\* One human more is counted.
LEMMA CountsNext ==
  ASSUME NEW table, SensibleTable(table), NEW ranking, NEW won \in BOOLEAN,
         NEW n \in Nat \ {0}, ranking[n] \in Human,
         NEW t, CountsFirst(t, n - 1, table, ranking)
  PROVE  CountsFirst(Credited(t, ranking[n], won), n, table, ranking)
<1> DEFINE u == Credited(t, ranking[n], won)
<1>1. SensibleTable(t)
  BY DEF CountsFirst
<1>2. /\ SensibleTable(u)
      /\ \A k \in Key : MatchesOf(u, k) =
                          MatchesOf(t, k) + (IF KeyOf[ranking[n].name] = k THEN 1 ELSE 0)
  BY <1>1, CreditedCounts
<1> HIDE DEF u
<1>3. ASSUME NEW k \in Key
      PROVE  MatchesOf(u, k) = MatchesOf(table, k) + Cardinality(HumansOf(ranking, n, k))
  <2> DEFINE c == Cardinality(HumansOf(ranking, n - 1, k))
             d == Cardinality(HumansOf(ranking, n, k))
             one == IF KeyOf[ranking[n].name] = k THEN 1 ELSE 0
  <2>1. c \in Nat /\ d = c + one
    BY OneHumanMore
  <2>2. MatchesOf(t, k) = MatchesOf(table, k) + c
    BY DEF CountsFirst
  <2>3. MatchesOf(u, k) = MatchesOf(t, k) + one
    BY <1>2
  <2>4. MatchesOf(table, k) \in Nat
    BY MatchesOfNat
  <2>5. one \in Nat
    OBVIOUS
  <2> HIDE DEF c, d, one
  <2>6. MatchesOf(u, k) = MatchesOf(table, k) + d
    BY <2>1, <2>2, <2>3, <2>4, <2>5
  <2> QED
    BY <2>6 DEF d
<1> QED
  BY <1>2, <1>3 DEF CountsFirst, u

\* record_match counts every human of the match once, those who share a name
\* included, and leaves the table sensible.
LEMMA CreditedAfterCounts ==
  ASSUME NEW table, SensibleTable(table), NEW ranking, NEW won \in BOOLEAN,
         Len(ranking) \in Nat, \A i \in 1..Len(ranking) : ranking[i] \in Human
  PROVE  CountsFirst(CreditedAfter(table, ranking, won), Len(ranking), table, ranking)
<1> DEFINE f == Crediting(table, ranking, won)
           Bad == {n \in 0..Len(ranking) : ~CountsFirst(f[n], n, table, ranking)}
<1>1. f = [n \in 0..Len(ranking) |-> IF n = 0 THEN table
                                     ELSE Credited(f[n - 1], ranking[n], won)]
  BY CreditingExists DEF IsCrediting
<1>2. CreditedAfter(table, ranking, won) = f[Len(ranking)]
  BY DEF CreditedAfter, Crediting, IsCrediting
<1> HIDE DEF f
<1>3. f[0] = table
  BY <1>1
<1>4. CountsFirst(f[0], 0, table, ranking)
  <2>1. \A k \in Key : MatchesOf(table, k) \in Nat
    BY MatchesOfNat
  <2>2. \A k \in Key : HumansOf(ranking, 0, k) = {}
    BY DEF HumansOf
  <2>3. Cardinality({}) = 0
    BY FS_EmptySet
  <2>4. ASSUME NEW k \in Key
        PROVE  MatchesOf(table, k) =
                 MatchesOf(table, k) + Cardinality(HumansOf(ranking, 0, k))
    <3>1. MatchesOf(table, k) \in Nat
      BY <2>1
    <3>2. HumansOf(ranking, 0, k) = {}
      BY <2>2
    <3>3. Cardinality(HumansOf(ranking, 0, k)) = 0
      BY <2>3, <3>2
    <3> QED
      BY <3>1, <3>3
  <2> QED
    BY <1>3, <2>4 DEF CountsFirst
<1>5. ASSUME Bad # {} PROVE FALSE
  <2>1. PICK n \in Bad : \A j \in Bad : n <= j
    <3>1. Bad \in SUBSET Nat
      OBVIOUS
    <3> HIDE DEF Bad
    <3> QED
      BY <1>5, <3>1, NatMinimum, Zenon
  <2>2. n \in 0..Len(ranking) /\ ~CountsFirst(f[n], n, table, ranking)
    BY <2>1
  <2>3. n \in Nat \ {0} /\ n \in 1..Len(ranking)
    BY <1>4, <2>2
  <2>4. n - 1 \in 0..Len(ranking) /\ n - 1 \notin Bad
    <3> HIDE DEF Bad
    <3> QED
      BY <2>1, <2>3
  <2>5. CountsFirst(f[n - 1], n - 1, table, ranking)
    BY <2>4
  <2>6. f[n] = Credited(f[n - 1], ranking[n], won) /\ ranking[n] \in Human
    BY <1>1, <2>3
  <2>7. CountsFirst(Credited(f[n - 1], ranking[n], won), n, table, ranking)
    BY <2>3, <2>5, <2>6, CountsNext
  <2> QED
    BY <2>2, <2>6, <2>7
<1>6. Len(ranking) \in 0..Len(ranking)
  OBVIOUS
<1> QED
  BY <1>2, <1>5, <1>6

-----------------------------------------------------------------------------
(* RankingStore: the invariant, one lemma per action.                      *)

LEMMA RankingInitInv == RankingInit => RankingInv
<1> SUFFICES ASSUME RankingInit PROVE RankingInv
  OBVIOUS
<1>1. SensibleTable(players) /\ SensibleTable(saved)
  BY NobodySensible DEF RankingInit
<1>2. file \in File /\ IsFiniteSet(file.entries)
  BY FirstFilesAssumption DEF RankingInit
<1>3. FiniteFile(file)
  <2> SUFFICES ASSUME NEW k \in Key PROVE IsFiniteSet(SameKey(file.entries, k))
    BY DEF FiniteFile
  <2>1. SameKey(file.entries, k) \subseteq file.entries
    BY DEF SameKey, Usable
  <2> QED
    BY <1>2, <2>1, FS_Subset
<1>4. RankingTypeOK
  BY <1>1, <1>2, RankingAssumption DEF RankingInit, RankingTypeOK, SensibleTable
<1>5. \A k \in Key : played[k] = MatchesOf(players, k)
  BY DEF RankingInit, MatchesOf, Nobody
<1> QED
  BY <1>1, <1>3, <1>4, <1>5 DEF RankingInv, RankingInit

\* Another ranking in memory that is sensible, and counted, keeps the invariant.
LEMMA NewPlayers ==
  ASSUME RankingInv, SensibleTable(players'),
         phase' \in {"down", "serving", "save", "write"},
         played' \in [Key -> Nat], \A k \in Key : played'[k] = MatchesOf(players', k),
         recorded' \in 0..MaxMatches, UNCHANGED <<file, saved>>
  PROVE  RankingInv'
<1>1. SensibleTable(players)' /\ SensibleTable(saved)' /\ FiniteFile(file)'
  BY DEF RankingInv, SensibleTable, FiniteFile
<1>2. RankingTypeOK'
  BY <1>1 DEF RankingInv, RankingTypeOK, SensibleTable
<1>3. (\A k \in Key : played[k] = MatchesOf(players, k))'
  BY DEF MatchesOf
<1>4. (saved # Nobody => file = Damaged \/ file = Serialized(saved))'
  BY DEF RankingInv, Serialized
<1> QED
  BY <1>1, <1>2, <1>3, <1>4 DEF RankingInv

\* Start: what is loaded is sensible, and is all the process knows.
LEMMA StartStep == RankingInv /\ Start => RankingInv'
<1> SUFFICES ASSUME RankingInv, Start PROVE RankingInv'
  OBVIOUS
<1>1. file \in File /\ FiniteFile(file)
  BY DEF RankingInv, RankingTypeOK
<1>2. SensibleTable(players')
  BY <1>1, LoadsSensible DEF Start
<1>3. played' = [k \in Key |-> MatchesOf(players', k)]
  BY DEF Start, MatchesOf
<1>4. \A k \in Key : MatchesOf(players', k) \in Nat
  BY <1>2, MatchesOfNat
<1>5. phase' = "serving" /\ recorded' \in 0..MaxMatches /\ UNCHANGED <<file, saved>>
  BY DEF Start, RankingInv, RankingTypeOK
<1> QED
  BY <1>2, <1>3, <1>4, <1>5, NewPlayers

\* RecordMatch: every human of the match is counted.
LEMMA RecordStep ==
  ASSUME RankingInv, NEW ranking \in Rankings, NEW won \in BOOLEAN,
         RecordMatch(ranking, won)
  PROVE  RankingInv'
<1>1. /\ Len(ranking) \in Nat /\ DOMAIN ranking = 1..Len(ranking)
      /\ \A i \in 1..Len(ranking) : ranking[i] \in Human
  <2>1. PICK m \in 0..MaxHumans : ranking \in [1..m -> Human]
    BY DEF Rankings, BoundedSeq, SeqOf
  <2>2. m \in Nat
    BY <2>1, RankingAssumption
  <2> QED
    BY <2>1, <2>2
<1>2. SensibleTable(players)
  BY DEF RankingInv
<1>3. players' = CreditedAfter(players, ranking, won)
  BY DEF RecordMatch
<1>4. CountsFirst(players', Len(ranking), players, ranking)
  BY <1>1, <1>2, <1>3, CreditedAfterCounts
<1>5. played' = [k \in Key |-> played[k] + Cardinality(HumansOf(ranking, Len(ranking), k))]
  BY <1>1 DEF RecordMatch, HumansOf
<1>6. SensibleTable(players')
  BY <1>4 DEF CountsFirst
<1>7. \A k \in Key : played'[k] = MatchesOf(players', k)
  BY <1>4, <1>5 DEF RankingInv, CountsFirst
<1>8. played' \in [Key -> Nat]
  <2>1. \A k \in Key : MatchesOf(players', k) \in Nat
    BY <1>6, MatchesOfNat
  <2>2. played' = [k \in Key |-> played'[k]]
    BY <1>5
  <2> QED
    BY <1>7, <2>1, <2>2
<1>9. /\ phase' = "save" /\ UNCHANGED <<file, saved>>
      /\ recorded' \in 0..MaxMatches
  BY RankingAssumption DEF RecordMatch, RankingInv, RankingTypeOK
<1> QED
  BY <1>6, <1>7, <1>8, <1>9, NewPlayers

\* Stop: the memory is gone.
LEMMA StopStep == RankingInv /\ Stop => RankingInv'
<1> SUFFICES ASSUME RankingInv, Stop PROVE RankingInv'
  OBVIOUS
<1>1. SensibleTable(players')
  BY NobodySensible DEF Stop
<1>2. played' \in [Key -> Nat] /\ \A k \in Key : played'[k] = MatchesOf(players', k)
  BY DEF Stop, MatchesOf, Nobody
<1>3. phase' = "down" /\ recorded' \in 0..MaxMatches /\ UNCHANGED <<file, saved>>
  BY DEF Stop, RankingInv, RankingTypeOK
<1> QED
  BY <1>1, <1>2, <1>3, NewPlayers

\* SaveImpossible and WriteFails: only the phase.
LEMMA GivesUpStep == RankingInv /\ (SaveImpossible \/ WriteFails) => RankingInv'
<1> SUFFICES ASSUME RankingInv, SaveImpossible \/ WriteFails PROVE RankingInv'
  OBVIOUS
<1>1. /\ phase' = "serving" /\ recorded' \in 0..MaxMatches /\ played' = played
      /\ players' = players /\ UNCHANGED <<file, saved>>
  BY DEF SaveImpossible, WriteFails, RankingInv, RankingTypeOK
<1>2. /\ SensibleTable(players') /\ played' \in [Key -> Nat]
      /\ \A k \in Key : played'[k] = MatchesOf(players', k)
  BY <1>1 DEF RankingInv, RankingTypeOK
<1> QED
  BY <1>1, <1>2, NewPlayers

\* BeginWrite: nothing is left of the file.
LEMMA BeginWriteStep == RankingInv /\ BeginWrite => RankingInv'
<1> SUFFICES ASSUME RankingInv, BeginWrite PROVE RankingInv'
  OBVIOUS
<1>1. /\ phase' = "write" /\ file' = Damaged
      /\ UNCHANGED <<players, saved, played, recorded>>
  BY DEF BeginWrite
<1>2. Damaged \in File
  BY DEF Damaged, File
<1>3. FiniteFile(Damaged)
  <2> SUFFICES ASSUME NEW k \in Key PROVE IsFiniteSet(SameKey(Damaged.entries, k))
    BY DEF FiniteFile
  <2>1. SameKey(Damaged.entries, k) = {}
    BY DEF SameKey, Usable, Damaged
  <2> QED
    BY <2>1, FS_EmptySet
<1>4. RankingTypeOK'
  BY <1>1, <1>2 DEF RankingInv, RankingTypeOK, IsTable
<1>5. SensibleTable(players)' /\ SensibleTable(saved)' /\ FiniteFile(file)'
  BY <1>1, <1>3 DEF RankingInv, SensibleTable
<1>6. (\A k \in Key : played[k] = MatchesOf(players, k))'
  BY <1>1 DEF RankingInv, MatchesOf
<1> QED
  BY <1>1, <1>4, <1>5, <1>6 DEF RankingInv

\* CompleteWrite: the file holds all of the memory.
LEMMA CompleteWriteStep == RankingInv /\ CompleteWrite => RankingInv'
<1> SUFFICES ASSUME RankingInv, CompleteWrite PROVE RankingInv'
  OBVIOUS
<1>1. /\ phase' = "serving" /\ file' = Serialized(players) /\ saved' = players
      /\ UNCHANGED <<players, played, recorded>>
  BY DEF CompleteWrite
<1>2. SensibleTable(players)
  BY DEF RankingInv
<1>3. Serialized(players) \in File /\ FiniteFile(Serialized(players))
  BY <1>2, SerializedFile
<1>4. SensibleTable(players)' /\ SensibleTable(saved)' /\ FiniteFile(file)'
  BY <1>1, <1>2, <1>3
<1>5. RankingTypeOK'
  BY <1>1, <1>3, <1>4 DEF RankingInv, RankingTypeOK, SensibleTable
<1>6. (\A k \in Key : played[k] = MatchesOf(players, k))'
  BY <1>1 DEF RankingInv, MatchesOf
<1>7. (saved # Nobody => file = Damaged \/ file = Serialized(saved))'
  BY <1>1
<1> QED
  BY <1>4, <1>5, <1>6, <1>7 DEF RankingInv

LEMMA RankingStutter == RankingInv /\ UNCHANGED rankingVars => RankingInv'
<1> SUFFICES ASSUME RankingInv, UNCHANGED rankingVars PROVE RankingInv'
  OBVIOUS
<1>1. /\ phase' = phase /\ recorded' = recorded /\ played' = played
      /\ players' = players /\ UNCHANGED <<file, saved>>
  BY DEF rankingVars
<1>2. /\ SensibleTable(players') /\ played' \in [Key -> Nat]
      /\ \A k \in Key : played'[k] = MatchesOf(players', k)
      /\ phase' \in {"down", "serving", "save", "write"} /\ recorded' \in 0..MaxMatches
  BY <1>1 DEF RankingInv, RankingTypeOK
<1> QED
  BY <1>1, <1>2, NewPlayers

LEMMA RankingInductive == RankingInv /\ [RankingNext]_rankingVars => RankingInv'
<1> SUFFICES ASSUME RankingInv, [RankingNext]_rankingVars PROVE RankingInv'
  OBVIOUS
<1>1. CASE Start
  BY <1>1, StartStep
<1>2. ASSUME NEW ranking \in Rankings, NEW won \in BOOLEAN, RecordMatch(ranking, won)
      PROVE  RankingInv'
  BY <1>2, RecordStep
<1>3. CASE SaveImpossible \/ WriteFails
  BY <1>3, GivesUpStep
<1>4. CASE BeginWrite
  BY <1>4, BeginWriteStep
<1>5. CASE CompleteWrite
  BY <1>5, CompleteWriteStep
<1>6. CASE Stop
  BY <1>6, StopStep
<1>7. CASE UNCHANGED rankingVars
  BY <1>7, RankingStutter
<1> QED
  BY <1>1, <1>2, <1>3, <1>4, <1>5, <1>6, <1>7 DEF RankingNext

\* The ranking, the file and the last save stay what `load_players`, record_match
\* and `save` make of them, in every order of starts, matches, stops and failures.
THEOREM RankingInvariance == RankingSpec => []RankingInv
<1>1. RankingInit => RankingInv
  BY RankingInitInv
<1>2. RankingInv /\ [RankingNext]_rankingVars => RankingInv'
  BY RankingInductive
<1> QED
  BY <1>1, <1>2, PTL DEF RankingSpec

\* The values RankingStore keeps in memory and in its file have their types.
THEOREM RankingTypeCorrect == RankingSpec => []RankingTypeOK
<1>1. RankingInv => RankingTypeOK
  BY DEF RankingInv
<1> QED
  BY <1>1, RankingInvariance, PTL

\* Whatever file the first start found, hand-written entries with impossible totals
\* or several spellings of a name included, every entry in memory is under the key
\* of its name, with no more wins than matches and a best score that is not
\* negative; and record_match has counted every human of every match once, two
\* players who share a name included.
THEOREM TotalsCorrect == RankingSpec => []TotalsMakeSense
<1>1. RankingInv => TotalsMakeSense
  BY DEF RankingInv, SensibleTable, Sensible, MatchesOf, TotalsMakeSense
<1> QED
  BY <1>1, RankingInvariance, PTL

\* A restart finds the totals of the last save that completed, unchanged by the
\* merging and sanitising of load_players, or nobody when a later save was cut
\* short; never a part of them and never a mixture.
THEOREM RestartsCorrect == RankingSpec => RestartsAreWhole
<1> DEFINE Whole == phase = "down" /\ saved # Nobody /\ phase' = "serving" =>
                      players' = IF file = Damaged THEN Nobody ELSE saved
<1>1. ASSUME RankingInv, [RankingNext]_rankingVars PROVE Whole
  <2> SUFFICES ASSUME phase = "down", saved # Nobody, phase' = "serving"
               PROVE  players' = IF file = Damaged THEN Nobody ELSE saved
    OBVIOUS
  <2>1. Start
    BY <1>1 DEF RankingNext, rankingVars, RecordMatch, SaveImpossible, BeginWrite,
                CompleteWrite, WriteFails, Stop
  <2>2. players' \in Loads(file)
    BY <2>1 DEF Start
  <2>3. SensibleTable(saved) /\ (file = Damaged \/ file = Serialized(saved))
    BY <1>1 DEF RankingInv
  <2>4. CASE file = Damaged
    <3>1. file.state # "entries"
      BY <2>4 DEF Damaged
    <3> QED
      BY <2>2, <2>4, <3>1 DEF Loads
  <2>5. CASE file = Serialized(saved)
    <3>1. file # Damaged
      BY <2>3, <2>5, SerializedFile
    <3>2. players' = saved
      BY <2>2, <2>3, <2>5, LoadsSaved
    <3> QED
      BY <3>1, <3>2
  <2> QED
    BY <2>3, <2>4, <2>5
<1> QED
  BY <1>1, RankingInvariance, PTL DEF RankingSpec, RestartsAreWhole

=============================================================================
