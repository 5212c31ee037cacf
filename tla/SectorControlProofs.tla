------------------------- MODULE SectorControlProofs -------------------------
(***************************************************************************)
(* Proofs about SectorControl, for any number of players, difficulty, map, *)
(* invaders and times: the counters of the sectors, the hysteresis of      *)
(* capture and loss, the verdict, the peak and the grace.                  *)
(***************************************************************************)
EXTENDS SectorControl, FiniteSetTheorems, TLAPS

-----------------------------------------------------------------------------
(* Numbers of the match.                                                   *)

LEMMA NumSectorsType ==
  /\ NumSectors \in Nat \ {0}
  /\ \A S \in SUBSET Sector : IsFiniteSet(S) /\ Cardinality(S) \in 0..NumSectors
<1>1. NumSectors \in Nat \ {0}
  BY MatchAssumption DEF Side
<1>2. ASSUME NEW S \in SUBSET Sector
      PROVE  IsFiniteSet(S) /\ Cardinality(S) \in 0..NumSectors
  <2>1. IsFiniteSet(S) /\ Cardinality(S) <= NumSectors
    BY FS_Subset, MatchAssumption DEF NumSectors
  <2>2. Cardinality(S) \in Nat
    BY <2>1, FS_CardinalityType
  <2> QED
    BY <1>1, <2>1, <2>2
<1> QED
  BY <1>1, <1>2

\* Sets of dots can be counted.
LEMMA DotsCount ==
  ASSUME NEW S \in SUBSET Dot
  PROVE  IsFiniteSet(S) /\ Cardinality(S) \in Nat
BY FS_Subset, FS_CardinalityType, DotsAssumption

LEMMA DotsOf == \A s \in Sector : DotsIn[s] \in SUBSET Dot /\ Total(s) \in Nat
BY DotsCount, DotsAssumption DEF Total

\* Division and remainder by the cost of a dot.
LEMMA Division ==
  ASSUME NEW a \in Nat, NEW b \in Nat \ {0}
  PROVE  a \div b \in Nat /\ a % b \in 0..(b - 1)
OBVIOUS

\* A sector at its capture threshold is within its loss limit.
LEMMA ThresholdOrder ==
  ASSUME NEW s \in Sector
  PROVE  /\ CaptureThreshold(s) \in Nat /\ LossLimit(s) \in Nat
         /\ CaptureThreshold(s) <= LossLimit(s)
<1>1. Total(s) \in Nat
  BY DotsOf
<1>2. CASE LargeParty
  BY <1>1, <1>2 DEF CaptureThreshold, LossLimit, CapturePercent, LossPercent, Larger
<1>3. CASE ~LargeParty /\ FiveCasual
  BY <1>1, <1>3 DEF CaptureThreshold, LossLimit, CapturePercent, LossPercent, Larger
<1>4. CASE ~LargeParty /\ ~FiveCasual
  BY <1>1, <1>4 DEF CaptureThreshold, LossLimit, CapturePercent, LossPercent, Larger
<1> QED
  BY <1>2, <1>3, <1>4

LEMMA PressureType ==
  ASSUME NEW n \in Nat
  PROVE  Pressure(n) \in Band
<1> DEFINE over == {i \in 1..5 : 100 * n > PressureLimit[i] * NumSectors}
<1>1. IsFiniteSet(1..5) /\ Cardinality(1..5) = 5
  <2>1. 1 \in Int /\ 5 \in Int
    OBVIOUS
  <2>2. IsFiniteSet(1..5) /\ Cardinality(1..5) = IF 1 > 5 THEN 0 ELSE 5 - 1 + 1
    BY ONLY <2>1, FS_Interval, Zenon
  <2> QED
    BY <2>2
<1>2. over \in SUBSET (1..5)
  OBVIOUS
<1> HIDE DEF over
<1>3. IsFiniteSet(over) /\ Cardinality(over) <= 5
  BY <1>1, <1>2, FS_Subset
<1>4. Cardinality(over) \in Nat
  BY <1>3, FS_CardinalityType
<1>5. 1 + Cardinality(over) \in Band
  BY <1>3, <1>4 DEF Band
<1> QED
  BY <1>5 DEF Pressure, over

LEMMA RegenRateType ==
  ASSUME NEW b \in Band, NEW n \in Nat
  PROVE  RegenRate(b, n) \in Nat
<1>1. Growth[b] \in Nat
  BY DEF Growth, Band
<1>2. DifficultyPercent \in Nat
  BY MatchAssumption DEF DifficultyPercent
<1>3. ReliefPercent \in Nat
  BY DEF ReliefPercent
<1>4. 5 + 2 * n \in Nat
  OBVIOUS
<1>5. Growth[b] * DifficultyPercent \in Nat
  BY <1>1, <1>2
<1>6. Growth[b] * DifficultyPercent * ReliefPercent \in Nat
  BY <1>3, <1>5
<1>7. Growth[b] * DifficultyPercent * ReliefPercent * (5 + 2 * n) \in Nat
  BY <1>4, <1>6
<1> QED
  BY <1>7 DEF RegenRate

LEMMA MaxGhostsType == MaxGhosts \in Nat /\ MinGhosts \in Nat /\ MinGhosts <= MaxGhosts
BY DEF MaxGhosts, MinGhosts

\* The ghosts wanted are within the match's limits.
LEMMA GhostTargetType ==
  ASSUME NEW active \in Nat, NEW n \in Nat
  PROVE  GhostTarget(active, n) \in MinGhosts..MaxGhosts
<1> DEFINE share == Larger(MaxGhosts * Profile.base * NumSectors,
                           active * (Profile.active * NumSectors + Profile.ratio * n))
           nearest == (2 * share + 100 * NumSectors) \div (200 * NumSectors)
           most == (MaxGhosts * Profile.most) \div 100
<1>1. NumSectors \in Nat \ {0}
  BY NumSectorsType
<1>2. /\ Profile.base \in Nat /\ Profile.active \in Nat /\ Profile.ratio \in Nat
      /\ Profile.most \in 0..100
  BY DEF Profile
<1>3. share \in Nat
  <2>1. MaxGhosts * Profile.base \in Nat
    BY <1>2, MaxGhostsType
  <2>2. MaxGhosts * Profile.base * NumSectors \in Nat
    BY <1>1, <2>1
  <2>3. Profile.active * NumSectors \in Nat /\ Profile.ratio * n \in Nat
    BY <1>1, <1>2
  <2>4. Profile.active * NumSectors + Profile.ratio * n \in Nat
    BY <2>3
  <2>5. active * (Profile.active * NumSectors + Profile.ratio * n) \in Nat
    BY <2>4
  <2> QED
    BY <2>2, <2>5 DEF Larger
<1> HIDE DEF share
<1>4. nearest \in Nat
  <2>1. 200 * NumSectors \in Nat \ {0} /\ 2 * share + 100 * NumSectors \in Nat
    BY <1>1, <1>3
  <2> QED
    BY <2>1, Division
<1>5. most \in 0..MaxGhosts
  <2>1. CASE MaxGhosts \in {4, 8}
    BY <1>2, <2>1
  <2>2. CASE MaxGhosts \in {20, 40}
    BY <1>2, <2>2
  <2>3. CASE MaxGhosts \in {65, 100}
    BY <1>2, <2>3
  <2>4. MaxGhosts \in {4, 8, 20, 40, 65, 100}
    BY DEF MaxGhosts
  <2> QED
    BY <2>1, <2>2, <2>3, <2>4
<1> HIDE DEF nearest, most
<1>6. Larger(MinGhosts, Upto(nearest, most)) \in MinGhosts..MaxGhosts
  BY <1>4, <1>5, MaxGhostsType DEF Larger, Upto
<1> QED
  BY <1>6 DEF GhostTarget, share, nearest, most

-----------------------------------------------------------------------------
(* The inductive invariant.  A sector was seen captured for as long as it  *)
(* has been since its capture was written down, and only the first tick    *)
(* starts before the capture loop has run.                                 *)

SeenAsHeld ==
  /\ \A s \in captured : quiet[s] = held[s]
  /\ stage = "capture" => \A s \in Sector \ captured : quiet[s] = 0
TicksCounted == stage # "moves" => clock > 0

IInv ==
  /\ TypeOK
  /\ CountsDots
  /\ Hysteresis
  /\ OnlyOpenMatchesGoOn
  /\ PeakCovers
  /\ SeenAsHeld
  /\ TicksCounted

LEMMA InitInv == Init => IInv
<1> SUFFICES ASSUME Init PROVE IInv
  OBVIOUS
<1>1. \A s \in Sector : DotsIn[s] \in SUBSET Dot /\ Total(s) \in Nat
  BY DotsOf
<1>2. LongestGrace \in Nat /\ LongestGrace \in 0..LongestGrace /\ 0 \in 0..LongestGrace
  BY GraceAssumption DEF LongestGrace, Band
<1>3. /\ DotCost \in Nat \ {0} /\ 0 \in 0..(DotCost - 1)
      /\ NumPlayers \in Nat /\ NumPlayers \in 0..NumPlayers
  BY MatchAssumption
<1>4. NumSectors \in Nat /\ NumCaptured = 0 /\ 0 \in 0..NumSectors
  BY NumSectorsType, FS_EmptySet DEF Init, NumCaptured
<1>5. MaxGhosts \in MinGhosts..MaxGhosts
  BY MaxGhostsType
<1>6. TypeOK
  BY <1>1, <1>2, <1>3, <1>4, <1>5 DEF Init, TypeOK, Stage, Reason
<1>7. CountsDots
  <2>1. ASSUME NEW s \in Sector PROVE dots \cap DotsIn[s] = DotsIn[s]
    BY DEF Init
  <2> QED
    BY <2>1 DEF CountsDots, Total, Init
<1>8. Hysteresis /\ OnlyOpenMatchesGoOn /\ SeenAsHeld /\ TicksCounted
  BY DEF Init, Hysteresis, OnlyOpenMatchesGoOn, SeenAsHeld, TicksCounted
<1>9. PeakCovers
  BY <1>4 DEF Init, PeakCovers
<1> QED
  BY <1>6, <1>7, <1>8, <1>9 DEF IInv

LEMMA MovesInv ==
  ASSUME IInv, NEW eaten \in SUBSET dots, NEW left \in 0..NumPlayers, Moves(eaten, left)
  PROVE  IInv' /\ \A s \in Sector : count'[s] <= count[s]
<1>1. TypeOK /\ CountsDots
  BY DEF IInv
<1>2. ASSUME NEW s \in Sector
      PROVE  /\ count'[s] \in Nat /\ count'[s] <= count[s]
             /\ count'[s] = Cardinality(dots' \cap DotsIn[s])
  <2> DEFINE here == dots \cap DotsIn[s]
             gone == eaten \cap DotsIn[s]
  <2>1. here \in SUBSET Dot /\ here \cap gone = gone
        /\ dots' \cap DotsIn[s] = here \ gone
    BY <1>1 DEF TypeOK, Moves
  <2>2. gone \in SUBSET Dot
    BY <1>1 DEF TypeOK
  <2> HIDE DEF here, gone
  <2>3. IsFiniteSet(here) /\ Cardinality(here) \in Nat /\ Cardinality(gone) \in Nat
    BY <2>1, <2>2, DotsCount
  <2>4. Cardinality(here \ gone) = Cardinality(here) - Cardinality(gone)
    <3>1. Cardinality(here \ gone) = Cardinality(here) - Cardinality(here \cap gone)
      BY <2>3, FS_Difference, Zenon
    <3> QED
      BY <2>1, <3>1
  <2>5. Cardinality(here \ gone) \in Nat
    <3>1. here \ gone \in SUBSET Dot
      BY <2>1
    <3> QED
      BY <3>1, DotsCount
  <2>6. count[s] = Cardinality(here) /\ EatenIn(s, eaten) = Cardinality(gone)
    BY <1>1 DEF CountsDots, EatenIn, here, gone
  <2>7. count'[s] = Larger(count[s] - EatenIn(s, eaten), 0)
    BY DEF Moves
  <2>8. count'[s] = Cardinality(here \ gone)
    BY <2>3, <2>4, <2>5, <2>6, <2>7 DEF Larger
  <2>9. Cardinality(here \ gone) <= count[s]
    BY <2>3, <2>4, <2>6
  <2> QED
    BY <2>1, <2>5, <2>8, <2>9
<1>3. CountsDots'
  BY <1>2 DEF CountsDots
<1>4. LongestGrace \in Nat
  BY GraceAssumption DEF LongestGrace, Band
<1>5. \A n \in 0..LongestGrace : Upto(n + 1, LongestGrace) \in 0..LongestGrace
  BY <1>4 DEF Upto
<1>6. TypeOK'
  <2>1. count' \in [Sector -> Nat]
    <3>1. count' = [s \in Sector |-> Larger(count[s] - EatenIn(s, eaten), 0)]
      BY DEF Moves
    <3> QED
      BY <1>2, <3>1
  <2>2. held' \in [Sector -> 0..LongestGrace] /\ quiet' \in [Sector -> 0..LongestGrace]
    <3>1. 0 \in 0..LongestGrace
      BY <1>4
    <3> QED
      BY <1>1, <1>5, <3>1 DEF TypeOK, Moves
  <2> QED
    BY <1>1, <2>1, <2>2 DEF TypeOK, Moves, Stage
<1>7. Hysteresis'
  <2>1. ASSUME NEW s \in captured' PROVE count'[s] <= LossLimit(s)
    <3>1. s \in captured /\ s \in Sector /\ count[s] \in Nat /\ count[s] <= LossLimit(s)
      BY <1>1 DEF Moves, TypeOK, IInv, Hysteresis
    <3>2. LossLimit(s) \in Nat
      BY <3>1, ThresholdOrder
    <3>3. count'[s] \in Nat /\ count'[s] <= count[s]
      BY <1>2, <3>1
    <3> QED
      BY <3>1, <3>2, <3>3
  <2> QED
    BY <2>1 DEF Hysteresis, Moves
<1>8. OnlyOpenMatchesGoOn' /\ TicksCounted'
  BY <1>1 DEF OnlyOpenMatchesGoOn, TicksCounted, Moves, TypeOK
<1>9. PeakCovers'
  BY DEF IInv, PeakCovers, NumCaptured, Moves
<1>10. SeenAsHeld'
  BY <1>1 DEF IInv, SeenAsHeld, Moves, TypeOK
<1> QED
  BY <1>2, <1>3, <1>6, <1>7, <1>8, <1>9, <1>10 DEF IInv
LEMMA CaptureInv ==
  ASSUME IInv, Capture
  PROVE  IInv'
<1>1. TypeOK /\ CountsDots /\ clock > 0 /\ stage = "capture"
  BY DEF IInv, TicksCounted, Capture
<1>2. Taken \in SUBSET Sector /\ captured' \in SUBSET Sector
  BY <1>1 DEF Taken, TypeOK, Capture
<1>3. /\ NumSectors \in Nat /\ Cardinality(captured') \in 0..NumSectors
      /\ NumCaptured' = Cardinality(captured')
  BY <1>2, NumSectorsType DEF NumCaptured
<1>4. peak' = Larger(peak, Cardinality(captured')) /\ peak \in 0..NumSectors
  BY <1>1 DEF Capture, TypeOK
<1>5. peak' \in 0..NumSectors /\ peak <= peak' /\ NumCaptured' <= peak'
  BY <1>3, <1>4 DEF Larger
<1>6. TypeOK'
  <2>1. 0 \in 0..LongestGrace /\ 0 \in 0..(DotCost - 1)
    BY GraceAssumption, MatchAssumption DEF LongestGrace, Band
  <2>2. held' \in [Sector -> 0..LongestGrace] /\ acc' \in [Sector -> 0..(DotCost - 1)]
    BY <1>1, <2>1 DEF TypeOK, Capture
  <2> QED
    BY <1>1, <1>2, <1>5, <2>2 DEF TypeOK, Capture, Stage
<1>7. CountsDots'
  BY <1>1 DEF CountsDots, Capture
<1>8. Hysteresis'
  <2>1. ASSUME NEW s \in captured' PROVE count[s] <= LossLimit(s)
    <3>1. CASE s \in captured
      BY <3>1 DEF IInv, Hysteresis
    <3>2. CASE s \in Taken
      <4>1. s \in Sector /\ count[s] \in Nat /\ count[s] <= CaptureThreshold(s)
        BY <1>1, <3>2 DEF Taken, TypeOK
      <4>2. /\ CaptureThreshold(s) \in Nat /\ LossLimit(s) \in Nat
            /\ CaptureThreshold(s) <= LossLimit(s)
        BY <4>1, ThresholdOrder
      <4> QED
        BY <4>1, <4>2
    <3> QED
      BY <3>1, <3>2 DEF Capture
  <2>2. ASSUME NEW s \in Sector \ captured' PROVE count[s] > CaptureThreshold(s)
    <3>1. count[s] \in Nat /\ CaptureThreshold(s) \in Nat
      BY <1>1, ThresholdOrder DEF TypeOK
    <3>2. ~(count[s] <= CaptureThreshold(s))
      BY DEF Capture, Taken
    <3> QED
      BY <3>1, <3>2
  <2> QED
    BY <2>1, <2>2 DEF Hysteresis, Capture
<1>9. OnlyOpenMatchesGoOn' /\ TicksCounted'
  BY <1>1 DEF OnlyOpenMatchesGoOn, TicksCounted, Capture
<1>10. PeakCovers'
  <2>1. ASSUME NEW m \in milestones PROVE 100 * peak' >= m * NumSectors
    <3>1. m \in Nat /\ 100 * peak >= m * NumSectors
      BY <1>1 DEF IInv, PeakCovers, TypeOK, Milestone
    <3>2. m * NumSectors \in Nat
      BY <1>3, <3>1
    <3> QED
      BY <1>4, <1>5, <3>1, <3>2
  <2>2. milestones' = milestones
    BY DEF Capture
  <2> QED
    BY <1>5, <2>1, <2>2 DEF PeakCovers
<1>11. SeenAsHeld'
  <2>1. ASSUME NEW s \in captured' PROVE quiet[s] = held'[s]
    <3>1. CASE s \in Taken
      BY <1>1, <3>1 DEF IInv, SeenAsHeld, Capture, Taken
    <3>2. CASE s \notin Taken
      BY <1>1, <3>2 DEF IInv, SeenAsHeld, Capture, TypeOK
    <3> QED
      BY <3>1, <3>2
  <2> QED
    BY <2>1 DEF SeenAsHeld, Capture
<1> QED
  BY <1>6, <1>7, <1>8, <1>9, <1>10, <1>11 DEF IInv
\* What comes back in a sector, and what is left over.
LEMMA RegrowCounts ==
  ASSUME TypeOK, CountsDots, NEW back \in SUBSET UNION {Bare(s) : s \in Exposed},
         NEW invaders \in InvaderCounts, Regrow(back, invaders), NEW s \in Sector
  PROVE  /\ count'[s] \in Nat /\ count[s] \in Nat /\ count'[s] = CountWith(s, back)
         /\ count'[s] = Cardinality(dots' \cap DotsIn[s])
         /\ s \notin Exposed => count'[s] = count[s]
         /\ LeftOver(s, back, invaders) \in 0..(DotCost - 1)
<1> DEFINE here == dots \cap DotsIn[s]
           new == back \cap DotsIn[s]
<1>1. back \subseteq Dot /\ back \cap dots = {}
  <2>1. \A e \in Exposed : e \in Sector
    BY DEF Exposed, TypeOK
  <2>2. \A e \in Exposed : Bare(e) \subseteq Dot /\ Bare(e) \cap dots = {}
    BY <2>1, DotsOf DEF Bare
  <2> QED
    BY <2>2
<1>2. here \in SUBSET Dot /\ new \in SUBSET Dot /\ here \cap new = {}
      /\ dots' \cap DotsIn[s] = here \cup new
  BY <1>1 DEF TypeOK, Regrow
<1> HIDE DEF here, new
<1>3. /\ IsFiniteSet(here) /\ Cardinality(here) \in Nat
      /\ IsFiniteSet(new) /\ Cardinality(new) \in Nat
  BY <1>2, DotsCount
<1>4. Cardinality(here \cup new) = Cardinality(here) + Cardinality(new)
  <2>1. Cardinality(here \cup new)
          = Cardinality(here) + Cardinality(new) - Cardinality(here \cap new)
    BY <1>3, FS_Union, Zenon
  <2>2. Cardinality(here \cap new) = 0
    BY <1>2, FS_EmptySet
  <2> QED
    BY <1>3, <2>1, <2>2
<1>5. count[s] = Cardinality(here) /\ CountWith(s, back) = count[s] + Cardinality(new)
  BY DEF CountsDots, CountWith, here, new
<1>6. count'[s] = CountWith(s, back)
  BY DEF Regrow
<1>7. s \notin Exposed => Cardinality(new) = 0
  BY DEF Regrow, GrowsBack, new
<1>8. LeftOver(s, back, invaders) \in 0..(DotCost - 1)
  <2>1. DotCost \in Nat \ {0} /\ acc[s] \in 0..(DotCost - 1)
    BY MatchAssumption DEF TypeOK
  <2>2. invaders[s] \in Nat
    BY MatchAssumption
  <2>3. NumCaptured \in Nat
    BY NumSectorsType DEF NumCaptured, TypeOK
  <2>4. RegenRate(Pressure(NumCaptured), invaders[s]) \in Nat
    BY <2>2, <2>3, PressureType, RegenRateType
  <2>5. Grown(s, invaders) \in Nat
    BY <2>1, <2>4 DEF Grown
  <2>6. Grown(s, invaders) % DotCost \in 0..(DotCost - 1)
    BY <2>1, <2>5, Division
  <2> QED
    BY <2>1, <2>6 DEF LeftOver
<1>9. count[s] \in Nat /\ count'[s] \in Nat /\ count'[s] = Cardinality(here \cup new)
  BY <1>3, <1>4, <1>5, <1>6
<1>10. s \notin Exposed => count'[s] = count[s]
  BY <1>3, <1>5, <1>6, <1>7
<1> QED
  BY <1>2, <1>6, <1>8, <1>9, <1>10

LEMMA RegrowInv ==
  ASSUME IInv, NEW back \in SUBSET UNION {Bare(s) : s \in Exposed},
         NEW invaders \in InvaderCounts, Regrow(back, invaders)
  PROVE  /\ IInv'
         /\ \A s \in Sector : count'[s] > count[s] =>
              quiet[s] >= GraceTicks[Pressure(NumCaptured)]
<1>1. TypeOK /\ CountsDots /\ clock > 0 /\ stage = "regrow"
  BY DEF IInv, TicksCounted, Regrow
<1>2. ASSUME NEW s \in Sector
      PROVE  /\ count'[s] \in Nat /\ count[s] \in Nat /\ count'[s] = CountWith(s, back)
             /\ count'[s] = Cardinality(dots' \cap DotsIn[s])
             /\ s \notin Exposed => count'[s] = count[s]
             /\ LeftOver(s, back, invaders) \in 0..(DotCost - 1)
  BY <1>1, RegrowCounts
<1>3. back \subseteq Dot
  <2>1. \A s \in Exposed : Bare(s) \subseteq Dot
    BY <1>1, DotsOf DEF Exposed, Bare, TypeOK
  <2> QED
    BY <2>1
<1>4. captured' \subseteq captured /\ captured \in SUBSET Sector
  BY <1>1 DEF Regrow, TypeOK
<1>5. TypeOK'
  <2>1. count' \in [Sector -> Nat]
    <3>1. count' = [s \in Sector |-> CountWith(s, back)]
      BY DEF Regrow
    <3> QED
      BY <1>2, <3>1
  <2>2. acc' \in [Sector -> 0..(DotCost - 1)]
    <3>1. acc' = [s \in Sector |-> LeftOver(s, back, invaders)]
      BY DEF Regrow
    <3> QED
      BY <1>2, <3>1
  <2>3. stage' \in Stage
    BY DEF Regrow, Stage
  <2> QED
    BY <1>1, <1>3, <1>4, <2>1, <2>2, <2>3 DEF TypeOK, Regrow
<1>6. CountsDots'
  BY <1>2 DEF CountsDots
<1>7. Hysteresis'
  <2>1. ASSUME NEW s \in captured' PROVE count'[s] <= LossLimit(s)
    <3>1. s \in Sector /\ s \in captured /\ s \notin Lost(back)
      BY <1>4 DEF Regrow
    <3>2. CASE s \in Exposed
      <4>1. count'[s] = CountWith(s, back) /\ count'[s] \in Nat /\ LossLimit(s) \in Nat
        BY <1>2, <3>1, ThresholdOrder
      <4>2. ~(CountWith(s, back) > LossLimit(s))
        BY <3>1, <3>2 DEF Lost
      <4> QED
        BY <4>1, <4>2
    <3>3. CASE s \notin Exposed
      <4>1. count'[s] = count[s]
        BY <1>2, <3>1, <3>3
      <4> QED
        BY <3>1, <4>1 DEF IInv, Hysteresis
    <3> QED
      BY <3>2, <3>3
  <2>2. ASSUME NEW s \in Sector \ captured' PROVE count'[s] > CaptureThreshold(s)
    <3>1. CASE s \in captured
      <4>1. s \in Lost(back)
        BY <3>1 DEF Regrow
      <4>2. CountWith(s, back) > LossLimit(s)
        BY <4>1 DEF Lost
      <4>3. count'[s] = CountWith(s, back) /\ count'[s] \in Nat
        BY <1>2
      <4>4. /\ CaptureThreshold(s) \in Nat /\ LossLimit(s) \in Nat
            /\ CaptureThreshold(s) <= LossLimit(s)
        BY ThresholdOrder
      <4> QED
        BY <4>2, <4>3, <4>4
    <3>2. CASE s \notin captured
      <4>1. s \notin Exposed
        BY <3>2 DEF Exposed
      <4>2. count'[s] = count[s]
        BY <1>2, <4>1
      <4>3. count[s] > CaptureThreshold(s)
        BY <1>1, <3>2 DEF IInv, Hysteresis
      <4> QED
        BY <4>2, <4>3
    <3> QED
      BY <3>1, <3>2
  <2> QED
    BY <2>1, <2>2 DEF Hysteresis
<1>8. OnlyOpenMatchesGoOn' /\ TicksCounted'
  BY <1>1 DEF OnlyOpenMatchesGoOn, TicksCounted, Regrow
<1>9. PeakCovers'
  <2>1. NumCaptured' <= NumCaptured
    <3>1. IsFiniteSet(captured)
      BY <1>4, NumSectorsType
    <3> QED
      BY <1>4, <3>1, FS_Subset DEF NumCaptured
  <2>2. NumCaptured \in Nat /\ NumCaptured' \in Nat
    <3>1. captured' \in SUBSET Sector
      BY <1>4
    <3> QED
      BY <1>4, <3>1, NumSectorsType DEF NumCaptured
  <2>3. peak \in Nat /\ NumCaptured <= peak /\ peak' = peak /\ milestones' = milestones
    BY <1>1, NumSectorsType DEF TypeOK, IInv, PeakCovers, Regrow
  <2> QED
    BY <2>1, <2>2, <2>3 DEF IInv, PeakCovers
<1>10. SeenAsHeld'
  BY <1>4 DEF IInv, SeenAsHeld, Regrow
<1>11. ASSUME NEW s \in Sector, count'[s] > count[s]
       PROVE  quiet[s] >= GraceTicks[Pressure(NumCaptured)]
  <2>1. s \in Exposed
    <3>1. count'[s] # count[s]
      <4>1. count[s] \in Nat /\ count'[s] \in Nat
        BY <1>2
      <4> QED
        BY <1>11, <4>1
    <3> QED
      BY <1>2, <3>1
  <2> QED
    BY <2>1 DEF Exposed, IInv, SeenAsHeld
<1> QED
  BY <1>5, <1>6, <1>7, <1>8, <1>9, <1>10, <1>11 DEF IInv

LEMMA EverySecondInv ==
  ASSUME IInv, NEW population \in NewPopulation, EverySecond(population)
  PROVE  IInv'
<1>1. TypeOK
  BY DEF IInv
<1>2. /\ NumSectors \in Nat /\ NumCaptured \in Nat /\ peak \in Nat
      /\ ghosts \in MinGhosts..MaxGhosts
  BY <1>1, NumSectorsType DEF TypeOK, NumCaptured
<1>3. population \in MinGhosts..MaxGhosts
  <2> DEFINE target == GhostTarget(standing, NumCaptured)
  <2>1. standing \in Nat
    BY <1>1, MatchAssumption DEF TypeOK
  <2>2. target \in MinGhosts..MaxGhosts
    BY <1>2, <2>1, GhostTargetType
  <2>3. population \in IF ghosts <= target THEN ghosts..(ghosts + Upto(target - ghosts, 3))
                       ELSE {ghosts - Upto(ghosts - target, 2)}
    BY DEF NewPopulation
  <2> HIDE DEF target
  <2> QED
    BY <1>2, <2>2, <2>3, MaxGhostsType DEF Upto
<1>4. milestones' \in SUBSET Milestone
  BY <1>1 DEF TypeOK, EverySecond, Reached
<1>5. TypeOK'
  BY <1>1, <1>3, <1>4 DEF TypeOK, EverySecond, Stage
<1>6. PeakCovers'
  <2>1. ASSUME NEW m \in Reached(NumCaptured) PROVE 100 * peak >= m * NumSectors
    <3>1. m \in Nat /\ 100 * NumCaptured >= m * NumSectors
      BY DEF Reached, Milestone
    <3>2. m * NumSectors \in Nat
      BY <1>2, <3>1
    <3>3. NumCaptured <= peak
      BY DEF IInv, PeakCovers
    <3> QED
      BY <1>2, <3>1, <3>2, <3>3
  <2>2. NumCaptured' = NumCaptured /\ peak' = peak
        /\ milestones' = milestones \cup Reached(NumCaptured)
    BY DEF EverySecond, NumCaptured
  <2> QED
    BY <2>1, <2>2 DEF IInv, PeakCovers
<1>7. CountsDots' /\ Hysteresis' /\ OnlyOpenMatchesGoOn' /\ SeenAsHeld' /\ TicksCounted'
  BY DEF IInv, EverySecond, CountsDots, Hysteresis, OnlyOpenMatchesGoOn, SeenAsHeld,
         TicksCounted
<1> QED
  BY <1>5, <1>6, <1>7 DEF IInv

LEMMA CheckGameOverInv ==
  ASSUME IInv, CheckGameOver
  PROVE  IInv'
<1>1. TypeOK
  BY DEF IInv
<1>2. TypeOK'
  BY <1>1 DEF TypeOK, CheckGameOver, Verdict, Stage, Reason
<1>3. OnlyOpenMatchesGoOn'
  <2> SUFFICES ASSUME stage' = "moves"
               PROVE  clock < TimeLimit /\ standing > 0 /\ captured # Sector
    BY DEF OnlyOpenMatchesGoOn, CheckGameOver
  <2>1. Verdict = "none"
    BY DEF CheckGameOver
  <2>2. /\ ~(clock >= TimeLimit) /\ standing # 0
        /\ ~(1000 * NumCaptured >= 995 * NumSectors)
    BY <2>1 DEF Verdict
  <2>3. clock \in Nat /\ TimeLimit \in Nat /\ standing \in Nat /\ NumSectors \in Nat
    BY <1>1, MatchAssumption, NumSectorsType DEF TypeOK
  <2>4. captured = Sector => NumCaptured = NumSectors
    BY DEF NumCaptured, NumSectors
  <2> QED
    BY <2>2, <2>3, <2>4
<1>4. CountsDots' /\ Hysteresis' /\ SeenAsHeld' /\ TicksCounted' /\ PeakCovers'
  BY DEF IInv, CheckGameOver, CountsDots, Hysteresis, SeenAsHeld, TicksCounted,
         PeakCovers, NumCaptured
<1> QED
  BY <1>2, <1>3, <1>4 DEF IInv

LEMMA NextInv ==
  IInv /\ [Next]_vars =>
    /\ IInv'
    /\ [\A s \in Sector : count'[s] > count[s] =>
          quiet[s] >= GraceTicks[Pressure(NumCaptured)]]_vars
<1> SUFFICES ASSUME IInv, [Next]_vars
             PROVE  /\ IInv'
                    /\ vars' = vars \/ \A s \in Sector : count'[s] > count[s] =>
                         quiet[s] >= GraceTicks[Pressure(NumCaptured)]
  OBVIOUS
<1>1. \A s \in Sector : count[s] \in Nat
  BY DEF IInv, TypeOK
<1>2. CASE \E eaten \in SUBSET dots, left \in 0..NumPlayers : Moves(eaten, left)
  <2>1. IInv' /\ \A s \in Sector : count'[s] <= count[s]
    BY <1>2, MovesInv
  <2>2. \A s \in Sector : count'[s] \in Nat
    BY <2>1 DEF IInv, TypeOK
  <2> QED
    BY <1>1, <2>1, <2>2
<1>3. ASSUME count' = count PROVE \A s \in Sector : ~(count'[s] > count[s])
  BY <1>1, <1>3
<1>4. CASE Capture
  BY <1>3, <1>4, CaptureInv DEF Capture
<1>5. CASE \E back \in SUBSET UNION {Bare(s) : s \in Exposed}, invaders \in InvaderCounts :
             Regrow(back, invaders)
  BY <1>5, RegrowInv
<1>6. CASE \E population \in NewPopulation : EverySecond(population)
  BY <1>3, <1>6, EverySecondInv DEF EverySecond
<1>7. CASE CheckGameOver
  BY <1>3, <1>7, CheckGameOverInv DEF CheckGameOver
<1>8. CASE UNCHANGED vars
  BY <1>8 DEF vars, IInv, TypeOK, CountsDots, Hysteresis, OnlyOpenMatchesGoOn, PeakCovers,
             SeenAsHeld, TicksCounted, NumCaptured
<1> QED
  BY <1>2, <1>4, <1>5, <1>6, <1>7, <1>8 DEF Next

-----------------------------------------------------------------------------
\* The inductive invariant holds in every state.
THEOREM Invariance == Spec => []IInv
<1>1. IInv /\ [Next]_vars => IInv'
  BY NextInv
<1> QED
  BY <1>1, InitInv, PTL DEF Spec

\* The variables stay in their ranges: the accumulators below one dot, the
\* ghosts within the limits of the match.
THEOREM TypeCorrect == Spec => []TypeOK
<1>1. IInv => TypeOK
  BY DEF IInv
<1> QED
  BY <1>1, Invariance, PTL

\* The counters of the sectors are the numbers of dots that lie in them.
THEOREM CountsCorrect == Spec => []CountsDots
<1>1. IInv => CountsDots
  BY DEF IInv
<1> QED
  BY <1>1, Invariance, PTL

\* Capture and loss form a hysteresis, for every share of dots they use.
THEOREM HysteresisCorrect == Spec => []Hysteresis
<1>1. IInv => Hysteresis
  BY DEF IInv
<1> QED
  BY <1>1, Invariance, PTL

\* Only undecided matches go on.
THEOREM VerdictInTime == Spec => []OnlyOpenMatchesGoOn
<1>1. IInv => OnlyOpenMatchesGoOn
  BY DEF IInv
<1> QED
  BY <1>1, Invariance, PTL

\* The peak covers every capture and every milestone.
THEOREM PeakCorrect == Spec => []PeakCovers
<1>1. IInv => PeakCovers
  BY DEF IInv
<1> QED
  BY <1>1, Invariance, PTL

\* Dots come back only after the grace.
THEOREM GraceCorrect == Spec => GraceKept
<1>1. IInv /\ [Next]_vars =>
        [\A s \in Sector : count'[s] > count[s] =>
           quiet[s] >= GraceTicks[Pressure(NumCaptured)]]_vars
  BY NextInv
<1> QED
  BY <1>1, Invariance, PTL DEF Spec, GraceKept

=============================================================================
