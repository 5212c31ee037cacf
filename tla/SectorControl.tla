---------------------------- MODULE SectorControl ----------------------------
(***************************************************************************)
(* The sectors of a match and its outcome, as the Rust engine moves them   *)
(* on (rust/server/src/engine): players eat the dots of a sector until it  *)
(* is captured, dots grow back in captured sectors until they are lost,    *)
(* the ghost population follows, and each tick ends with the verdict.      *)
(*                                                                         *)
(* `GameEngine::step` runs under the server's mutex.  A tick is a sequence *)
(* of stages, one action each.  What players and ghosts do in a tick       *)
(* (PlayerLife) is here only the dots eaten, the number of players left    *)
(* standing and the number of invaders in each sector.                     *)
(*                                                                         *)
(* Shares of sectors and of dots are compared in whole numbers where the   *)
(* code divides in f32: 100 * captured > 30 * sectors for ratio > 0.3.     *)
(* The fraction of a dot that has grown in a sector is counted in units,   *)
(* DotCost of them to a dot, so that it is exact.                          *)
(***************************************************************************)
EXTENDS Integers, FiniteSets

CONSTANTS
  NumPlayers, Difficulty,
  Sector, Dot,
  DotsIn,          \* sector -> its respawn_candidates, where dots start
  InvaderCounts,   \* sector -> invaders: the counts that occur
  TickRate,        \* ticks per second
  GraceTicks,      \* pressure band -> ticks a captured sector is left alone
  DotCost,         \* units of growth in a dot
  TimeLimit, CollapseAfter

\* get_map_side_by_player_count
Side ==
  IF NumPlayers <= 5 THEN 2 ELSE IF NumPlayers <= 15 THEN 3
  ELSE IF NumPlayers <= 30 THEN 4 ELSE IF NumPlayers <= 60 THEN 5 ELSE 6

NumSectors == Cardinality(Sector)
Band == 1..6

ASSUME MatchAssumption ==
  /\ NumPlayers \in Nat \ {0}
  /\ Difficulty \in {"casual", "normal", "hard", "nightmare"}
  /\ IsFiniteSet(Sector) /\ NumSectors = Side * Side
  /\ TickRate \in Nat \ {0} /\ DotCost \in Nat \ {0}
  /\ TimeLimit \in Nat /\ CollapseAfter \in Nat
  /\ InvaderCounts \subseteq [Sector -> Nat]

ASSUME DotsAssumption ==
  /\ IsFiniteSet(Dot)
  /\ DotsIn \in [Sector -> SUBSET Dot]
  /\ \A s, t \in Sector : s # t => DotsIn[s] \cap DotsIn[t] = {}

\* The grace gets shorter as more of the map is captured.
ASSUME GraceAssumption ==
  /\ GraceTicks \in [Band -> Nat]
  /\ \A b, c \in Band : b <= c => GraceTicks[c] <= GraceTicks[b]

VARIABLES
  dots,        \* world.dots
  count,       \* sector -> view.dot_count
  captured,    \* the sectors with view.captured
  held,        \* sector -> ticks since captured_at, up to the longest grace
  acc,         \* sector -> regen_accumulator
  peak,        \* max_capture_ratio, as a number of sectors
  milestones,  \* milestone_emitted
  ghosts,      \* ghosts.len()
  standing,    \* players that are not down
  clock,       \* elapsed_ms, in ticks
  stage,       \* where `step` is, or "over"
  reason,      \* end_reason
  quiet        \* sector -> ticks it was seen captured at the start of, since
               \* it last was not, up to the longest grace; not in the code

vars == <<dots, count, captured, held, acc, peak, milestones, ghosts, standing,
          clock, stage, reason, quiet>>

LongestGrace == GraceTicks[1]
Upto(n, limit) == IF n <= limit THEN n ELSE limit
Larger(m, n) == IF m >= n THEN m ELSE n

-----------------------------------------------------------------------------
(* The numbers of the match.                                               *)

LargeParty == NumPlayers \in 80..100
TenCasual == NumPlayers = 10 /\ Difficulty = "casual"
FiveCasual == NumPlayers = 5 /\ Difficulty = "casual"

Total(s) == Cardinality(DotsIn[s])

CapturePercent == IF LargeParty THEN 35 ELSE IF FiveCasual THEN 20 ELSE 0
LossPercent == IF LargeParty THEN 45 ELSE IF FiveCasual THEN 25 ELSE 5

CaptureThreshold(s) == (Total(s) * CapturePercent) \div 100
LossLimit(s) == Larger((Total(s) * LossPercent) \div 100, 1)

\* get_capture_pressure: the band of a number of captured sectors, and how
\* fast dots grow in it, in tenths.
PressureLimit == <<30, 50, 70, 85, 95>>
Pressure(n) == 1 + Cardinality({i \in 1..5 : 100 * n > PressureLimit[i] * NumSectors})

Growth == <<10, 13, 18, 25, 35, 50>>

\* get_difficulty_multiplier and large_party_regen_relief_factor, in percent.
DifficultyPercent ==
  [casual |-> 60, normal |-> 100, hard |-> 140, nightmare |-> 200][Difficulty]

ReliefPercent ==
  IF LargeParty THEN 5 ELSE IF TenCasual THEN 65 ELSE IF FiveCasual THEN 45 ELSE 100

\* The units that grow in one tick: every invader adds two fifths.
RegenRate(band, invaders) ==
  Growth[band] * DifficultyPercent * ReliefPercent * (5 + 2 * invaders)

\* get_initial_ghost_count, which is also max_ghosts.
MaxGhosts ==
  IF NumPlayers <= 1 THEN 4 ELSE IF NumPlayers <= 5 THEN 8
  ELSE IF NumPlayers <= 15 THEN 20 ELSE IF NumPlayers <= 30 THEN 40
  ELSE IF NumPlayers <= 60 THEN 65 ELSE 100

MinGhosts == 4

\* large_party_ghost_target_profile, in percent.
Profile ==
  IF LargeParty THEN [base |-> 20, active |-> 45, ratio |-> 20, most |-> 60]
  ELSE IF TenCasual THEN [base |-> 25, active |-> 58, ratio |-> 25, most |-> 62]
  ELSE IF FiveCasual THEN [base |-> 20, active |-> 72, ratio |-> 18, most |-> 75]
  ELSE [base |-> 50, active |-> 100, ratio |-> 70, most |-> 100]

\* The ghosts wanted with a number of players standing and n sectors captured:
\* the larger of two shares, rounded to the nearest number, within its limits.
GhostTarget(active, n) ==
  LET share == Larger(MaxGhosts * Profile.base * NumSectors,
                      active * (Profile.active * NumSectors + Profile.ratio * n))
      nearest == (2 * share + 100 * NumSectors) \div (200 * NumSectors)
  IN  Larger(MinGhosts, Upto(nearest, (MaxGhosts * Profile.most) \div 100))

-----------------------------------------------------------------------------

Milestone == {20, 40, 60, 80, 90}
Stage == {"moves", "capture", "regrow", "second", "verdict", "over"}
Reason == {"none", "timeout", "all_down", "victory", "collapse"}

\* The ranges of the variables.  No sector ever keeps a whole dot that has
\* grown and was not put down, and the ghosts stay within the match's limits.
TypeOK ==
  /\ dots \in SUBSET Dot
  /\ count \in [Sector -> Nat]
  /\ captured \in SUBSET Sector
  /\ held \in [Sector -> 0..LongestGrace]
  /\ acc \in [Sector -> 0..(DotCost - 1)]
  /\ peak \in 0..NumSectors
  /\ milestones \in SUBSET Milestone
  /\ ghosts \in MinGhosts..MaxGhosts
  /\ standing \in 0..NumPlayers
  /\ clock \in Nat
  /\ stage \in Stage /\ reason \in Reason
  /\ quiet \in [Sector -> 0..LongestGrace]

\* `captured_at` is 0 at first, and the engine's clock the time of day.
Init ==
  /\ dots = UNION {DotsIn[s] : s \in Sector}
  /\ count = [s \in Sector |-> Total(s)]
  /\ captured = {}
  /\ held = [s \in Sector |-> LongestGrace]
  /\ acc = [s \in Sector |-> 0]
  /\ peak = 0 /\ milestones = {}
  /\ ghosts = MaxGhosts
  /\ standing = NumPlayers
  /\ clock = 0 /\ stage = "moves" /\ reason = "none"
  /\ quiet = [s \in Sector |-> 0]

-----------------------------------------------------------------------------
(* A tick begins: the clock moves on, and the players and the ghosts move. *)
(* Each standing player eats at most one dot, and some of the players are  *)
(* standing afterwards.                                                    *)

EatenIn(s, eaten) == Cardinality(eaten \cap DotsIn[s])

Moves(eaten, left) ==
  /\ stage = "moves"
  /\ Cardinality(eaten) <= standing
  /\ clock' = clock + 1
  /\ dots' = dots \ eaten
  /\ count' = [s \in Sector |-> Larger(count[s] - EatenIn(s, eaten), 0)]
  /\ standing' = left
  /\ held' = [s \in Sector |-> Upto(held[s] + 1, LongestGrace)]
  /\ quiet' = [s \in Sector |->
                 IF s \in captured THEN Upto(quiet[s] + 1, LongestGrace) ELSE 0]
  /\ stage' = "capture"
  /\ UNCHANGED <<captured, acc, peak, milestones, ghosts, reason>>

-----------------------------------------------------------------------------
(* update_sector_control: first the sectors that fall to the players.      *)

Taken == {s \in Sector \ captured : count[s] <= CaptureThreshold(s)}

\* Mutant: the time of the capture is not written down.
CaptureUndated ==
  /\ stage = "capture"
  /\ captured' = captured \cup Taken
  /\ acc' = [s \in Sector |-> IF s \in Taken THEN 0 ELSE acc[s]]
  /\ peak' = Larger(peak, Cardinality(captured \cup Taken))
  /\ stage' = "regrow"
  /\ UNCHANGED <<dots, count, held, milestones, ghosts, standing, clock, reason, quiet>>

Capture ==
  /\ stage = "capture"
  /\ captured' = captured \cup Taken
  /\ held' = [s \in Sector |-> IF s \in Taken THEN 0 ELSE held[s]]
  /\ acc' = [s \in Sector |-> IF s \in Taken THEN 0 ELSE acc[s]]
  /\ peak' = Larger(peak, Cardinality(captured \cup Taken))
  /\ stage' = "regrow"
  /\ UNCHANGED <<dots, count, milestones, ghosts, standing, clock, reason, quiet>>

(* Then the dots that grow back where the grace is over, in any free cells *)
(* of the sector, and the sectors lost to them.                            *)

NumCaptured == Cardinality(captured)
Exposed == {s \in captured : held[s] >= GraceTicks[Pressure(NumCaptured)]}

\* Mutant: a dot may come back where there is one.
BareOrNot(s) == DotsIn[s]

Bare(s) == DotsIn[s] \ dots
Grown(s, invaders) == acc[s] + RegenRate(Pressure(NumCaptured), invaders[s])
Due(s, invaders) == Grown(s, invaders) \div DotCost

\* The dots of `back` in s are those the loop puts down there.
GrowsBack(s, back, invaders) ==
  Cardinality(back \cap DotsIn[s]) =
    IF s \in Exposed THEN Upto(Due(s, invaders), Cardinality(Bare(s))) ELSE 0

CountWith(s, back) == count[s] + Cardinality(back \cap DotsIn[s])

\* Mutant: a sector is judged by the dots it had before some came back.
LostByOldCount(back) == {s \in Exposed : count[s] > LossLimit(s)}

Lost(back) == {s \in Exposed : CountWith(s, back) > LossLimit(s)}

\* Mutant: what no cell was free for is kept.
LeftOverKept(s, back, invaders) ==
  IF s \notin captured \ Lost(back) THEN 0
  ELSE IF s \notin Exposed THEN acc[s]
  ELSE Grown(s, invaders) - DotCost * Cardinality(back \cap DotsIn[s])

LeftOver(s, back, invaders) ==
  IF s \notin captured \ Lost(back) THEN 0
  ELSE IF s \notin Exposed THEN acc[s]
  ELSE IF Due(s, invaders) > Cardinality(Bare(s)) THEN 0
  ELSE Grown(s, invaders) % DotCost

Regrow(back, invaders) ==
  /\ stage = "regrow"
  /\ \A s \in Sector : GrowsBack(s, back, invaders)
  /\ dots' = dots \cup back
  /\ count' = [s \in Sector |-> CountWith(s, back)]
  /\ captured' = captured \ Lost(back)
  /\ acc' = [s \in Sector |-> LeftOver(s, back, invaders)]
  /\ stage' = IF clock % TickRate = 0 THEN "second" ELSE "verdict"
  /\ UNCHANGED <<held, peak, milestones, ghosts, standing, clock, reason, quiet>>

-----------------------------------------------------------------------------
(* Once a second, adjust_ghost_population and emit_progress_milestones.    *)

\* A ghost that finds no cell to appear in does not come.
NewPopulation ==
  LET target == GhostTarget(standing, NumCaptured)
  IN  IF ghosts <= target THEN ghosts..(ghosts + Upto(target - ghosts, 3))
      ELSE {ghosts - Upto(ghosts - target, 2)}

Reached(n) == {m \in Milestone : 100 * n >= m * NumSectors}

EverySecond(population) ==
  /\ stage = "second"
  /\ ghosts' = population
  /\ milestones' = milestones \cup Reached(NumCaptured)
  /\ stage' = "verdict"
  /\ UNCHANGED <<dots, count, captured, held, acc, peak, standing, clock, reason, quiet>>

-----------------------------------------------------------------------------
(* check_game_over.                                                        *)

Collapsed ==
  /\ 100 * peak >= 70 * NumSectors
  /\ 100 * NumCaptured <= 12 * NumSectors
  /\ clock >= CollapseAfter

\* More than 99.5% of at most 36 sectors are all of them.
\* Mutant: a match in which nobody stands goes on while the map is held.
VerdictOfTheMap ==
  IF clock >= TimeLimit THEN "timeout"
  ELSE IF standing = 0 /\ captured = {} THEN "all_down"
  ELSE IF 1000 * NumCaptured >= 995 * NumSectors THEN "victory"
  ELSE IF Collapsed THEN "collapse" ELSE "none"

Verdict ==
  IF clock >= TimeLimit THEN "timeout"
  ELSE IF standing = 0 THEN "all_down"
  ELSE IF 1000 * NumCaptured >= 995 * NumSectors THEN "victory"
  ELSE IF Collapsed THEN "collapse" ELSE "none"

CheckGameOver ==
  /\ stage = "verdict"
  /\ reason' = Verdict
  /\ stage' = IF Verdict = "none" THEN "moves" ELSE "over"
  /\ UNCHANGED <<dots, count, captured, held, acc, peak, milestones, ghosts, standing,
                 clock, quiet>>

Next ==
  \/ \E eaten \in SUBSET dots, left \in 0..NumPlayers : Moves(eaten, left)
  \/ Capture
  \/ \E back \in SUBSET UNION {Bare(s) : s \in Exposed}, invaders \in InvaderCounts : Regrow(back, invaders)
  \/ \E population \in NewPopulation : EverySecond(population)
  \/ CheckGameOver

Spec == Init /\ [][Next]_vars

-----------------------------------------------------------------------------
\* A sector's counter, which decides over capture and loss, is the number of
\* dots that lie in it, whatever the players ate and wherever dots came back.
CountsDots == \A s \in Sector : count[s] = Cardinality(dots \cap DotsIn[s])

\* The two thresholds work as a hysteresis: no captured sector has more dots
\* than a loss takes, and none that is open to capture is left with so few
\* that it counts as captured, once the tick's capture loop has run.
Hysteresis ==
  /\ \A s \in captured : count[s] <= LossLimit(s)
  /\ clock > 0 /\ stage # "capture" =>
       \A s \in Sector \ captured : count[s] > CaptureThreshold(s)

\* A match goes on from one tick to the next only while it is undecided:
\* there is time left, somebody stands, and a sector is open.
OnlyOpenMatchesGoOn ==
  stage = "moves" /\ clock > 0 =>
    clock < TimeLimit /\ standing > 0 /\ captured # Sector

\* max_capture_ratio has seen every capture, those of sectors lost in the same
\* tick included, and no milestone is announced that it does not cover.
PeakCovers ==
  /\ NumCaptured <= peak
  /\ \A m \in milestones : 100 * peak >= m * NumSectors

\* Dots come back only in a sector that has been captured for the grace of the
\* present pressure, counted anew at each time it is captured.
GraceKept ==
  [][\A s \in Sector : count'[s] > count[s] =>
       quiet[s] >= GraceTicks[Pressure(NumCaptured)]]_vars

-----------------------------------------------------------------------------
(* What the documents promise and the code does not keep.                  *)

\* docs/game_design.md 7.2: the moment all sectors are captured at the same
\* time, the match is won.
AllCapturedWins ==
  stage = "over" /\ captured = Sector => reason = "victory"

=============================================================================
