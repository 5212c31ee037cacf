---------------------------- MODULE ArenaProofs ----------------------------
(***************************************************************************)
(* Proofs about Arena, for any maps that are as world.ts makes them, any   *)
(* number of players and ghosts and any durations.  What the records of    *)
(* the players satisfy is kept by every operator on them, one lemma each;  *)
(* what is left for the actions is the order of the turns in a tick.       *)
(***************************************************************************)
EXTENDS Arena, Integers, TLAPS, FiniteSetTheorems, SequenceTheorems

\* What the record of a player satisfies at any time.
Good(s) ==
  /\ s \in PlayerRecord
  /\ s.power > 0 => s.state = "power"
  /\ s.grace > 0 => s.state # "down"
  /\ s.state # "down" => s.down = 0

\* What it satisfies once the player had its turn in the tick.
Turned(s) ==
  /\ s.state = "power" => s.power > 0
  /\ s.state = "down" => s.down < RescueTicks

\* The players, those in W with their turns still to come.
Party(P, W) ==
  /\ P \in [Player -> PlayerRecord]
  /\ \A p \in Player : Good(P[p]) /\ (p \notin W => Turned(P[p]))

\* Nobody is elsewhere, nobody has gone down.
Kept(P, Q) ==
  \A p \in Player :
    Q[p].cell = P[p].cell /\ (Standing(P, p) => Standing(Q, p))

-----------------------------------------------------------------------------
(* The map.                                                                *)

LEMMA BoardFacts ==
  ASSUME board \in Boards
  PROVE  /\ IsFiniteSet(Cell)
         /\ board.next \in [Cell -> SUBSET Cell]
         /\ board.dist \in [Cell -> [Cell -> Nat]]
         /\ Player = 1..Len(board.home) /\ Len(board.home) \in Nat \ {0}
         /\ \A p \in Player : board.home[p] \in board.spawns
         /\ Ghost = 1..Len(board.kind) /\ Len(board.kind) \in Nat
         /\ board.spawns \subseteq Cell
         /\ board.ghostSpawns \subseteq board.births /\ board.births \subseteq Cell
         /\ board.sector \in [Cell -> Nat]
         /\ board.dots \subseteq Cell /\ board.pellets \subseteq Cell
         /\ \A f \in board.fruits : f.cell \in Cell /\ f.type \in FruitType
<1>1. Board(board)
  BY BoardsAssumption
<1>2. board.home \in Seq(board.spawns) /\ board.home # <<>> /\ board.kind \in Seq(Kind)
  BY <1>1 DEF Board
<1>3. /\ Player = 1..Len(board.home) /\ Len(board.home) \in Nat \ {0}
      /\ \A p \in Player : board.home[p] \in board.spawns
  BY <1>2 DEF Player
<1>4. Ghost = 1..Len(board.kind) /\ Len(board.kind) \in Nat
  BY <1>2 DEF Ghost
<1>5. \A f \in board.fruits : f.cell \in Cell /\ f.type \in FruitType
  BY <1>1 DEF Board, Cell
<1> QED
  BY <1>1, <1>3, <1>4, <1>5 DEF Board, Cell

\* A gate is between two cells, nobody starts at it, and its switches are elsewhere.
LEMMA GateFacts ==
  ASSUME board \in Boards, NEW g \in Gate
  PROVE  LET b == board.gates[g] IN
         /\ b.a # b.b /\ b.switchA # b.switchB
         /\ {b.a, b.b} \cap {b.switchA, b.switchB} = {}
         /\ {b.a, b.b} \cap (board.spawns \cup board.ghostSpawns) = {}
         /\ {b.a, b.b} \subseteq GateCells
<1>1. Apart(board)
  BY BoardsAssumption
<1> DEFINE b == board.gates[g]
<1>2. /\ b.a \notin {b.b, b.switchA, b.switchB}
      /\ b.b \notin {b.switchA, b.switchB} /\ b.switchA # b.switchB
      /\ {b.a, b.b, b.switchA, b.switchB}
            \cap (board.spawns \cup board.ghostSpawns \cup board.dots \cup board.pellets) = {}
  BY <1>1 DEF Apart, Gate
<1>3. {b.a, b.b} \subseteq GateCells
  BY DEF GateCells
<1> HIDE DEF b
<1>4. /\ b.a # b.b /\ b.switchA # b.switchB
      /\ {b.a, b.b} \cap {b.switchA, b.switchB} = {}
      /\ {b.a, b.b} \cap (board.spawns \cup board.ghostSpawns) = {}
      /\ {b.a, b.b} \subseteq GateCells
  BY <1>2, <1>3
<1> QED
  BY <1>4 DEF b

-----------------------------------------------------------------------------
(* The operators on records.                                               *)

LEMMA OlderGood ==
  ASSUME NEW s, Good(s), Turned(s)
  PROVE  Good(Older(s)) /\ Older(s).state = s.state /\ Older(s).cell = s.cell
<1>1. s \in PlayerRecord
  BY DEF Good
<1>2. Less(s.power) \in Nat /\ Less(s.grace) \in Nat
  BY <1>1 DEF Less, PlayerRecord
<1>3. s.state = "down" => s.down + 1 \in 0..RescueTicks
  BY <1>1, NumbersAssumption DEF Turned, PlayerRecord
<1>4. 0 \in 0..RescueTicks
  BY NumbersAssumption
<1>5. Older(s) \in PlayerRecord
  BY <1>1, <1>2, <1>3, <1>4 DEF Older, PlayerRecord
<1> QED
  BY <1>1, <1>2, <1>5 DEF Older, Good, Turned, PlayerRecord, Less

LEMMA RevivedGood ==
  ASSUME NEW s \in PlayerRecord, NEW grace \in Nat
  PROVE  /\ Good(Revived(s, grace)) /\ Turned(Revived(s, grace))
         /\ Revived(s, grace).state = "normal" /\ Revived(s, grace).cell = s.cell
<1> DEFINE r == Revived(s, grace)
<1>1. 0 \in 0..RescueTicks /\ 0 \in Nat
  BY NumbersAssumption
<1>2. r \in PlayerRecord
  BY <1>1 DEF Revived, PlayerRecord
<1>3. r.state = "normal" /\ r.power = 0 /\ r.down = 0 /\ r.cell = s.cell
  BY DEF Revived, PlayerRecord
<1> HIDE DEF r
<1>4. Good(r) /\ Turned(r)
  BY <1>2, <1>3 DEF Good, Turned
<1> QED
  BY <1>3, <1>4 DEF r

LEMMA PenalisedRecord ==
  ASSUME NEW s \in PlayerRecord
  PROVE  Penalised(s) \in PlayerRecord
<1>1. Less(s.stocks) \in 0..MaxAwakenStock /\ 0 \in 0..DotsForAwaken
  BY NumbersAssumption DEF Less, PlayerRecord
<1> QED
  BY <1>1 DEF Penalised, PlayerRecord

LEMMA ExpiredGood ==
  ASSUME NEW s, Good(s), s.state # "down"
  PROVE  /\ Good(Expired(s)) /\ Turned(Expired(s))
         /\ Expired(s).state # "down" /\ Expired(s).cell = s.cell
BY DEF Expired, Good, Turned, PlayerRecord

LEMMA FedGood ==
  ASSUME NEW s, Good(s), Turned(s)
  PROVE  /\ Good(Fed(s)) /\ Turned(Fed(s))
         /\ Fed(s).state = s.state /\ Fed(s).cell = s.cell
<1>1. /\ s \in PlayerRecord /\ s.gauge \in 0..DotsForAwaken
      /\ s.stocks \in 0..MaxAwakenStock
  BY DEF Good, PlayerRecord
<1>2. CASE s.stocks = MaxAwakenStock
  <2>1. DotsForAwaken \in 0..DotsForAwaken
    BY NumbersAssumption
  <2> QED
    BY <1>1, <1>2, <2>1 DEF Fed, Good, Turned, PlayerRecord
<1>3. CASE s.stocks # MaxAwakenStock /\ s.gauge + 1 >= DotsForAwaken
  <2>1. s.stocks + 1 \in 0..MaxAwakenStock /\ 0 \in 0..DotsForAwaken
    BY <1>1, <1>3, NumbersAssumption
  <2> QED
    BY <1>1, <1>3, <2>1 DEF Fed, Good, Turned, PlayerRecord
<1>4. CASE s.stocks # MaxAwakenStock /\ ~(s.gauge + 1 >= DotsForAwaken)
  <2>1. s.gauge + 1 \in 0..DotsForAwaken
    BY <1>1, <1>4, NumbersAssumption
  <2> QED
    BY <1>1, <1>4, <2>1 DEF Fed, Good, Turned, PlayerRecord
<1> QED
  BY <1>2, <1>3, <1>4

LEMMA StockedGood ==
  ASSUME NEW s, Good(s), Turned(s)
  PROVE  /\ Good(Stocked(s)) /\ Turned(Stocked(s))
         /\ Stocked(s).state = s.state /\ Stocked(s).cell = s.cell
<1>1. s \in PlayerRecord /\ s.stocks \in 0..MaxAwakenStock
  BY DEF Good, PlayerRecord
<1>2. CASE s.stocks < MaxAwakenStock
  <2>1. s.stocks + 1 \in 0..MaxAwakenStock
    BY <1>1, <1>2, NumbersAssumption
  <2> QED
    BY <1>1, <1>2, <2>1 DEF Stocked, Good, Turned, PlayerRecord
<1>3. CASE ~(s.stocks < MaxAwakenStock)
  <2>1. DotsForAwaken \in 0..DotsForAwaken
    BY NumbersAssumption
  <2> QED
    BY <1>1, <1>3, <2>1 DEF Stocked, Good, Turned, PlayerRecord
<1> QED
  BY <1>2, <1>3

LEMMA DownedGood ==
  ASSUME NEW s \in PlayerRecord
  PROVE  Good(Downed(s)) /\ Turned(Downed(s)) /\ Downed(s).cell = s.cell
<1> DEFINE r == Downed(s)
<1>1. 0 \in 0..RescueTicks /\ 0 \in Nat /\ 0 < RescueTicks
  BY NumbersAssumption
<1>2. r \in PlayerRecord
  BY <1>1 DEF Downed, PlayerRecord
<1>3. r.state = "down" /\ r.power = 0 /\ r.down = 0 /\ r.grace = 0 /\ r.cell = s.cell
  BY DEF Downed, PlayerRecord
<1> HIDE DEF r
<1>4. Good(r) /\ Turned(r)
  BY <1>1, <1>2, <1>3 DEF Good, Turned
<1> QED
  BY <1>3, <1>4 DEF r

\* A record to which power comes.
LEMMA PoweredGood ==
  ASSUME NEW s, Good(s), s.state # "down", NEW ticks \in Nat \ {0}, NEW again \in BOOLEAN
  PROVE  LET t == [s EXCEPT !.state = "power", !.power = Larger(@, ticks),
                            !.wide = @ /\ again]
         IN  Good(t) /\ Turned(t) /\ t.state = "power" /\ t.cell = s.cell
<1>1. s \in PlayerRecord /\ s.power \in Nat /\ s.wide \in BOOLEAN
  BY DEF Good, PlayerRecord
<1>2. (s.wide /\ again) \in BOOLEAN
  BY <1>1, Zenon
<1>3. Larger(s.power, ticks) \in Nat \ {0}
  BY <1>1 DEF Larger
<1> DEFINE w == s.wide /\ again
           n == Larger(s.power, ticks)
           t == [s EXCEPT !.state = "power", !.power = n, !.wide = w]
<1> HIDE DEF w, n
<1>4. t \in PlayerRecord
  BY <1>1, <1>2, <1>3 DEF w, n, PlayerRecord
<1>5. t.state = "power" /\ t.power = n /\ t.cell = s.cell /\ t.down = s.down
  BY <1>1 DEF PlayerRecord
<1>6. Good(t) /\ Turned(t)
  <2> HIDE DEF t
  <2> QED
    BY <1>1, <1>3, <1>4, <1>5 DEF Good, Turned, n
<1> QED
  BY <1>5, <1>6 DEF w, n

-----------------------------------------------------------------------------
(* The operators on all players.                                           *)

\* Power goes to those who stand.
LEMMA AuraParty ==
  ASSUME board \in Boards, NEW P, NEW W, Party(P, W), NEW p \in Player,
         NEW ticks \in Nat \ {0}
  PROVE  Party(Aura(P, p, ticks), W) /\ Kept(P, Aura(P, p, ticks))
<1> DEFINE radius == IF P[p].wide THEN 2 * AuraRadius ELSE AuraRadius
           T(q) == [P[q] EXCEPT !.state = "power", !.power = Larger(@, ticks),
                                !.wide = @ /\ q # p]
           reached(q) == Standing(P, q) /\ Near(P[q].cell, P[p].cell, radius)
           Q == Aura(P, p, ticks)
<1>1. Q = [q \in Player |-> IF reached(q) THEN T(q) ELSE P[q]]
  BY DEF Aura
<1> HIDE DEF reached, Q
<1>2. ASSUME NEW q \in Player
      PROVE  /\ Good(Q[q]) /\ (q \notin W => Turned(Q[q]))
             /\ Q[q].cell = P[q].cell
             /\ Standing(P, q) => Standing(Q, q)
  <2>1. Good(P[q]) /\ (q \notin W => Turned(P[q]))
    BY DEF Party
  <2>2. CASE reached(q)
    <3>1. P[q].state # "down" /\ (q # p) \in BOOLEAN
      BY <2>2 DEF reached, Standing
    <3>2. Good(T(q)) /\ Turned(T(q)) /\ T(q).state = "power" /\ T(q).cell = P[q].cell
      BY <2>1, <3>1, PoweredGood, ZenonT(30)
    <3>3. Q[q] = T(q)
      BY <1>1, <2>2
    <3> HIDE DEF T
    <3> QED
      BY <3>2, <3>3 DEF Standing
  <2>3. CASE ~reached(q)
    <3>1. Q[q] = P[q]
      BY <1>1, <2>3
    <3> QED
      BY <2>1, <3>1 DEF Standing
  <2> QED
    BY <2>2, <2>3
<1>3. Q \in [Player -> PlayerRecord]
  <2>1. \A q \in Player : Q[q] \in PlayerRecord
    BY <1>2 DEF Good
  <2> HIDE DEF T
  <2> QED
    BY <1>1, <2>1
<1>4. Party(Q, W) /\ Kept(P, Q)
  BY <1>2, <1>3 DEF Party, Kept
<1> QED
  BY <1>4 DEF Q

\* One record is replaced by another that had its turn.
LEMMA OneParty ==
  ASSUME NEW P, NEW W, Party(P, W), NEW p \in Player, NEW t, Good(t), Turned(t)
  PROVE  LET Q == [P EXCEPT ![p] = t]
         IN  /\ Party(Q, W \ {p}) /\ Q[p] = t
             /\ \A q \in Player \ {p} : Q[q] = P[q]
             /\ t.cell = P[p].cell /\ (Standing(P, p) => t.state # "down") => Kept(P, Q)
<1> DEFINE Q == [P EXCEPT ![p] = t]
<1>1. P \in [Player -> PlayerRecord] /\ t \in PlayerRecord
  BY DEF Party, Good
<1>2. Q \in [Player -> PlayerRecord] /\ Q[p] = t /\ \A q \in Player \ {p} : Q[q] = P[q]
  BY <1>1
<1> HIDE DEF Q
<1>3. ASSUME NEW q \in Player
      PROVE  Good(Q[q]) /\ (q \notin W \ {p} => Turned(Q[q]))
  BY <1>2 DEF Party
<1>4. ASSUME t.cell = P[p].cell, Standing(P, p) => t.state # "down"
      PROVE  Kept(P, Q)
  BY <1>2, <1>4 DEF Kept, Standing
<1>5. Party(Q, W \ {p})
  BY <1>2, <1>3 DEF Party
<1> QED
  BY <1>2, <1>4, <1>5 DEF Q

LEMMA KeptTwice ==
  ASSUME NEW P, NEW Q, NEW R, Kept(P, Q), Kept(Q, R)
  PROVE  Kept(P, R)
BY DEF Kept

LEMMA AwakenedParty ==
  ASSUME board \in Boards, NEW P, NEW W, Party(P, W), NEW p \in Player \ W,
         Standing(P, p)
  PROVE  Party(Awakened(P, p), W) /\ Kept(P, Awakened(P, p))
<1>1. CASE P[p].stocks = 0
  BY <1>1 DEF Awakened, Kept
<1>2. CASE P[p].stocks # 0
  <2> DEFINE t == [P[p] EXCEPT !.stocks = @ - 1]
             Q == [P EXCEPT ![p] = t]
  <2>1. Good(P[p]) /\ Turned(P[p]) /\ P[p] \in PlayerRecord
    BY DEF Party, Good
  <2>2. P[p].stocks - 1 \in 0..MaxAwakenStock
    BY <1>2, <2>1, NumbersAssumption DEF PlayerRecord
  <2>3. Good(t) /\ Turned(t) /\ t.cell = P[p].cell /\ t.state = P[p].state
    BY <2>1, <2>2 DEF Good, Turned, PlayerRecord
  <2>4. W \ {p} = W
    OBVIOUS
  <2>5. Awakened(P, p) = Aura(Q, p, AwakenTicks)
    <3>1. P \in [Player -> PlayerRecord]
      BY DEF Party
    <3>2. [P EXCEPT ![p].stocks = @ - 1] = Q
      BY <3>1
    <3> QED
      BY <1>2, <3>2 DEF Awakened
  <2> HIDE DEF t
  <2>6. Party(Q, W) /\ Kept(P, Q)
    <3>1. p \in Player
      OBVIOUS
    <3>2. Party(Q, W \ {p}) /\ (t.cell = P[p].cell /\ (Standing(P, p) => t.state # "down")
                                => Kept(P, Q))
      BY <2>3, <3>1, OneParty, Zenon
    <3> QED
      BY <2>3, <2>4, <3>2 DEF Standing
  <2> HIDE DEF Q
  <2>7. Party(Aura(Q, p, AwakenTicks), W) /\ Kept(Q, Aura(Q, p, AwakenTicks))
    BY <2>6, AuraParty, NumbersAssumption
  <2> QED
    BY <2>5, <2>6, <2>7, KeptTwice
<1> QED
  BY <1>1, <1>2

LEMMA TreatedParty ==
  ASSUME board \in Boards, NEW P, NEW W, Party(P, W), NEW p \in Player \ W,
         NEW type
  PROVE  Party(Treated(P, p, type), W) /\ Kept(P, Treated(P, p, type))
<1>1. P \in [Player -> PlayerRecord] /\ Good(P[p]) /\ Turned(P[p]) /\ W \ {p} = W
  BY DEF Party
<1>2. P[p] \in PlayerRecord /\ P[p].stocks \in 0..MaxAwakenStock
  BY <1>1 DEF PlayerRecord
<1>3. ASSUME NEW t, Treated(P, p, type) = [P EXCEPT ![p] = t],
             Good(t), Turned(t), t.cell = P[p].cell, t.state = P[p].state
      PROVE  Party(Treated(P, p, type), W) /\ Kept(P, Treated(P, p, type))
  <2> DEFINE Q == [P EXCEPT ![p] = t]
  <2>1. p \in Player
    OBVIOUS
  <2>2. Party(Q, W \ {p}) /\ (t.cell = P[p].cell /\ (Standing(P, p) => t.state # "down")
                              => Kept(P, Q))
    BY <1>3, <2>1, OneParty, Zenon
  <2>3. Party(Q, W) /\ Kept(P, Q)
    BY <1>1, <1>3, <2>2 DEF Standing
  <2> QED
    BY <1>3, <2>3
<1>4. CASE type = "strawberry"
  <2> DEFINE t == [P[p] EXCEPT !.wide = TRUE]
  <2>1. Treated(P, p, type) = [P EXCEPT ![p] = t]
    BY <1>1, <1>4 DEF Treated
  <2>2. Good(t) /\ Turned(t) /\ t.cell = P[p].cell /\ t.state = P[p].state
    BY <1>1, <1>2 DEF Good, Turned, PlayerRecord
  <2> QED
    BY <1>3, <2>1, <2>2
<1>5. CASE type = "grape"
  <2>1. Treated(P, p, type) = [P EXCEPT ![p] = Stocked(P[p])]
    BY <1>1, <1>5 DEF Treated
  <2> QED
    BY <1>1, <1>3, <2>1, StockedGood
<1>6. CASE type = "apple"
  <2> DEFINE Q == Treated(P, p, type)
  <2>1. Q = [q \in Player |-> IF Standing(P, q) THEN P[q]
                             ELSE Revived(P[q], AppleGraceTicks)]
    BY <1>6 DEF Treated
  <2> HIDE DEF Q
  <2>2. ASSUME NEW q \in Player
        PROVE  /\ Good(Q[q]) /\ (q \notin W => Turned(Q[q]))
               /\ Q[q].cell = P[q].cell /\ (Standing(P, q) => Standing(Q, q))
    <3>1. Good(P[q]) /\ (q \notin W => Turned(P[q])) /\ P[q] \in PlayerRecord
      BY DEF Party, Good
    <3>2. CASE Standing(P, q)
      <4>1. Q[q] = P[q]
        BY <2>1, <3>2
      <4> QED
        BY <3>1, <4>1 DEF Standing
    <3>3. CASE ~Standing(P, q)
      <4>1. Q[q] = Revived(P[q], AppleGraceTicks)
        BY <2>1, <3>3
      <4> QED
        BY <3>1, <3>3, <4>1, RevivedGood, NumbersAssumption
    <3> QED
      BY <3>2, <3>3
  <2>3. \A q \in Player : Q[q] \in PlayerRecord
    BY <2>2 DEF Good
  <2>4. Q \in [Player -> PlayerRecord]
    BY <2>1, <2>3
  <2>5. Party(Q, W) /\ Kept(P, Q)
    BY <2>2, <2>4 DEF Party, Kept
  <2> QED
    BY <2>5 DEF Q
<1>7. CASE type \notin {"strawberry", "grape", "apple"}
  <2>1. Treated(P, p, type) = P
    BY <1>7 DEF Treated
  <2> QED
    BY <2>1 DEF Kept
<1> QED
  BY <1>4, <1>5, <1>6, <1>7

\* A player that stands is ready to move, wherever the others are in their turns.
LEMMA ReadyParty ==
  ASSUME board \in Boards, NEW W, Party(player, W), at \in Player, NEW asks \in BOOLEAN,
         Standing(player, at)
  PROVE  Party(Ready(asks), W \ {at}) /\ Kept(player, Ready(asks))
<1> DEFINE t == Expired(player[at])
           P == [player EXCEPT ![at] = t]
<1>1. Good(player[at]) /\ player \in [Player -> PlayerRecord]
  BY DEF Party
<1>2. Good(t) /\ Turned(t) /\ t.state # "down" /\ t.cell = player[at].cell
  BY <1>1, ExpiredGood DEF Standing
<1>3. Ready(asks) = IF asks THEN Awakened(P, at) ELSE P
  BY <1>1 DEF Ready
<1> HIDE DEF t
<1>4. /\ Party(P, W \ {at}) /\ P[at] = t
      /\ t.cell = player[at].cell /\ (Standing(player, at) => t.state # "down")
           => Kept(player, P)
  BY <1>2, OneParty
<1>5. Party(P, W \ {at}) /\ Kept(player, P) /\ Standing(P, at)
  BY <1>2, <1>4 DEF Standing
<1> HIDE DEF P
<1>6. CASE asks
  <2>1. at \in Player \ (W \ {at})
    OBVIOUS
  <2>2. Party(Awakened(P, at), W \ {at}) /\ Kept(P, Awakened(P, at))
    BY <1>5, <2>1, AwakenedParty, Zenon
  <2> QED
    BY <1>3, <1>5, <1>6, <2>2, KeptTwice
<1>7. CASE ~asks
  BY <1>3, <1>5, <1>7
<1> QED
  BY <1>6, <1>7

\* Who enters a cell is there then; the others stay where they are.
LEMMA EnteredParty ==
  ASSUME board \in Boards, NEW P, NEW W, Party(P, W), NEW p \in Player \ W,
         NEW c \in Cell
  PROVE  LET moved == [P EXCEPT ![p].cell = c] IN
         /\ Party(Entered(P, p, c), W) /\ Kept(moved, Entered(P, p, c))
         /\ Entered(P, p, c)[p].cell = c
         /\ \A q \in Player \ {p} :
              /\ Entered(P, p, c)[q].cell = P[q].cell
              /\ Standing(P, q) => Standing(Entered(P, p, c), q)
<1> DEFINE t == [P[p] EXCEPT !.cell = c]
           moved == [P EXCEPT ![p] = t]
           saved == [q \in Player |->
                       IF q # p /\ ~Standing(moved, q) /\ moved[q].cell = c
                       THEN Revived(moved[q], 0) ELSE moved[q]]
           fed == IF c \in dots THEN [saved EXCEPT ![p] = Fed(saved[p])] ELSE saved
           strong == IF c \in pellets THEN Aura(fed, p, PowerTicks) ELSE fed
           type == CHOOSE u \in Taken(c) : TRUE
<1>1. p \in Player /\ P \in [Player -> PlayerRecord] /\ Good(P[p]) /\ Turned(P[p])
      /\ W \ {p} = W
  BY DEF Party
<1>2. Good(t) /\ Turned(t) /\ t.cell = c /\ t.state = P[p].state
  BY <1>1 DEF Good, Turned, PlayerRecord
<1>3. Entered(P, p, c) = IF Taken(c) = {} THEN strong ELSE Treated(strong, p, type)
  <2>1. [P EXCEPT ![p].cell = c] = moved
    BY <1>1
  <2> QED
    BY <2>1 DEF Entered
<1>4. [P EXCEPT ![p].cell = c] = moved
  BY <1>1
<1> HIDE DEF t, type
<1>5. /\ Party(moved, W) /\ moved[p] = t
      /\ \A q \in Player \ {p} : moved[q] = P[q]
  <2>1. /\ Party(moved, W \ {p}) /\ moved[p] = t
        /\ \A q \in Player \ {p} : moved[q] = P[q]
    BY <1>1, <1>2, OneParty, Zenon
  <2> QED
    BY <1>1, <2>1
<1> HIDE DEF moved
<1>6. Party(saved, W) /\ Kept(moved, saved)
  <2>1. ASSUME NEW q \in Player
        PROVE  /\ Good(saved[q]) /\ (q \notin W => Turned(saved[q]))
               /\ saved[q].cell = moved[q].cell
               /\ Standing(moved, q) => Standing(saved, q)
    <3>1. Good(moved[q]) /\ (q \notin W => Turned(moved[q])) /\ moved[q] \in PlayerRecord
      BY <1>5 DEF Party, Good
    <3>2. CASE q # p /\ ~Standing(moved, q) /\ moved[q].cell = c
      <4>1. saved[q] = Revived(moved[q], 0)
        BY <3>2
      <4> HIDE DEF saved
      <4> QED
        BY <3>1, <3>2, <4>1, RevivedGood
    <3>3. CASE ~(q # p /\ ~Standing(moved, q) /\ moved[q].cell = c)
      <4>1. saved[q] = moved[q]
        BY <3>3
      <4> HIDE DEF saved
      <4> QED
        BY <3>1, <4>1 DEF Standing
    <3> QED
      BY <3>2, <3>3
  <2>2. \A q \in Player : saved[q] \in PlayerRecord
    <3> HIDE DEF saved
    <3> QED
      BY <2>1 DEF Good
  <2>3. saved \in [Player -> PlayerRecord]
    BY <2>2
  <2> HIDE DEF saved
  <2> QED
    BY <2>1, <2>3 DEF Party, Kept
<1> HIDE DEF saved
<1>7. Party(fed, W) /\ Kept(saved, fed)
  <2>1. Good(saved[p]) /\ Turned(saved[p])
    BY <1>1, <1>6 DEF Party
  <2>2. /\ Good(Fed(saved[p])) /\ Turned(Fed(saved[p]))
        /\ Fed(saved[p]).state = saved[p].state /\ Fed(saved[p]).cell = saved[p].cell
    BY <2>1, FedGood
  <2> DEFINE u == Fed(saved[p])
             Q == [saved EXCEPT ![p] = u]
  <2> HIDE DEF u
  <2>3. /\ Party(Q, W \ {p})
        /\ u.cell = saved[p].cell /\ (Standing(saved, p) => u.state # "down")
             => Kept(saved, Q)
    BY <1>1, <1>6, <2>2, OneParty, Zenon DEF u
  <2>4. Party(Q, W) /\ Kept(saved, Q)
    BY <1>1, <2>2, <2>3 DEF Standing, u
  <2>5. Kept(saved, saved)
    BY DEF Kept
  <2> QED
    BY <1>6, <2>4, <2>5 DEF u
<1> HIDE DEF fed
<1>8. Party(strong, W) /\ Kept(fed, strong)
  <2>1. PowerTicks \in Nat \ {0}
    BY NumbersAssumption
  <2>2. Party(Aura(fed, p, PowerTicks), W) /\ Kept(fed, Aura(fed, p, PowerTicks))
    BY <1>1, <1>7, <2>1, AuraParty, Zenon
  <2>3. Kept(fed, fed)
    BY DEF Kept
  <2> QED
    BY <1>7, <2>2, <2>3
<1> HIDE DEF strong
<1>9. Party(Entered(P, p, c), W) /\ Kept(strong, Entered(P, p, c))
  <2>1. Party(Treated(strong, p, type), W) /\ Kept(strong, Treated(strong, p, type))
    BY <1>8, TreatedParty, Zenon
  <2>2. Kept(strong, strong)
    BY DEF Kept
  <2> QED
    BY <1>3, <1>8, <2>1, <2>2
<1>10. Kept(moved, Entered(P, p, c))
  BY <1>6, <1>7, <1>8, <1>9, KeptTwice
<1>11. Entered(P, p, c)[p].cell = c
  BY <1>1, <1>2, <1>5, <1>10 DEF Kept
<1>12. ASSUME NEW q \in Player \ {p}
       PROVE  /\ Entered(P, p, c)[q].cell = P[q].cell
              /\ Standing(P, q) => Standing(Entered(P, p, c), q)
  BY <1>5, <1>10 DEF Kept, Standing
<1> QED
  BY <1>4, <1>9, <1>10, <1>11, <1>12

-----------------------------------------------------------------------------
(* The invariant of types and clocks.                                      *)

\* The players, those with their turns still to come in this tick apart.
Clocked == Party(player, {p \in Player : Awaiting(p)})

\* Only the turns of the players and the collisions are one by one.
InTurn == stage \notin {"players", "collisions"} => at = 1

Clockwork == TypeOK /\ Clocked /\ InTurn

\* What remains when the map does.
LEMMA SameBoard ==
  ASSUME board' = board
  PROVE  /\ Cell' = Cell /\ Player' = Player /\ Ghost' = Ghost /\ Gate' = Gate
         /\ Sector' = Sector /\ GateCells' = GateCells
         /\ PlayerRecord' = PlayerRecord /\ GhostRecord' = GhostRecord
<1>1. /\ Cell' = Cell /\ Player' = Player /\ Ghost' = Ghost /\ Gate' = Gate
      /\ PlayerRecord' = PlayerRecord /\ GhostRecord' = GhostRecord
  BY DEF Cell, Player, Ghost, Gate, PlayerRecord, GhostRecord
<1>2. Sector' = Sector /\ GateCells' = GateCells
  BY DEF Sector, GateCells, Cell, Gate
<1> QED
  BY <1>1, <1>2

\* What an action has to leave behind.
LEMMA Assembled ==
  ASSUME TypeOK, board' = board, NEW W, Party(player', W),
         \A p \in W : stage' = "players" /\ p >= at',
         open' \in SUBSET Gate, permanent' \in SUBSET Gate,
         ghost' \in [Ghost -> GhostRecord],
         dots' \in SUBSET board.dots, count' \in [Sector -> Nat],
         captured' \in SUBSET Sector, pellets' \in SUBSET board.pellets,
         fruits' \in Seq(board.fruits),
         before' \in [player : [Player -> Cell], ghost : [Ghost -> Cell]],
         stage' \in Stage, at' \in Player,
         stage' \notin {"players", "collisions"} => at' = 1
  PROVE  Clockwork'
<1>1. /\ Cell' = Cell /\ Player' = Player /\ Ghost' = Ghost /\ Gate' = Gate
      /\ Sector' = Sector
      /\ PlayerRecord' = PlayerRecord /\ GhostRecord' = GhostRecord
  BY SameBoard
<1>2. board' \in Boards
  BY DEF TypeOK
<1>3. player' \in [Player -> PlayerRecord]
  BY DEF Party
<1>4. TypeOK'
  BY <1>1, <1>2, <1>3 DEF TypeOK
<1>5. \A p \in Player : Good(player'[p])
  BY DEF Party
<1>6. ASSUME NEW p \in Player, ~(stage' = "players" /\ p >= at')
      PROVE  Turned(player'[p])
  BY <1>6 DEF Party
<1>7. \A p \in Player : Good(player[p])'
  BY <1>1, <1>5 DEF Good
<1>8. \A p \in Player : ~Awaiting(p)' => Turned(player[p])'
  BY <1>6 DEF Awaiting, Turned
<1>9. Clocked'
  BY <1>1, <1>3, <1>7, <1>8 DEF Clocked, Party
<1>10. InTurn'
  BY DEF InTurn
<1> QED
  BY <1>4, <1>9, <1>10 DEF Clockwork

LEMMA PositionsType ==
  ASSUME NEW P \in [Player -> PlayerRecord], NEW G \in [Ghost -> GhostRecord]
  PROVE  Positions(P, G) \in [player : [Player -> Cell], ghost : [Ghost -> Cell]]
<1>1. \A p \in Player : P[p].cell \in Cell
  BY DEF PlayerRecord
<1>2. \A g \in Ghost : G[g].cell \in Cell
  BY DEF GhostRecord
<1> QED
  BY <1>1, <1>2 DEF Positions

LEMMA SpawnedType ==
  ASSUME NEW g \in Ghost, NEW c \in Cell
  PROVE  Spawned(g, c) \in GhostRecord
<1>1. FullHp(g) \in 0..BossHp
  BY NumbersAssumption DEF FullHp
<1>2. 0 \in Nat
  OBVIOUS
<1> QED
  BY <1>1, <1>2 DEF Spawned, GhostRecord

\* Whose turn it is next, in the turns of the players and in the collisions.
LEMMA NextTurn ==
  ASSUME Clockwork, NEW next \in Stage \ {"players", "collisions"}, NextPlayer(next),
         stage \in {"players", "collisions"}
  PROVE  /\ at' \in Player /\ stage' \in Stage
         /\ stage' \notin {"players", "collisions"} => at' = 1
         /\ stage = "players" => \A p \in {q \in Player : Awaiting(q)} \ {at} :
              stage' = "players" /\ p >= at'
<1>1. Player = 1..Len(board.home) /\ Len(board.home) \in Nat \ {0}
  BY BoardFacts DEF Clockwork, TypeOK
<1>2. at \in Player /\ stage \in Stage
  BY DEF Clockwork, TypeOK
<1>3. CASE at < Len(board.home)
  <2>1. at' = at + 1 /\ stage' = stage
    BY <1>3 DEF NextPlayer
  <2> QED
    BY <1>1, <1>2, <1>3, <2>1 DEF Awaiting
<1>4. CASE ~(at < Len(board.home))
  <2>1. at' = 1 /\ stage' = next
    BY <1>4 DEF NextPlayer
  <2>2. at = Len(board.home)
    BY <1>1, <1>2, <1>4
  <2>3. \A p \in {q \in Player : Awaiting(q)} : p = at
    BY <1>1, <2>2 DEF Awaiting
  <2> QED
    BY <1>1, <1>2, <2>1, <2>3
<1> QED
  BY <1>3, <1>4


LEMMA ClockworkInit == Init => Clockwork
<1> SUFFICES ASSUME Init PROVE Clockwork
  OBVIOUS
<1>1. board \in Boards
  BY DEF Init
<1>2. /\ IsFiniteSet(Cell) /\ Player = 1..Len(board.home) /\ Len(board.home) \in Nat \ {0}
      /\ \A p \in Player : board.home[p] \in Cell
      /\ board.births \subseteq Cell /\ board.dots \subseteq Cell
  BY <1>1, BoardFacts
<1>3. ASSUME NEW p \in Player
      PROVE  /\ Newborn(p) \in PlayerRecord
             /\ Good(Newborn(p)) /\ Turned(Newborn(p))
  <2>1. 0 \in 0..MaxAwakenStock /\ 0 \in 0..DotsForAwaken /\ 0 \in 0..RescueTicks /\ 0 \in Nat
    BY NumbersAssumption
  <2>2. Newborn(p) \in PlayerRecord
    BY <1>2, <2>1 DEF Newborn, PlayerRecord
  <2> QED
    BY <2>2 DEF Newborn, Good, Turned
<1>4. player = [p \in Player |-> Newborn(p)]
  BY DEF Init
<1>5. player \in [Player -> PlayerRecord] /\ Party(player, {})
  BY <1>3, <1>4 DEF Party
<1>6. Clocked
  BY <1>5 DEF Clocked, Party
<1>7. ghost \in [Ghost -> GhostRecord]
  <2>1. PICK c \in [Ghost -> board.births] : ghost = [g \in Ghost |-> Spawned(g, c[g])]
    BY DEF Init
  <2>2. \A g \in Ghost : Spawned(g, c[g]) \in GhostRecord
    BY <1>2, <2>1, SpawnedType
  <2> QED
    BY <2>1, <2>2
<1>8. count \in [Sector -> Nat]
  <2>1. ASSUME NEW s \in Sector PROVE Cardinality(dots \cap In(s)) \in Nat
    <3>1. IsFiniteSet(dots \cap In(s))
      <4>1. dots \cap In(s) \subseteq Cell
        BY DEF In
      <4> QED
        BY <1>2, <4>1, FS_Subset, Zenon
    <3> QED
      BY <3>1, FS_CardinalityType, Zenon
  <2> QED
    BY <2>1 DEF Init
<1>9. before \in [player : [Player -> Cell], ghost : [Ghost -> Cell]]
  BY <1>5, <1>7, PositionsType DEF Init
<1>10. fruits \in Seq(board.fruits) /\ stage \in Stage /\ at \in Player
  BY <1>2 DEF Init, Stage
<1>11. TypeOK
  BY <1>1, <1>5, <1>7, <1>8, <1>9, <1>10 DEF Init, TypeOK
<1> QED
  BY <1>6, <1>11 DEF Init, Clockwork, InTurn

\* The tick begins: everybody's turn is to come.
LEMMA ClockworkBegin ==
  ASSUME Clockwork, NEW back \in SUBSET (board.pellets \ pellets),
         NEW new \in {{}} \cup {{f} : f \in board.fruits}, BeginTick(back, new)
  PROVE  Clockwork'
<1>1. board \in Boards /\ TypeOK /\ stage = "idle" /\ at = 1
  BY DEF Clockwork, TypeOK, InTurn, BeginTick
<1>2. Player = 1..Len(board.home) /\ Len(board.home) \in Nat \ {0}
  BY <1>1, BoardFacts
<1>3. Party(player, {})
  BY <1>1 DEF Clockwork, Clocked, Awaiting
<1>4. player \in [Player -> PlayerRecord]
      /\ \A p \in Player : Good(player[p]) /\ Turned(player[p])
  BY <1>3 DEF Party
<1>5. \A p \in Player : Good(Older(player[p])) /\ Older(player[p]) \in PlayerRecord
  BY <1>4, OlderGood DEF Good
<1>6. player' = [p \in Player |-> Older(player[p])]
  BY DEF BeginTick
<1>7. Party(player', Player)
  BY <1>5, <1>6 DEF Party
<1>8. \A p \in Player : stage' = "players" /\ p >= at'
  BY <1>1, <1>2 DEF BeginTick
<1>9. open' \in SUBSET Gate
  BY <1>1 DEF BeginTick, OpenGates, TypeOK
<1>10. ghost' \in [Ghost -> GhostRecord]
  <2>1. ASSUME NEW g \in Ghost
        PROVE  [ghost[g] EXCEPT !.stun = Less(@)] \in GhostRecord
    <3>1. ghost[g] \in GhostRecord /\ Less(ghost[g].stun) \in Nat
      BY <1>1 DEF TypeOK, GhostRecord, Less
    <3> QED
      BY <3>1 DEF GhostRecord
  <2> QED
    BY <2>1 DEF BeginTick
<1>11. before' \in [player : [Player -> Cell], ghost : [Ghost -> Cell]]
  BY <1>1, <1>4, PositionsType DEF BeginTick, TypeOK
<1>12. fruits' \in Seq(board.fruits)
  <2>1. CASE new = {}
    BY <1>1, <2>1 DEF BeginTick, TypeOK
  <2>2. CASE new # {}
    <3>1. PICK f \in new : fruits' = Append(fruits, f)
      BY <2>2 DEF BeginTick
    <3>2. f \in board.fruits
      BY <3>1
    <3> QED
      BY <1>1, <3>1, <3>2 DEF TypeOK
  <2> QED
    BY <2>1, <2>2
<1>13. pellets' \in SUBSET board.pellets /\ at' \in Player /\ stage' \in Stage
  BY <1>1 DEF BeginTick, TypeOK, Stage
<1>14. /\ board' = board /\ permanent' \in SUBSET Gate /\ dots' \in SUBSET board.dots
       /\ count' \in [Sector -> Nat] /\ captured' \in SUBSET Sector
       /\ stage' \notin {"players", "collisions"} => at' = 1
  BY <1>1 DEF BeginTick, TypeOK
<1> QED
  BY <1>1, <1>7, <1>8, <1>9, <1>10, <1>11, <1>12, <1>13, <1>14, Assembled

\* The player whose turn it was has had it, and nothing but players changed.
LEMMA ClockworkTurn ==
  ASSUME Clockwork, stage = "players", NextPlayer("ghosts"),
         LET W == {p \in Player : Awaiting(p)} \ {at} IN Party(player', W),
         UNCHANGED <<board, open, permanent, ghost, dots, count, captured, pellets,
                     fruits, before>>
  PROVE  Clockwork'
<1>1. TypeOK /\ "ghosts" \in Stage \ {"players", "collisions"}
      /\ stage \in {"players", "collisions"}
  BY DEF Clockwork, Stage
<1>2. /\ at' \in Player /\ stage' \in Stage
      /\ stage' \notin {"players", "collisions"} => at' = 1
      /\ stage = "players" => \A p \in {q \in Player : Awaiting(q)} \ {at} :
           stage' = "players" /\ p >= at'
  BY <1>1, NextTurn
<1> DEFINE W == {p \in Player : Awaiting(p)} \ {at}
<1>3. Party(player', W) /\ \A p \in W : stage' = "players" /\ p >= at'
  BY <1>2
<1> HIDE DEF W
<1> QED
  BY <1>1, <1>2, <1>3, Assembled DEF TypeOK

LEMMA RespawnPlace ==
  ASSUME board \in Boards, NEW p \in Player, NEW c \in RespawnCells(p)
  PROVE  c \in Cell /\ (c \notin GateCells \/ c \in board.spawns)
<1>1. board.home[p] \in board.spawns /\ board.spawns \subseteq Cell
  BY BoardFacts
<1> QED
  BY <1>1 DEF RespawnCells, SafeCell

LEMMA ClockworkRespawn == Clockwork /\ RespawnTurn => Clockwork'
<1> SUFFICES ASSUME Clockwork, RespawnTurn PROVE Clockwork'
  OBVIOUS
<1>1. board \in Boards /\ at \in Player /\ Party(player, {p \in Player : Awaiting(p)})
  BY DEF Clockwork, TypeOK, Clocked
<1>2. PICK c \in RespawnCells(at) :
        player' = [player EXCEPT ![at] =
                     [Revived(Penalised(@), RespawnGraceTicks) EXCEPT !.cell = c]]
  BY DEF RespawnTurn
<1>3. c \in Cell
  BY <1>1, <1>2, RespawnPlace
<1> DEFINE s == Penalised(player[at])
           r == Revived(s, RespawnGraceTicks)
           t == [r EXCEPT !.cell = c]
<1>4. player' = [player EXCEPT ![at] = t]
  <2>1. player \in [Player -> PlayerRecord]
    BY <1>1 DEF Party
  <2> QED
    BY <1>2, <2>1
<1>5. s \in PlayerRecord
  BY <1>1, PenalisedRecord DEF Party
<1> HIDE DEF s
<1>6. Good(r) /\ Turned(r) /\ r.state = "normal"
  BY <1>5, RevivedGood, NumbersAssumption
<1> HIDE DEF r
<1>7. Good(t) /\ Turned(t)
  <2>1. r \in PlayerRecord
    BY <1>6 DEF Good
  <2>2. /\ t \in PlayerRecord /\ t.power = r.power /\ t.state = r.state
        /\ t.grace = r.grace /\ t.down = r.down
    BY <1>3, <2>1 DEF PlayerRecord
  <2> HIDE DEF t
  <2> QED
    BY <1>6, <2>2 DEF Good, Turned
<1> HIDE DEF t
<1>8. Party([player EXCEPT ![at] = t], {p \in Player : Awaiting(p)} \ {at})
  BY <1>1, <1>7, OneParty
<1>9. Party(player', {p \in Player : Awaiting(p)} \ {at})
  BY <1>4, <1>8
<1> QED
  BY <1>9, ClockworkTurn DEF RespawnTurn

LEMMA ClockworkDown == Clockwork /\ DownTurn => Clockwork'
<1> SUFFICES ASSUME Clockwork, DownTurn PROVE Clockwork'
  OBVIOUS
<1>1. at \in Player /\ Party(player, {p \in Player : Awaiting(p)})
  BY DEF Clockwork, TypeOK, Clocked
<1>2. Turned(player[at])
  BY DEF DownTurn, Standing, Turned
<1>3. Party(player, {p \in Player : Awaiting(p)} \ {at})
  BY <1>1, <1>2 DEF Party
<1>4. player' = player
  BY DEF DownTurn
<1> QED
  BY <1>3, <1>4, ClockworkTurn DEF DownTurn

LEMMA ClockworkStay ==
  ASSUME Clockwork, NEW asks \in BOOLEAN, StayTurn(asks)
  PROVE  Clockwork'
<1>1. board \in Boards /\ at \in Player /\ Party(player, {p \in Player : Awaiting(p)})
  BY DEF Clockwork, TypeOK, Clocked
<1>2. Standing(player, at) /\ player' = Ready(asks)
  BY DEF StayTurn
<1> DEFINE W == {p \in Player : Awaiting(p)}
<1> HIDE DEF W
<1>3. Party(Ready(asks), W \ {at})
  BY <1>1, <1>2, ReadyParty DEF W
<1>4. Party(player', {p \in Player : Awaiting(p)} \ {at})
  BY <1>2, <1>3 DEF W
<1> QED
  BY <1>4, ClockworkTurn DEF StayTurn

\* One fruit less.
LEMMA WithoutFruitType ==
  ASSUME fruits \in Seq(board.fruits), NEW c
  PROVE  WithoutFruit(c) \in Seq(board.fruits)
<1>1. CASE FruitAt(c) = {}
  BY <1>1 DEF WithoutFruit
<1>2. CASE FruitAt(c) # {}
  <2> DEFINE i == CHOOSE i \in FruitAt(c) : TRUE
  <2>1. i \in FruitAt(c)
    BY <1>2
  <2>2. i \in 1..Len(fruits) /\ Len(fruits) \in Nat
    BY <2>1 DEF FruitAt
  <2>3. WithoutFruit(c) = SubSeq(fruits, 1, i - 1) \o SubSeq(fruits, i + 1, Len(fruits))
    BY <1>2 DEF WithoutFruit
  <2> HIDE DEF i
  <2>4. \A j \in 1..Len(fruits) : fruits[j] \in board.fruits
    OBVIOUS
  <2>5. /\ \A j \in 1..(i - 1) : fruits[j] \in board.fruits
        /\ \A j \in (i + 1)..Len(fruits) : fruits[j] \in board.fruits
        /\ 1 \in Int /\ i - 1 \in Int /\ i + 1 \in Int /\ Len(fruits) \in Int
    BY <2>2, <2>4
  <2>6. SubSeq(fruits, 1, i - 1) \in Seq(board.fruits)
    BY <2>5, SubSeqProperties, Zenon
  <2>7. SubSeq(fruits, i + 1, Len(fruits)) \in Seq(board.fruits)
    BY <2>5, SubSeqProperties, Zenon
  <2> QED
    BY <2>3, <2>6, <2>7, ConcatProperties
<1> QED
  BY <1>1, <1>2

LEMMA ClockworkMove ==
  ASSUME Clockwork, NEW asks \in BOOLEAN, NEW c \in Cell, MoveTurn(asks, c)
  PROVE  Clockwork'
<1>1. /\ TypeOK /\ board \in Boards /\ at \in Player
      /\ Party(player, {p \in Player : Awaiting(p)})
      /\ "ghosts" \in Stage \ {"players", "collisions"}
  BY DEF Clockwork, TypeOK, Clocked, Stage
<1>2. stage = "players" /\ Standing(player, at) /\ NextPlayer("ghosts")
      /\ player' = Entered(Ready(asks), at, c)
  BY DEF MoveTurn
<1>3. /\ at' \in Player /\ stage' \in Stage
      /\ stage' \notin {"players", "collisions"} => at' = 1
      /\ stage = "players" => \A p \in {q \in Player : Awaiting(q)} \ {at} :
           stage' = "players" /\ p >= at'
  BY <1>1, <1>2, NextTurn
<1> DEFINE V == {p \in Player : Awaiting(p)}
           W == V \ {at}
<1>4. \A p \in W : stage' = "players" /\ p >= at'
  BY <1>2, <1>3
<1> HIDE DEF V
<1>5. Party(Ready(asks), W)
  BY <1>1, <1>2, ReadyParty DEF V
<1>6. Party(player', W)
  <2>1. at \in Player \ W
    BY <1>1
  <2> HIDE DEF W
  <2>2. Party(Entered(Ready(asks), at, c), W)
    BY <1>1, <1>5, <2>1, EnteredParty, Zenon
  <2> QED
    BY <1>2, <2>2
<1> HIDE DEF W
<1>7. ghost' \in [Ghost -> GhostRecord]
  <2>1. ASSUME NEW g \in Ghost
        PROVE  [ghost[g] EXCEPT !.stun = StunTicks] \in GhostRecord
               /\ ghost[g] \in GhostRecord
    BY <1>1, NumbersAssumption DEF TypeOK, GhostRecord
  <2> QED
    BY <2>1 DEF MoveTurn
<1>8. permanent' \in SUBSET Gate /\ open' \in SUBSET Gate
  BY <1>1 DEF MoveTurn, NearestGate, TypeOK
<1>9. count' \in [Sector -> Nat]
  <2> DEFINE n == IF c \in dots THEN Less(count[board.sector[c]]) ELSE count[board.sector[c]]
  <2>1. count \in [Sector -> Nat] /\ count' = Eaten(c) /\ board.sector[c] \in Sector
    BY <1>1 DEF MoveTurn, TypeOK, Sector
  <2>2. count' = [count EXCEPT ![board.sector[c]] = n] /\ n \in Nat
    BY <2>1 DEF Eaten, Less
  <2> HIDE DEF n
  <2> QED
    BY <2>1, <2>2
<1>10. fruits' \in Seq(board.fruits)
  BY <1>1, WithoutFruitType DEF MoveTurn, TypeOK
<1>11. /\ board' = board /\ dots' \in SUBSET board.dots /\ captured' \in SUBSET Sector
       /\ pellets' \in SUBSET board.pellets
       /\ before' \in [player : [Player -> Cell], ghost : [Ghost -> Cell]]
  BY <1>1 DEF MoveTurn, TypeOK
<1> QED
  BY <1>1, <1>3, <1>4, <1>6, <1>7, <1>8, <1>9, <1>10, <1>11, Assembled

LEMMA ClockworkGhosts ==
  ASSUME Clockwork, NEW goal \in [Ghost -> Cell], GhostsMove(goal)
  PROVE  Clockwork'
<1>1. TypeOK /\ stage = "ghosts"
  BY DEF Clockwork, GhostsMove
<1>2. Party(player, {})
  BY <1>1 DEF Clockwork, Clocked, Awaiting
<1>3. ghost' \in [Ghost -> GhostRecord]
  <2>1. ASSUME NEW g \in Ghost
        PROVE  [ghost[g] EXCEPT !.cell = goal[g]] \in GhostRecord
    BY <1>1 DEF TypeOK, GhostRecord
  <2> QED
    BY <2>1 DEF GhostsMove
<1>4. player' = player /\ board' = board /\ stage' = "collisions"
  BY DEF GhostsMove
<1> DEFINE W == {}
<1>5. Party(player', W) /\ \A p \in W : stage' = "players" /\ p >= at'
  BY <1>2, <1>4
<1> HIDE DEF W
<1> QED
  BY <1>1, <1>3, <1>4, <1>5, Assembled DEF GhostsMove, TypeOK, Stage

\* A player has been looked at in the collisions; players and ghosts may have
\* changed.
LEMMA ClockworkCollision ==
  ASSUME Clockwork, stage = "collisions", NextPlayer("control"),
         Party(player', {}), ghost' \in [Ghost -> GhostRecord],
         UNCHANGED <<board, open, permanent, dots, count, captured, pellets, fruits,
                     before>>
  PROVE  Clockwork'
<1>1. TypeOK /\ "control" \in Stage \ {"players", "collisions"}
      /\ stage \in {"players", "collisions"}
  BY DEF Clockwork, Stage
<1>2. /\ at' \in Player /\ stage' \in Stage
      /\ stage' \notin {"players", "collisions"} => at' = 1
  BY <1>1, NextTurn
<1> DEFINE W == {}
<1>3. Party(player', W) /\ \A p \in W : stage' = "players" /\ p >= at'
  OBVIOUS
<1> HIDE DEF W
<1> QED
  BY <1>1, <1>2, <1>3, Assembled DEF TypeOK

LEMMA ClockworkNoCollision == Clockwork /\ NoCollision => Clockwork'
<1> SUFFICES ASSUME Clockwork, NoCollision PROVE Clockwork'
  OBVIOUS
<1>1. stage = "collisions" /\ player' = player /\ ghost' = ghost
  BY DEF NoCollision
<1>2. Party(player', {})
  BY <1>1 DEF Clockwork, Clocked, Awaiting
<1> QED
  BY <1>1, <1>2, ClockworkCollision DEF NoCollision, Clockwork, TypeOK

\* Who is caught goes down.
LEMMA DownedParty ==
  ASSUME NEW P, Party(P, {}), NEW p \in Player
  PROVE  Party([P EXCEPT ![p] = Downed(P[p])], {})
<1>1. P[p] \in PlayerRecord /\ {} \ {p} = {}
  BY DEF Party
<1>2. Good(Downed(P[p])) /\ Turned(Downed(P[p]))
  BY <1>1, DownedGood
<1>3. Party([P EXCEPT ![p] = Downed(P[p])], {} \ {p})
  BY <1>2, OneParty
<1> QED
  BY <1>1, <1>3

LEMMA ClockworkGoDown == Clockwork /\ GoDown => Clockwork'
<1> SUFFICES ASSUME Clockwork, GoDown PROVE Clockwork'
  OBVIOUS
<1>1. stage = "collisions" /\ ghost' = ghost /\ at \in Player
      /\ player' = [player EXCEPT ![at] = Downed(@)]
  BY DEF GoDown, Clockwork, TypeOK
<1>2. Party(player, {})
  BY <1>1 DEF Clockwork, Clocked, Awaiting
<1>3. player' = [player EXCEPT ![at] = Downed(player[at])]
  BY <1>1, <1>2 DEF Party
<1>4. Party(player', {})
  BY <1>1, <1>2, <1>3, DownedParty
<1> QED
  BY <1>1, <1>4, ClockworkCollision DEF GoDown, Clockwork, TypeOK

LEMMA ClockworkStrike ==
  ASSUME Clockwork, NEW spawn \in [Ghost -> board.ghostSpawns], Strike(spawn)
  PROVE  Clockwork'
<1>1. /\ stage = "collisions" /\ at \in Player /\ board \in Boards
      /\ ghost \in [Ghost -> GhostRecord]
  BY DEF Strike, Clockwork, TypeOK
<1>2. Party(player, {})
  BY <1>1 DEF Clockwork, Clocked, Awaiting
<1>3. player \in [Player -> PlayerRecord] /\ Good(player[at])
  BY <1>1, <1>2 DEF Party
<1>4. ghost' \in [Ghost -> GhostRecord]
  <2>1. ASSUME NEW g \in Ghost PROVE Spawned(g, spawn[g]) \in GhostRecord
    <3>1. spawn[g] \in Cell
      BY <1>1, BoardFacts
    <3> QED
      BY <3>1, SpawnedType
  <2>2. ASSUME NEW g \in Struck(at)
        PROVE  [ghost[g] EXCEPT !.hp = @ - 1] \in GhostRecord
    <3>1. g \in Ghost /\ ghost[g].hp > 0 /\ ghost[g] \in GhostRecord
      BY <1>1 DEF Struck, Bosses, Foes, Present
    <3>2. ghost[g].hp - 1 \in 0..BossHp
      BY <3>1, NumbersAssumption DEF GhostRecord
    <3> QED
      BY <3>1, <3>2 DEF GhostRecord
  <2>3. \A g \in Ghost : ghost[g] \in GhostRecord
    BY <1>1
  <2>4. ghost' = [g \in Ghost |->
                 IF g \in Beaten(at) THEN Spawned(g, spawn[g])
                 ELSE IF g \in Struck(at) THEN [ghost[g] EXCEPT !.hp = @ - 1]
                 ELSE ghost[g]]
    BY DEF Strike
  <2> QED
    BY <2>1, <2>2, <2>3, <2>4
<1>5. Party(player', {})
  <2>1. CASE Left(at) # {}
    <3>1. player' = [player EXCEPT ![at] = Downed(player[at])]
      BY <1>3, <2>1 DEF Strike
    <3> QED
      BY <1>1, <1>2, <3>1, DownedParty
  <2>2. CASE Left(at) = {} /\ Struck(at) # {}
    <3> DEFINE t == [player[at] EXCEPT !.state = "normal", !.power = 0]
    <3>1. player' = [player EXCEPT ![at] = t]
      BY <1>3, <2>2 DEF Strike
    <3>2. t \in PlayerRecord /\ t.state = "normal" /\ t.power = 0 /\ t.down = player[at].down
      BY <1>3 DEF Good, PlayerRecord
    <3>3. player[at].state # "down"
      BY DEF Strike
    <3> HIDE DEF t
    <3>4. Good(t) /\ Turned(t) /\ {} \ {at} = {}
      BY <1>3, <3>2, <3>3 DEF Good, Turned
    <3>5. Party([player EXCEPT ![at] = t], {} \ {at})
      BY <1>1, <1>2, <3>4, OneParty
    <3> QED
      BY <3>1, <3>4, <3>5
  <2>3. CASE Left(at) = {} /\ Struck(at) = {}
    <3>1. player' = player
      BY <1>3, <2>3 DEF Strike
    <3> QED
      BY <1>2, <3>1
  <2> QED
    BY <2>1, <2>2, <2>3
<1> QED
  BY <1>1, <1>4, <1>5, ClockworkCollision DEF Strike

\* Parts of a map can be counted.
LEMMA CountType ==
  ASSUME board \in Boards, NEW D \in SUBSET Cell, NEW s
  PROVE  IsFiniteSet(D \cap In(s)) /\ Cardinality(D \cap In(s)) \in Nat
<1>1. IsFiniteSet(Cell)
  BY BoardFacts
<1>2. D \cap In(s) \subseteq Cell
  OBVIOUS
<1>3. IsFiniteSet(D \cap In(s))
  BY <1>1, <1>2, FS_Subset, Zenon
<1> QED
  BY <1>3, FS_CardinalityType, Zenon

LEMMA ClockworkControl ==
  ASSUME Clockwork, NEW grown \in SUBSET board.dots,
         NEW spawn \in [Ghost -> board.ghostSpawns], NEW gone, NEW new \in SUBSET Ghost,
         NEW birth \in [new -> board.births], NEW rotten \in Nat, NEW otherEnd,
         Control(grown, spawn, gone, birth, rotten, otherEnd)
  PROVE  Clockwork'
<1>1. /\ TypeOK /\ board \in Boards /\ at = 1 /\ at \in Player /\ stage = "control"
  BY DEF Control, Clockwork, TypeOK, InTurn
<1>2. /\ board.dots \subseteq Cell /\ board.births \subseteq Cell
      /\ board.ghostSpawns \subseteq Cell
  BY <1>1, BoardFacts
<1> DEFINE W == {}
<1>3. Party(player', W) /\ \A p \in W : stage' = "players" /\ p >= at'
  BY <1>1 DEF Clockwork, Clocked, Awaiting, Control
<1> HIDE DEF W
<1>4. count' \in [Sector -> Nat]
  <2>1. ASSUME NEW s \in Sector PROVE count[s] + Cardinality(grown \cap In(s)) \in Nat
    <3>1. grown \in SUBSET Cell
      BY <1>2
    <3>2. Cardinality(grown \cap In(s)) \in Nat
      BY <1>1, <3>1, CountType
    <3>3. count[s] \in Nat
      BY <1>1 DEF TypeOK
    <3> QED
      BY <3>2, <3>3
  <2>2. count' = [s \in Sector |-> count[s] + Cardinality(grown \cap In(s))]
    BY DEF Control
  <2> QED
    BY <2>1, <2>2
<1>5. captured' \in SUBSET Sector
  <2>1. captured' \subseteq Bare \cup captured
    BY DEF Control
  <2> QED
    BY <1>1, <2>1 DEF Bare, TypeOK
<1>6. ghost' \in [Ghost -> GhostRecord]
  <2>1. ASSUME NEW g \in Ghost PROVE Spawned(g, spawn[g]) \in GhostRecord
    <3>1. spawn[g] \in Cell
      BY <1>2
    <3> QED
      BY <3>1, SpawnedType
  <2>2. ASSUME NEW g \in DOMAIN birth PROVE Spawned(g, birth[g]) \in GhostRecord
    <3>1. birth[g] \in Cell /\ g \in Ghost
      BY <1>2
    <3> QED
      BY <3>1, SpawnedType
  <2>3. ASSUME NEW g \in Ghost
        PROVE  ghost[g] \in GhostRecord
               /\ [ghost[g] EXCEPT !.hp = 0, !.stun = 0] \in GhostRecord
    <3>1. ghost[g] \in GhostRecord /\ 0 \in 0..BossHp /\ 0 \in Nat
      BY <1>1, NumbersAssumption DEF TypeOK
    <3> QED
      BY <3>1 DEF GhostRecord
  <2>4. ghost' = [g \in Ghost |->
                 IF g \in DOMAIN birth THEN Spawned(g, birth[g])
                 ELSE IF g \in gone THEN [ghost[g] EXCEPT !.hp = 0, !.stun = 0]
                 ELSE IF g \in Present(ghost) /\ board.sector[ghost[g].cell] \in Bare
                 THEN Spawned(g, spawn[g]) ELSE ghost[g]]
    BY DEF Control
  <2> QED
    BY <2>1, <2>2, <2>3, <2>4
<1>7. fruits' \in Seq(board.fruits)
  <2>1. fruits \in Seq(board.fruits) /\ fruits' = SubSeq(fruits, rotten + 1, Len(fruits))
    BY <1>1 DEF Control, TypeOK
  <2>2. /\ \A j \in (rotten + 1)..Len(fruits) : fruits[j] \in board.fruits
        /\ rotten + 1 \in Int /\ Len(fruits) \in Int
    BY <2>1
  <2>3. SubSeq(fruits, rotten + 1, Len(fruits)) \in Seq(board.fruits)
    BY <2>2, SubSeqProperties, Zenon
  <2> QED
    BY <2>1, <2>3
<1>8. before' \in [player : [Player -> Cell], ghost : [Ghost -> Cell]]
  <2>1. before' = Positions(player, ghost')
    BY DEF Control
  <2>2. player \in [Player -> PlayerRecord]
    BY <1>1 DEF TypeOK
  <2> QED
    BY <1>6, <2>1, <2>2, PositionsType
<1>9. stage' \in Stage /\ at' = 1
  <2>1. stage' = "over" \/ stage' = "idle"
    BY DEF Control
  <2> QED
    BY <1>1, <2>1 DEF Control, Stage
<1>10. /\ board' = board /\ open' \in SUBSET Gate /\ permanent' \in SUBSET Gate
       /\ dots' \in SUBSET board.dots /\ pellets' \in SUBSET board.pellets
       /\ at' \in Player
  BY <1>1 DEF Control, TypeOK
<1> QED
  BY <1>1, <1>3, <1>4, <1>5, <1>6, <1>7, <1>8, <1>9, <1>10, Assembled

LEMMA ClockworkNext == Clockwork /\ [Next]_vars => Clockwork'
<1> SUFFICES ASSUME Clockwork, [Next]_vars PROVE Clockwork'
  OBVIOUS
<1>1. CASE \E back \in SUBSET (board.pellets \ pellets),
              new \in {{}} \cup {{f} : f \in board.fruits} : BeginTick(back, new)
  BY <1>1, ClockworkBegin
<1>2. CASE RespawnTurn
  BY <1>2, ClockworkRespawn
<1>3. CASE DownTurn
  BY <1>3, ClockworkDown
<1>4. CASE \E asks \in BOOLEAN : StayTurn(asks)
  BY <1>4, ClockworkStay
<1>5. CASE \E asks \in BOOLEAN, c \in Cell : MoveTurn(asks, c)
  BY <1>5, ClockworkMove
<1>6. CASE \E goal \in [Ghost -> Cell] : GhostsMove(goal)
  BY <1>6, ClockworkGhosts
<1>7. CASE NoCollision
  BY <1>7, ClockworkNoCollision
<1>8. CASE \E spawn \in [Ghost -> board.ghostSpawns] : Strike(spawn)
  BY <1>8, ClockworkStrike
<1>9. CASE GoDown
  BY <1>9, ClockworkGoDown
<1>10. ASSUME NEW grown \in SUBSET board.dots, NEW spawn \in [Ghost -> board.ghostSpawns],
              NEW gone \in {{}} \cup {Surplus(target) : target \in GhostTargets},
              NEW rotten \in 0..Len(fruits), NEW otherEnd \in BOOLEAN,
              NEW new \in SUBSET NewGhosts(gone), NEW birth \in [new -> board.births],
              Control(grown, spawn, gone, birth, rotten, otherEnd)
       PROVE  Clockwork'
  <2>1. new \in SUBSET Ghost
    BY DEF NewGhosts
  <2>2. rotten \in Nat
    <3>1. fruits \in Seq(board.fruits)
      BY DEF Clockwork, TypeOK
    <3> QED
      BY <3>1
  <2> QED
    BY <1>10, <2>1, <2>2, ClockworkControl
<1>11. CASE UNCHANGED vars
  <2> DEFINE W == {p \in Player : Awaiting(p)}
  <2>1. board' = board
    BY <1>11 DEF vars
  <2>2. Party(player', W) /\ \A p \in W : stage' = "players" /\ p >= at'
    BY <1>11 DEF Clockwork, Clocked, Awaiting, vars
  <2> HIDE DEF W
  <2> QED
    BY <1>11, <2>1, <2>2, Assembled DEF vars, Clockwork, TypeOK, InTurn
<1> QED
  BY <1>1, <1>2, <1>3, <1>4, <1>5, <1>6, <1>7, <1>8, <1>9, <1>10, <1>11 DEF Next

LEMMA ClockworkAlways == Spec => []Clockwork
<1>1. Init => Clockwork
  BY ClockworkInit
<1>2. Clockwork /\ [Next]_vars => Clockwork'
  BY ClockworkNext
<1> QED
  BY <1>1, <1>2, PTL DEF Spec

\* Whatever the map and however many play, every record stays within its bounds:
\* stocks, gauge and the time on the floor, the boss's points of life, the dots
\* that lie and the queue of fruits (game.ts:265-1553).
THEOREM TypeCorrect == Spec => []TypeOK
<1>1. Clockwork => TypeOK
  BY DEF Clockwork
<1> QED
  BY <1>1, ClockworkAlways, PTL

\* The clocks of all players always belong to their states, though pellets,
\* awakenings and apples of one player change the clocks of the others, before or
\* after their turn in the tick (game.ts:464-486, 1049-1160, 1396-1428).
THEOREM ClocksCorrect == Spec => []ClocksAgree
<1>1. Clockwork => ClocksAgree
  <2> SUFFICES ASSUME Clockwork, NEW p \in Player
               PROVE  /\ player[p].power > 0 => player[p].state = "power"
                      /\ player[p].state = "power" => player[p].power > 0 \/ Awaiting(p)
                      /\ player[p].grace > 0 => Standing(player, p)
                      /\ ~Standing(player, p) => player[p].down < RescueTicks \/ Awaiting(p)
                      /\ Standing(player, p) => player[p].down = 0
    BY DEF ClocksAgree
  <2>1. Good(player[p]) /\ (~Awaiting(p) => Turned(player[p]))
    BY DEF Clockwork, Clocked, Party
  <2> QED
    BY <2>1 DEF Good, Turned, Standing
<1> QED
  BY <1>1, ClockworkAlways, PTL

-----------------------------------------------------------------------------
(* The gates.                                                              *)

\* What is open is open by a key or because its switches were held when the tick
\* began, and are still by players who stand; who has not had its turn is where
\* it was then.
Guarded ==
  /\ permanent \subseteq open
  /\ stage \in {"players", "ghosts"} =>
       \A g \in open \ permanent : Holding(Player, g)
  /\ stage = "players" => \A p \in Player : p >= at => player[p].cell = before.player[p]

\* Nobody who stood has gone down since: the switches are held as they were.
LEMMA StillHolding ==
  ASSUME board' = board, before' = before,
         \A p \in Player : Standing(player, p) => Standing(player', p),
         NEW g \in Gate, Holding(Player, g)
  PROVE  Holding(Player, g)'
<1>1. PICK q \in Player, r \in Player :
        /\ q # r
        /\ before.player[q] = board.gates[g].switchA /\ Standing(player, q)
        /\ before.player[r] = board.gates[g].switchB /\ Standing(player, r)
  BY DEF Holding
<1>2. Player' = Player /\ Standing(player, q)' /\ Standing(player, r)'
  BY <1>1, SameBoard DEF Standing
<1> QED
  BY <1>1, <1>2 DEF Holding

\* The player whose turn it is takes it; the others stay.
LEMMA GuardedTurn ==
  ASSUME Clockwork, Guarded, stage = "players", NextPlayer("ghosts"),
         board' = board, before' = before,
         permanent \subseteq permanent', permanent' \in SUBSET Gate,
         open' = open \cup permanent',
         \A p \in Player : Standing(player, p) => Standing(player', p),
         \A p \in Player \ {at} : player'[p].cell = player[p].cell
  PROVE  Guarded'
<1>1. TypeOK /\ board \in Boards /\ Player' = Player
  BY SameBoard DEF Clockwork, TypeOK
<1>2. Player = 1..Len(board.home) /\ Len(board.home) \in Nat \ {0} /\ at \in Player
  BY <1>1, BoardFacts DEF TypeOK
<1>3. ASSUME NEW g \in open' \ permanent' PROVE Holding(Player, g)'
  <2>1. g \in open \ permanent /\ g \in Gate
    BY <1>1 DEF TypeOK
  <2> QED
    BY <2>1, StillHolding DEF Guarded
<1>4. ASSUME NEW p \in Player, stage' = "players", p >= at'
      PROVE  player'[p].cell = before.player[p]
  <2>1. at' = at + 1
    BY <1>4 DEF NextPlayer
  <2>2. p # at /\ p >= at
    BY <1>2, <1>4, <2>1
  <2> QED
    BY <2>2 DEF Guarded
<1>5. \A g \in open' \ permanent' : Holding(Player, g)'
  BY <1>3
<1> QED
  BY <1>1, <1>4, <1>5 DEF Guarded, Holding

\* Who moves is in the cell it moves to; the others stay, and nobody goes down.
LEMMA MoveKept ==
  ASSUME Clockwork, NEW asks \in BOOLEAN, NEW c \in Cell, MoveTurn(asks, c)
  PROVE  /\ player'[at].cell = c
         /\ \A p \in Player \ {at} : player'[p].cell = player[p].cell
         /\ \A p \in Player : Standing(player, p) => Standing(player', p)
<1>0. board \in Boards /\ at \in Player
  BY DEF Clockwork, TypeOK
<1>1. stage = "players" /\ Standing(player, at) /\ player' = Entered(Ready(asks), at, c)
  BY DEF MoveTurn
<1> DEFINE W == {p \in Player : Awaiting(p)}
<1> HIDE DEF W
<1>2. Party(Ready(asks), W \ {at}) /\ Kept(player, Ready(asks))
  BY <1>0, <1>1, ReadyParty DEF Clockwork, Clocked, W
<1>3. at \in Player \ (W \ {at})
  BY <1>0
<1> DEFINE E == Entered(Ready(asks), at, c)
           moved == [Ready(asks) EXCEPT ![at].cell = c]
<1>4. /\ Kept(moved, E) /\ E[at].cell = c
      /\ \A q \in Player \ {at} : /\ E[q].cell = Ready(asks)[q].cell
                                  /\ Standing(Ready(asks), q) => Standing(E, q)
  BY <1>0, <1>2, <1>3, EnteredParty
<1>5. Standing(moved, at)
  <2>1. Ready(asks) \in [Player -> PlayerRecord] /\ Standing(Ready(asks), at)
    BY <1>0, <1>1, <1>2 DEF Party, Kept
  <2> QED
    BY <1>0, <2>1 DEF Standing, PlayerRecord
<1> HIDE DEF moved, E
<1>6. /\ \A p \in Player : Standing(player, p) => Standing(E, p)
      /\ \A p \in Player \ {at} : E[p].cell = player[p].cell
  BY <1>0, <1>2, <1>4, <1>5 DEF Kept
<1> QED
  BY <1>1, <1>4, <1>6 DEF E

LEMMA GuardedNext == Clockwork /\ Guarded /\ [Next]_vars => Guarded'
<1> SUFFICES ASSUME Clockwork, Guarded, [Next]_vars PROVE Guarded'
  OBVIOUS
<1>0. TypeOK /\ board \in Boards /\ at \in Player /\ permanent \in SUBSET Gate
      /\ open \in SUBSET Gate /\ open = open \cup permanent
  BY DEF Clockwork, TypeOK, Guarded
<1>1. ASSUME NEW back \in SUBSET (board.pellets \ pellets), NEW new, BeginTick(back, new)
      PROVE  Guarded'
  <2>1. /\ board' = board /\ permanent' = permanent /\ stage' = "players"
        /\ open' = OpenGates(player) /\ before' = Positions(player, ghost)
        /\ player' = [p \in Player |-> Older(player[p])]
    BY <1>1 DEF BeginTick
  <2>2. Player' = Player
    BY <2>1, SameBoard
  <2>3. ASSUME NEW p \in Player
        PROVE  player'[p].state = player[p].state /\ player'[p].cell = player[p].cell
               /\ before'.player[p] = player[p].cell
    <3>1. stage = "idle" /\ Party(player, {})
      BY <1>1 DEF BeginTick, Clockwork, Clocked, Awaiting
    <3>2. Good(player[p]) /\ Turned(player[p])
      BY <3>1 DEF Party
    <3>3. Older(player[p]).state = player[p].state /\ Older(player[p]).cell = player[p].cell
      BY <3>2, OlderGood
    <3> QED
      BY <2>1, <3>3 DEF Positions
  <2>4. ASSUME NEW g \in open' \ permanent' PROVE Holding(Player, g)'
    <3>1. g \in Gate /\ Held(player, board.gates[g].switchA)
          /\ Held(player, board.gates[g].switchB)
      BY <2>1 DEF OpenGates
    <3>2. PICK q \in Player : Standing(player, q) /\ player[q].cell = board.gates[g].switchA
      BY <3>1 DEF Held
    <3>3. PICK r \in Player : Standing(player, r) /\ player[r].cell = board.gates[g].switchB
      BY <3>1 DEF Held
    <3>4. q # r
      BY <1>0, <3>1, <3>2, <3>3, GateFacts
    <3>5. Standing(player, q)' /\ Standing(player, r)'
      BY <2>3, <3>2, <3>3 DEF Standing
    <3>6. before'.player[q] = board'.gates[g].switchA
          /\ before'.player[r] = board'.gates[g].switchB
      BY <2>1, <2>3, <3>2, <3>3
    <3> QED
      BY <2>2, <3>4, <3>5, <3>6 DEF Holding
  <2>5. \A g \in open' \ permanent' : Holding(Player, g)'
    BY <2>4
  <2>6. permanent' \subseteq open'
    BY <2>1 DEF OpenGates
  <2> QED
    BY <2>2, <2>3, <2>5, <2>6 DEF Guarded
<1>2. CASE RespawnTurn
  <2>1. PICK c \in RespawnCells(at) :
          player' = [player EXCEPT ![at] =
                       [Revived(Penalised(@), RespawnGraceTicks) EXCEPT !.cell = c]]
    BY <1>2 DEF RespawnTurn
  <2>2. player \in [Player -> PlayerRecord]
    BY <1>0 DEF TypeOK
  <2>3. \A p \in Player \ {at} : player'[p] = player[p]
    BY <2>1, <2>2
  <2>4. ~Standing(player, at)
    BY <1>2 DEF RespawnTurn
  <2>5. \A p \in Player : Standing(player, p) => Standing(player', p)
    BY <2>3, <2>4 DEF Standing
  <2> QED
    BY <1>0, <1>2, <2>3, <2>5, GuardedTurn DEF RespawnTurn
<1>3. CASE DownTurn
  <2>1. player' = player /\ \A p \in Player : Standing(player, p) => Standing(player', p)
    BY <1>3 DEF DownTurn
  <2> QED
    BY <1>0, <1>3, <2>1, GuardedTurn DEF DownTurn
<1>4. ASSUME NEW asks \in BOOLEAN, StayTurn(asks) PROVE Guarded'
  <2>1. Kept(player, player')
    BY <1>0, <1>4, ReadyParty DEF StayTurn, Clockwork, Clocked
  <2> QED
    BY <1>0, <1>4, <2>1, GuardedTurn DEF StayTurn, Kept
<1>5. ASSUME NEW asks \in BOOLEAN, NEW c \in Cell, MoveTurn(asks, c) PROVE Guarded'
  <2>1. /\ \A p \in Player \ {at} : player'[p].cell = player[p].cell
        /\ \A p \in Player : Standing(player, p) => Standing(player', p)
    BY <1>5, MoveKept
  <2>2. permanent' \in SUBSET Gate /\ permanent \subseteq permanent'
        /\ open' = open \cup permanent'
    BY <1>0, <1>5 DEF MoveTurn, NearestGate
  <2> QED
    BY <1>0, <1>5, <2>1, <2>2, GuardedTurn DEF MoveTurn
<1>6. ASSUME NEW goal, GhostsMove(goal) PROVE Guarded'
  BY <1>6 DEF GhostsMove, Guarded
<1>7. ASSUME stage = "collisions", NextPlayer("control"),
             UNCHANGED <<board, open, permanent>>
      PROVE  Guarded'
  <2>1. stage' \notin {"players", "ghosts"}
    BY <1>7 DEF NextPlayer
  <2> QED
    BY <1>7, <2>1 DEF Guarded
<1>8. CASE NoCollision
  BY <1>7, <1>8 DEF NoCollision
<1>9. ASSUME NEW spawn, Strike(spawn) PROVE Guarded'
  BY <1>7, <1>9 DEF Strike
<1>10. CASE GoDown
  BY <1>7, <1>10 DEF GoDown
<1>11. ASSUME NEW grown, NEW spawn, NEW gone, NEW birth, NEW rotten, NEW otherEnd,
              Control(grown, spawn, gone, birth, rotten, otherEnd)
       PROVE  Guarded'
  <2>1. stage' \notin {"players", "ghosts"} /\ permanent' = permanent /\ open' = open
    BY <1>11 DEF Control
  <2> QED
    BY <2>1 DEF Guarded
<1>12. CASE UNCHANGED vars
  BY <1>12 DEF vars, Guarded, Holding, Standing, Player
<1> QED
  BY <1>1, <1>2, <1>3, <1>4, <1>5, <1>6, <1>8, <1>9, <1>10, <1>11, <1>12 DEF Next

LEMMA GuardedInit == Init => Guarded
BY DEF Init, Guarded

\* Who stays in its cell, or comes to one that is no gate cell, crosses no gate.
LEMMA NoCrossing ==
  ASSUME board \in Boards, NEW g \in Gate, NEW c, NEW d,
         c = d \/ d \notin GateCells \/ d \in board.spawns \cup board.ghostSpawns
  PROVE  ~Barred(g, c, d)
<1> DEFINE b == board.gates[g]
<1>1. /\ b.a # b.b /\ {b.a, b.b} \cap (board.spawns \cup board.ghostSpawns) = {}
      /\ {b.a, b.b} \subseteq GateCells
  BY GateFacts
<1>2. Barred(g, c, d) <=> {c, d} = {b.a, b.b}
  BY DEF Barred
<1> HIDE DEF b
<1> QED
  BY <1>1, <1>2

\* A gate that is crossed though no key opened it is open, and so held.
LEMMA CrossingHeld ==
  ASSUME Clockwork, Guarded, stage \in {"players", "ghosts"},
         NEW g \in Gate \ permanent, NEW c, NEW d \in Steps(c), Barred(g, c, d)
  PROVE  Holding(Player, g)
<1>1. g \in open
  BY DEF Steps
<1> QED
  BY <1>1 DEF Guarded

\* The one who crosses holds no switch itself.
LEMMA CrossingOthers ==
  ASSUME Clockwork, Guarded, stage = "players",
         NEW g \in Gate \ permanent, NEW d \in Steps(player[at].cell),
         Barred(g, player[at].cell, d)
  PROVE  Holding(Player \ {at}, g)
<1>1. board \in Boards /\ at \in Player /\ g \in Gate
  BY DEF Clockwork, TypeOK
<1>2. Holding(Player, g)
  BY CrossingHeld
<1>3. PICK q \in Player, r \in Player :
        /\ q # r
        /\ before.player[q] = board.gates[g].switchA /\ Standing(player, q)
        /\ before.player[r] = board.gates[g].switchB /\ Standing(player, r)
  BY <1>2 DEF Holding
<1>4. at >= at
  BY <1>1, BoardFacts
<1>5. before.player[at] = player[at].cell
  BY <1>1, <1>4 DEF Guarded
<1>6. player[at].cell \in {board.gates[g].a, board.gates[g].b}
  BY DEF Barred
<1>7. player[at].cell \notin {board.gates[g].switchA, board.gates[g].switchB}
  BY <1>1, <1>6, GateFacts
<1>8. q # at /\ r # at
  BY <1>3, <1>5, <1>7
<1> QED
  BY <1>3, <1>8 DEF Holding

\* The gates in one step.
Crossings ==
  \A g \in Gate \ permanent :
    /\ \A p \in Player :
         Barred(g, player[p].cell, player'[p].cell) => Holding(Player \ {p}, g)
    /\ \A h \in Present(ghost) :
         Barred(g, ghost[h].cell, ghost'[h].cell) => Holding(Player, g)

\* Nobody moves but to where no gate is.
LEMMA CrossingsNone ==
  ASSUME board \in Boards,
         \A p \in Player : \/ player'[p].cell = player[p].cell
                           \/ player'[p].cell \notin GateCells
                           \/ player'[p].cell \in board.spawns,
         \A h \in Present(ghost) : \/ ghost'[h].cell = ghost[h].cell
                                   \/ ghost'[h].cell \in board.ghostSpawns
  PROVE  Crossings
<1>1. ASSUME NEW g \in Gate, NEW p \in Player
      PROVE  ~Barred(g, player[p].cell, player'[p].cell)
  BY NoCrossing
<1>2. ASSUME NEW g \in Gate, NEW h \in Present(ghost)
      PROVE  ~Barred(g, ghost[h].cell, ghost'[h].cell)
  BY NoCrossing
<1> QED
  BY <1>1, <1>2 DEF Crossings

LEMMA CrossingsNext == Clockwork /\ Guarded /\ Next => Crossings
<1> SUFFICES ASSUME Clockwork, Guarded, Next PROVE Crossings
  OBVIOUS
<1>0. /\ board \in Boards /\ at \in Player /\ player \in [Player -> PlayerRecord]
      /\ ghost \in [Ghost -> GhostRecord]
  BY DEF Clockwork, TypeOK
<1>1. ASSUME NEW back, NEW new, BeginTick(back, new) PROVE Crossings
  <2>1. \A p \in Player : player'[p].cell = player[p].cell
    <3>1. \A p \in Player : Older(player[p]).cell = player[p].cell
      BY <1>0 DEF Older, PlayerRecord
    <3> QED
      BY <1>1, <3>1 DEF BeginTick
  <2>2. \A h \in Ghost : ghost'[h].cell = ghost[h].cell
    BY <1>0, <1>1 DEF BeginTick, GhostRecord
  <2> QED
    BY <1>0, <2>1, <2>2, CrossingsNone DEF Present
<1>2. CASE RespawnTurn
  <2>1. PICK c \in RespawnCells(at) :
          player' = [player EXCEPT ![at] =
                       [Revived(Penalised(@), RespawnGraceTicks) EXCEPT !.cell = c]]
    BY <1>2 DEF RespawnTurn
  <2>2. \A p \in Player \ {at} : player'[p] = player[p]
    BY <1>0, <2>1
  <2>3. player'[at].cell = c
    <3> DEFINE r == Revived(Penalised(player[at]), RespawnGraceTicks)
    <3>1. player' = [player EXCEPT ![at] = [r EXCEPT !.cell = c]]
      BY <1>0, <2>1
    <3>2. r \in PlayerRecord
      BY <1>0, PenalisedRecord, RevivedGood, NumbersAssumption DEF Good
    <3> HIDE DEF r
    <3> QED
      BY <1>0, <3>1, <3>2 DEF PlayerRecord
  <2>4. c \notin GateCells \/ c \in board.spawns
    BY <1>0, <2>1, RespawnPlace
  <2>5. ghost' = ghost
    BY <1>2 DEF RespawnTurn
  <2> QED
    BY <1>0, <2>2, <2>3, <2>4, <2>5, CrossingsNone
<1>3. CASE DownTurn
  BY <1>0, <1>3, CrossingsNone DEF DownTurn
<1>4. ASSUME NEW asks \in BOOLEAN, StayTurn(asks) PROVE Crossings
  <2>1. Kept(player, player')
    BY <1>0, <1>4, ReadyParty DEF StayTurn, Clockwork, Clocked
  <2> QED
    BY <1>0, <1>4, <2>1, CrossingsNone DEF StayTurn, Kept
<1>5. ASSUME NEW asks \in BOOLEAN, NEW c \in Cell, MoveTurn(asks, c) PROVE Crossings
  <2>1. stage = "players" /\ c \in Steps(player[at].cell)
    BY <1>5 DEF MoveTurn
  <2>2. player'[at].cell = c /\ \A q \in Player \ {at} : player'[q].cell = player[q].cell
    BY <1>5, MoveKept
  <2>3. \A h \in Ghost : ghost'[h].cell = ghost[h].cell
    BY <1>0, <1>5 DEF MoveTurn, GhostRecord
  <2>4. ASSUME NEW g \in Gate \ permanent, NEW p \in Player,
               Barred(g, player[p].cell, player'[p].cell)
        PROVE  Holding(Player \ {p}, g)
    <3>1. p = at
      BY <1>0, <2>2, <2>4, NoCrossing
    <3> QED
      BY <2>1, <2>2, <2>4, <3>1, CrossingOthers
  <2>5. ASSUME NEW g \in Gate \ permanent, NEW h \in Present(ghost)
        PROVE  ~Barred(g, ghost[h].cell, ghost'[h].cell)
    BY <1>0, <2>3, NoCrossing DEF Present
  <2> QED
    BY <2>4, <2>5 DEF Crossings
<1>6. ASSUME NEW goal, GhostsMove(goal) PROVE Crossings
  <2>1. stage = "ghosts" /\ player' = player
    BY <1>6 DEF GhostsMove
  <2>2. ASSUME NEW h \in Present(ghost)
        PROVE  ghost'[h].cell = ghost[h].cell \/ ghost'[h].cell \in Steps(ghost[h].cell)
    <3>1. h \in Ghost /\ goal[h] \in Goals(h)
      BY <1>6, <2>2 DEF Present, GhostsMove
    <3>2. ghost'[h].cell = goal[h]
      BY <1>0, <1>6, <3>1 DEF GhostsMove, GhostRecord
    <3> QED
      BY <3>1, <3>2 DEF Goals
  <2>3. ASSUME NEW g \in Gate \ permanent, NEW h \in Present(ghost),
               Barred(g, ghost[h].cell, ghost'[h].cell)
        PROVE  Holding(Player, g)
    BY <1>0, <2>1, <2>2, <2>3, NoCrossing, CrossingHeld
  <2>4. ASSUME NEW g \in Gate \ permanent, NEW p \in Player
        PROVE  ~Barred(g, player[p].cell, player'[p].cell)
    BY <1>0, <2>1, NoCrossing
  <2> QED
    BY <2>3, <2>4 DEF Crossings
<1>7. CASE NoCollision
  BY <1>0, <1>7, CrossingsNone DEF NoCollision
<1>8. ASSUME NEW spawn \in [Ghost -> board.ghostSpawns], Strike(spawn) PROVE Crossings
  <2>1. \A p \in Player : player'[p].cell = player[p].cell
    BY <1>0, <1>8 DEF Strike, Downed, PlayerRecord
  <2>2. ASSUME NEW h \in Ghost
        PROVE  ghost'[h].cell = ghost[h].cell \/ ghost'[h].cell \in board.ghostSpawns
    BY <1>0, <1>8 DEF Strike, Spawned, GhostRecord
  <2> QED
    BY <1>0, <2>1, <2>2, CrossingsNone DEF Present
<1>9. CASE GoDown
  <2>1. \A p \in Player : player'[p].cell = player[p].cell
    BY <1>0, <1>9 DEF GoDown, Downed, PlayerRecord
  <2> QED
    BY <1>0, <1>9, <2>1, CrossingsNone DEF GoDown
<1>10. ASSUME NEW grown, NEW spawn \in [Ghost -> board.ghostSpawns], NEW gone, NEW rotten,
              NEW otherEnd, NEW new \in SUBSET NewGhosts(gone),
              NEW birth \in [new -> board.births],
              Control(grown, spawn, gone, birth, rotten, otherEnd)
       PROVE  Crossings
  <2>1. player' = player
    BY <1>10 DEF Control
  <2>2. ASSUME NEW h \in Present(ghost)
        PROVE  ghost'[h].cell = ghost[h].cell \/ ghost'[h].cell \in board.ghostSpawns
    <3>1. h \in Ghost /\ h \notin DOMAIN birth
      BY DEF Present, NewGhosts
    <3> QED
      BY <1>0, <1>10, <3>1 DEF Control, Spawned, GhostRecord
  <2> QED
    BY <1>0, <2>1, <2>2, CrossingsNone
<1> QED
  BY <1>1, <1>2, <1>3, <1>4, <1>5, <1>6, <1>7, <1>8, <1>9, <1>10 DEF Next

\* However many play and wherever the gates are, a gate that no key has opened is
\* passed only while two others hold its switches, so that three have to play
\* together (game.ts:369-389, 993-1015).
THEOREM CrossingCorrect == Spec => CrossingTakesThree
<1>1. Init => Guarded
  BY GuardedInit
<1>2. Clockwork /\ Guarded /\ [Next]_vars => Guarded'
  BY GuardedNext
<1>3. Spec => []Guarded
  BY <1>1, <1>2, ClockworkAlways, PTL DEF Spec
<1>4. Clockwork /\ Guarded /\ [Next]_vars => [Crossings]_vars
  BY CrossingsNext
<1>5. Spec => [][Crossings]_vars
  BY <1>3, <1>4, ClockworkAlways, PTL DEF Spec
<1> QED
  BY <1>5 DEF Crossings, CrossingTakesThree

-----------------------------------------------------------------------------
(* The sectors.                                                            *)

\* How many dots a captured sector may have, at least one.
LEMMA LostAbove ==
  ASSUME board \in Boards, NEW s \in Sector
  PROVE  \E m \in Nat : m >= 1 /\ \A n : Lost(s, n) <=> n > m
<1>1. Cardinality(board.dots \cap In(s)) \in Nat
  <2>1. board.dots \in SUBSET Cell
    BY BoardFacts
  <2> QED
    BY <2>1, CountType
<1> DEFINE m == (Cardinality(board.dots \cap In(s)) * 5) \div 100
<1>2. m \in Nat
  BY <1>1
<1>3. \A n : Lost(s, n) <=> n > Larger(1, m)
  BY DEF Lost
<1> HIDE DEF m
<1>4. Larger(1, m) \in Nat /\ Larger(1, m) >= 1
  BY <1>2 DEF Larger
<1> QED
  BY <1>3, <1>4

\* Dots lie where no pellet and no gate is.
LEMMA DotsApart ==
  ASSUME board \in Boards, dots \in SUBSET board.dots
  PROVE  dots \cap (board.pellets \cup GateCells) = {}
<1>1. Apart(board)
  BY BoardsAssumption
<1>2. board.dots \cap board.pellets = {}
  BY <1>1 DEF Apart
<1>3. ASSUME NEW c \in GateCells PROVE c \notin board.dots
  <2>1. PICK g \in Gate : c \in {board.gates[g].a, board.gates[g].b,
                                 board.gates[g].switchA, board.gates[g].switchB}
    BY DEF GateCells
  <2>2. {board.gates[g].a, board.gates[g].b, board.gates[g].switchA, board.gates[g].switchB}
          \cap (board.spawns \cup board.ghostSpawns \cup board.dots \cup board.pellets) = {}
    BY <1>1 DEF Apart, Gate
  <2> QED
    BY <2>1, <2>2
<1> QED
  BY <1>2, <1>3

\* What the sectors say, in parts: the dots are counted, a captured sector is not
\* lost, and between ticks the others have dots.
Counted == \A s \in Sector : count[s] = Cardinality(dots \cap In(s))
NoneLost == \A s \in captured : ~Lost(s, count[s])
ToEat == stage = "idle" => \A s \in Sector \ captured : count[s] > 0

Tallied == Counted /\ NoneLost /\ ToEat

LEMMA TalliedInit == Init => Tallied
<1> SUFFICES ASSUME Init PROVE Tallied
  OBVIOUS
<1>1. board \in Boards /\ count = [s \in Sector |-> Cardinality(dots \cap In(s))]
      /\ captured = {} /\ dots = board.dots
  BY DEF Init
<1>2. ASSUME NEW s \in Sector PROVE count[s] > 0
  <2>1. board.dots \in SUBSET Cell
    BY <1>1, BoardFacts
  <2>2. PICK c \in Cell : board.sector[c] = s
    BY DEF Sector
  <2>3. PICK d \in board.dots : board.sector[d] = board.sector[c]
    BY <1>1, BoardsAssumption DEF Apart, Cell
  <2>4. dots \cap In(s) # {}
    BY <1>1, <2>1, <2>2, <2>3 DEF In
  <2>5. IsFiniteSet(dots \cap In(s)) /\ Cardinality(dots \cap In(s)) \in Nat
    BY <1>1, <2>1, CountType
  <2>6. Cardinality(dots \cap In(s)) # 0
    BY <2>4, <2>5, FS_EmptySet
  <2> QED
    BY <1>1, <2>5, <2>6
<1> QED
  BY <1>1, <1>2 DEF Tallied, Counted, NoneLost, ToEat

\* Where the dots stay as they are and the tick does not end.
LEMMA TalliedStill ==
  ASSUME Tallied, UNCHANGED <<board, dots, count, captured>>,
         stage' # "idle" \/ stage = "idle"
  PROVE  Tallied'
<1>1. Sector' = Sector /\ Cell' = Cell
  BY SameBoard
<1>2. \A s \in Sector : In(s)' = In(s) /\ (Lost(s, count[s])' <=> Lost(s, count[s]))
  BY <1>1 DEF In, Lost
<1>3. \A s \in captured : (Lost(s, count[s])' <=> Lost(s, count[s]))
  BY <1>1 DEF In, Lost
<1>4. Counted'
  BY <1>1, <1>2 DEF Tallied, Counted
<1>5. NoneLost'
  BY <1>3 DEF Tallied, NoneLost
<1>6. ToEat'
  BY <1>1 DEF Tallied, ToEat
<1> QED
  BY <1>4, <1>5, <1>6 DEF Tallied

LEMMA TalliedMove ==
  ASSUME Clockwork, Tallied, NEW asks, NEW c \in Cell, MoveTurn(asks, c)
  PROVE  Tallied'
<1>1. /\ board \in Boards /\ dots \in SUBSET Cell /\ count \in [Sector -> Nat]
      /\ captured \in SUBSET Sector
  BY BoardFacts DEF Clockwork, TypeOK
<1>2. board' = board /\ captured' = captured /\ dots' = dots \ {c} /\ count' = Eaten(c)
  BY DEF MoveTurn
<1>3. Sector' = Sector /\ Cell' = Cell /\ board.sector[c] \in Sector
  BY <1>2, SameBoard DEF Sector
<1>4. \A s : In(s)' = In(s)
  BY <1>2, <1>3 DEF In
<1>5. ASSUME NEW s \in Sector
      PROVE  count'[s] = Cardinality(dots' \cap In(s)) /\ count'[s] <= count[s]
             /\ count'[s] \in Nat
  <2> DEFINE D == dots \cap In(s)
  <2>1. IsFiniteSet(D) /\ Cardinality(D) \in Nat /\ count[s] = Cardinality(D)
    BY <1>1, CountType DEF Tallied, Counted
  <2>2. CASE s = board.sector[c] /\ c \in dots
    <3>1. count'[s] = Less(count[s])
      BY <1>1, <1>2, <1>3, <2>2 DEF Eaten
    <3>2. dots' \cap In(s) = D \ {c} /\ c \in D
      BY <1>2, <2>2 DEF In
    <3> HIDE DEF D
    <3>3. Cardinality(D \ {c}) = Cardinality(D) - 1 /\ IsFiniteSet(D \ {c})
      BY <2>1, <3>2, FS_RemoveElement
    <3>4. Cardinality(D \ {c}) \in Nat
      BY <3>3, FS_CardinalityType
    <3>5. Less(count[s]) = Cardinality(D \ {c}) /\ Less(count[s]) <= count[s]
      BY <2>1, <3>3, <3>4 DEF Less
    <3> QED
      BY <3>1, <3>2, <3>4, <3>5
  <2>3. CASE ~(s = board.sector[c] /\ c \in dots)
    <3>1. count'[s] = count[s]
      BY <1>1, <1>2, <1>3, <2>3 DEF Eaten
    <3>2. dots' \cap In(s) = D
      BY <1>2, <2>3 DEF In
    <3> QED
      BY <2>1, <3>1, <3>2
  <2> QED
    BY <2>2, <2>3
<1>6. Counted'
  BY <1>3, <1>4, <1>5 DEF Counted
<1>7. ASSUME NEW s \in captured PROVE ~Lost(s, count[s])'
  <2>1. s \in Sector /\ ~Lost(s, count[s])
    BY <1>1 DEF Tallied, NoneLost
  <2>2. PICK m \in Nat : m >= 1 /\ \A n : Lost(s, n) <=> n > m
    BY <1>1, <2>1, LostAbove
  <2>3. ~(count[s] > m) /\ count[s] \in Nat
    BY <1>1, <2>1, <2>2
  <2>4. ~(count'[s] > m)
    <3>1. count'[s] <= count[s] /\ count'[s] \in Nat
      BY <1>5, <2>1
    <3> QED
      BY <2>2, <2>3, <3>1
  <2>5. ~Lost(s, count'[s])
    BY <2>2, <2>4
  <2> QED
    BY <1>2, <1>4, <2>5 DEF Lost
<1>8. NoneLost'
  BY <1>2, <1>7 DEF NoneLost
<1>9. stage' # "idle"
  BY DEF MoveTurn, NextPlayer
<1> QED
  BY <1>6, <1>8, <1>9 DEF Tallied, ToEat

LEMMA TalliedControl ==
  ASSUME Clockwork, Tallied, NEW grown \in SUBSET board.dots, NEW spawn, NEW gone,
         NEW birth, NEW rotten, NEW otherEnd,
         Control(grown, spawn, gone, birth, rotten, otherEnd)
  PROVE  Tallied'
<1>1. /\ board \in Boards /\ dots \in SUBSET Cell /\ count \in [Sector -> Nat]
      /\ captured \in SUBSET Sector /\ grown \in SUBSET Cell
  BY BoardFacts DEF Clockwork, TypeOK
<1> DEFINE next(s) == count[s] + Cardinality(grown \cap In(s))
<1>2. /\ board' = board /\ dots' = dots \cup grown
      /\ grown \subseteq UNION {MayGrow(s) : s \in captured}
      /\ count' = [s \in Sector |-> next(s)]
      /\ captured' = Bare \cup {s \in captured : ~Lost(s, next(s))}
  BY DEF Control
<1>3. Sector' = Sector /\ Cell' = Cell
  BY <1>2, SameBoard
<1>4. \A s : In(s)' = In(s)
  BY <1>2, <1>3 DEF In
<1>5. ASSUME NEW s \in Sector
      PROVE  count'[s] = Cardinality(dots' \cap In(s)) /\ count'[s] = next(s)
             /\ next(s) \in Nat
  <2> DEFINE D == dots \cap In(s)
             G == grown \cap In(s)
  <2>1. IsFiniteSet(D) /\ Cardinality(D) \in Nat /\ count[s] = Cardinality(D)
        /\ IsFiniteSet(G) /\ Cardinality(G) \in Nat
    BY <1>1, CountType DEF Tallied, Counted
  <2>2. grown \cap dots = {}
    BY <1>2 DEF MayGrow
  <2>3. dots' \cap In(s) = D \cup G /\ D \cap G = {}
    BY <1>2, <2>2
  <2>4. count'[s] = next(s) /\ next(s) = Cardinality(D) + Cardinality(G)
    BY <1>2, <2>1
  <2> HIDE DEF D, G, next
  <2>5. Cardinality(D \cup G) = Cardinality(D) + Cardinality(G) - Cardinality(D \cap G)
    BY <2>1, FS_Union
  <2>6. Cardinality(D \cap G) = 0
    BY <2>3, FS_EmptySet
  <2>7. Cardinality(D \cup G) = Cardinality(D) + Cardinality(G)
        /\ Cardinality(D) + Cardinality(G) \in Nat
    BY <2>1, <2>5, <2>6
  <2> QED
    BY <2>3, <2>4, <2>7
<1>6. Counted'
  BY <1>3, <1>4, <1>5 DEF Counted
<1>7. ASSUME NEW s \in Bare PROVE next(s) = 0
  <2>1. s \in Sector /\ s \notin captured /\ count[s] = 0
    BY DEF Bare
  <2>2. grown \cap In(s) = {}
    BY <1>2, <2>1 DEF MayGrow, In
  <2>3. Cardinality(grown \cap In(s)) = 0
    BY <2>2, FS_EmptySet
  <2> QED
    BY <2>1, <2>3
<1>8. ASSUME NEW s \in captured' PROVE ~Lost(s, count[s])'
  <2>1. s \in Sector
    BY <1>1, <1>2 DEF Bare
  <2>2. ~Lost(s, next(s))
    <3>1. CASE s \in Bare
      <4>1. PICK m \in Nat : m >= 1 /\ \A n : Lost(s, n) <=> n > m
        BY <1>1, <2>1, LostAbove
      <4>2. ~(0 > m)
        OBVIOUS
      <4>3. ~Lost(s, 0)
        BY <4>1, <4>2
      <4> QED
        BY <1>7, <3>1, <4>3
    <3>2. CASE s \notin Bare
      BY <1>2, <3>2
    <3> QED
      BY <3>1, <3>2
  <2>3. ~Lost(s, count'[s])
    BY <1>5, <2>1, <2>2
  <2> QED
    BY <1>2, <1>4, <2>3 DEF Lost
<1>9. NoneLost'
  BY <1>8 DEF NoneLost
<1>10. ASSUME NEW s \in Sector \ captured' PROVE count'[s] > 0
  <2>1. CASE s \in captured
    <3>1. Lost(s, next(s))
      BY <1>2, <2>1
    <3>2. PICK m \in Nat : m >= 1 /\ \A n : Lost(s, n) <=> n > m
      BY <1>1, LostAbove
    <3>3. next(s) > m
      BY <3>1, <3>2
    <3>4. count'[s] = next(s) /\ next(s) \in Nat
      BY <1>5
    <3> HIDE DEF next
    <3> QED
      BY <3>2, <3>3, <3>4
  <2>2. CASE s \notin captured
    <3>1. count[s] # 0 /\ count[s] \in Nat
      BY <1>1, <1>2, <2>2 DEF Bare
    <3>2. Cardinality(grown \cap In(s)) \in Nat
      BY <1>1, CountType
    <3>3. count'[s] = next(s)
      BY <1>5
    <3>4. next(s) > 0
      BY <3>1, <3>2
    <3> QED
      BY <3>3, <3>4, Zenon
  <2> QED
    BY <2>1, <2>2
<1>11. ToEat'
  BY <1>3, <1>10 DEF ToEat
<1> QED
  BY <1>6, <1>9, <1>11 DEF Tallied

LEMMA TalliedNext == Clockwork /\ Tallied /\ [Next]_vars => Tallied'
<1> SUFFICES ASSUME Clockwork, Tallied, [Next]_vars PROVE Tallied'
  OBVIOUS
<1>1. ASSUME NEW back, NEW new, BeginTick(back, new) PROVE Tallied'
  BY <1>1, TalliedStill DEF BeginTick
<1>2. CASE RespawnTurn
  BY <1>2, TalliedStill DEF RespawnTurn, NextPlayer
<1>3. CASE DownTurn
  BY <1>3, TalliedStill DEF DownTurn, NextPlayer
<1>4. ASSUME NEW asks, StayTurn(asks) PROVE Tallied'
  BY <1>4, TalliedStill DEF StayTurn, NextPlayer
<1>5. ASSUME NEW asks, NEW c \in Cell, MoveTurn(asks, c) PROVE Tallied'
  BY <1>5, TalliedMove
<1>6. ASSUME NEW goal, GhostsMove(goal) PROVE Tallied'
  BY <1>6, TalliedStill DEF GhostsMove
<1>7. CASE NoCollision
  BY <1>7, TalliedStill DEF NoCollision, NextPlayer
<1>8. ASSUME NEW spawn, Strike(spawn) PROVE Tallied'
  BY <1>8, TalliedStill DEF Strike, NextPlayer
<1>9. CASE GoDown
  BY <1>9, TalliedStill DEF GoDown, NextPlayer
<1>10. ASSUME NEW grown \in SUBSET board.dots, NEW spawn, NEW gone, NEW birth, NEW rotten,
              NEW otherEnd, Control(grown, spawn, gone, birth, rotten, otherEnd)
       PROVE  Tallied'
  BY <1>10, TalliedControl
<1>11. CASE UNCHANGED vars
  BY <1>11, TalliedStill DEF vars
<1> QED
  BY <1>1, <1>2, <1>3, <1>4, <1>5, <1>6, <1>7, <1>8, <1>9, <1>10, <1>11 DEF Next

\* However many sectors there are: what a sector counts is what lies in it, a
\* captured one is never past the limit at which it is lost, and between ticks
\* the others have something to eat (game.ts:1065-1073, 1487-1605).
THEOREM SectorsCorrect == Spec => []SectorsAgree
<1>1. Init => Tallied
  BY TalliedInit
<1>2. Clockwork /\ Tallied /\ [Next]_vars => Tallied'
  BY TalliedNext
<1>3. Clockwork /\ Tallied => SectorsAgree
  <2> SUFFICES ASSUME Clockwork, Tallied PROVE SectorsAgree
    OBVIOUS
  <2>1. dots \cap (board.pellets \cup GateCells) = {}
    BY DotsApart DEF Clockwork, TypeOK
  <2> QED
    BY <2>1 DEF Tallied, Counted, NoneLost, ToEat, SectorsAgree
<1> QED
  BY <1>1, <1>2, <1>3, ClockworkAlways, PTL DEF Spec

=============================================================================
