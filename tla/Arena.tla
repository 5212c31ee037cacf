-------------------------------- MODULE Arena --------------------------------
(***************************************************************************)
(* One match of the reference TypeScript server on its map                 *)
(* (reference/ts-server/src/server/game.ts): gates and their switches,     *)
(* players that move, collect, awaken and rescue each other, ghosts that   *)
(* catch them, and the dots of the sectors.                                *)
(*                                                                         *)
(* `GameEngine.step` runs to its end before any message is handled.  A     *)
(* tick is the sequence of its calls; the players take their turns in the  *)
(* order of the `players` map, and so do they in `resolveGhostCollisions`. *)
(*                                                                         *)
(* Times are counted in ticks to or from the present one: `power` is       *)
(* powerUntil - nowMs and `down` is nowMs - downSince.  Nobody gets more   *)
(* than one cell further in a tick.  Directions, speed and the choices of  *)
(* AI players and ghosts only decide which of the open neighbouring cells  *)
(* is entered, if any, and whether an awakening is asked for: each is      *)
(* considered.  Likewise pellets, fruits and dots may come back whenever   *)
(* the code may let them.  Scores, events and the timeline are left out.   *)
(***************************************************************************)
EXTENDS Naturals, FiniteSets, Sequences

CONSTANTS
  Boards,          \* the maps a match is played on, see Board
  DotsForAwaken, MaxAwakenStock,
  PowerTicks, AwakenTicks, RescueTicks, RespawnGraceTicks, AppleGraceTicks,
  StunTicks,
  AuraRadius, StunRadius, SafeDistance,
  BossHp,
  FruitLimit,      \* fruits that lie on the map at a time
  GhostTargets,    \* how many ghosts there may have to be
  GhostSlack       \* how many more are let be

Kind == {"boss", "other"}
FruitType == {"cherry", "grape", "orange", "strawberry", "key", "apple"}

\* A map: its floor, which cells touch and how far apart they are, who starts
\* where, the gates with their switches, the sector of each cell, and where
\* dots, pellets and fruits may lie.  A ghost is born around a spawn cell, and
\* comes back in one.
Board(b) ==
  /\ IsFiniteSet(b.cell)
  /\ b.next \in [b.cell -> SUBSET b.cell]
  /\ b.dist \in [b.cell -> [b.cell -> Nat]]
  /\ b.home \in Seq(b.spawns) /\ b.home # <<>>
  /\ b.kind \in Seq(Kind)
  /\ b.gates \in Seq([a : b.cell, b : b.cell, switchA : b.cell, switchB : b.cell])
  /\ b.spawns \subseteq b.cell
  /\ b.ghostSpawns # {} /\ b.ghostSpawns \subseteq b.births /\ b.births \subseteq b.cell
  /\ b.sector \in [b.cell -> Nat]
  /\ b.dots \subseteq b.cell /\ b.pellets \subseteq b.cell
  /\ b.fruits \subseteq [cell : b.cell, type : FruitType]

\* What world.ts sees to: the two cells of a gate and its two switches are four
\* cells, nobody starts or comes back on one of them, and dots lie in every
\* sector and in cells of their own.
Apart(b) ==
  /\ \A i \in DOMAIN b.gates :
       LET g == b.gates[i]
           four == {g.a, g.b, g.switchA, g.switchB}
       IN  /\ g.a \notin {g.b, g.switchA, g.switchB}
           /\ g.b \notin {g.switchA, g.switchB}
           /\ g.switchA # g.switchB
           /\ four \cap (b.spawns \cup b.ghostSpawns \cup b.dots \cup b.pellets) = {}
  /\ b.dots \cap b.pellets = {}
  /\ \A c \in b.cell : \E d \in b.dots : b.sector[d] = b.sector[c]

ASSUME BoardsAssumption == \A b \in Boards : Board(b) /\ Apart(b)

ASSUME NumbersAssumption ==
  /\ DotsForAwaken \in Nat \ {0} /\ MaxAwakenStock \in Nat
  /\ PowerTicks \in Nat \ {0} /\ AwakenTicks \in Nat \ {0}
  /\ RescueTicks \in Nat \ {0}
  /\ RespawnGraceTicks \in Nat /\ AppleGraceTicks \in Nat /\ StunTicks \in Nat
  /\ AuraRadius \in Nat /\ StunRadius \in Nat /\ SafeDistance \in Nat
  /\ BossHp \in Nat \ {0} /\ FruitLimit \in Nat
  /\ GhostTargets \subseteq Nat /\ GhostSlack \in Nat

VARIABLES
  board,      \* world: what of it stays
  open,       \* gates that are open
  permanent,  \* gates a key has opened
  player,     \* players, in the order of the map
  ghost,      \* ghosts, in the order of the map; one with no hp left is deleted
  dots,       \* world.dots
  count,      \* sector -> dotCount
  captured,   \* sectors that are captured
  pellets,    \* cells of the active power pellets
  fruits,     \* fruits, in the order of the map
  before,     \* the positions before anybody moved in this tick
  stage,      \* where `step` is, or "over"
  at          \* the player whose turn it is

vars == <<board, open, permanent, player, ghost, dots, count, captured, pellets,
          fruits, before, stage, at>>

Cell == board.cell
Player == DOMAIN board.home
Ghost == DOMAIN board.kind
Gate == DOMAIN board.gates
Sector == {board.sector[c] : c \in Cell}

Larger(m, n) == IF m >= n THEN m ELSE n
Less(n) == IF n = 0 THEN 0 ELSE n - 1

PlayerRecord ==
  [cell : Cell, state : {"normal", "power", "down"},
   stocks : 0..MaxAwakenStock, gauge : 0..DotsForAwaken,
   power : Nat, down : 0..RescueTicks, grace : Nat,
   wide : BOOLEAN]                           \* nextAuraMultiplier is 2

GhostRecord == [cell : Cell, hp : 0..BossHp, stun : Nat]

Stage == {"idle", "players", "ghosts", "collisions", "control", "over"}

TypeOK ==
  /\ board \in Boards
  /\ open \in SUBSET Gate /\ permanent \in SUBSET Gate
  /\ player \in [Player -> PlayerRecord]
  /\ ghost \in [Ghost -> GhostRecord]
  /\ dots \in SUBSET board.dots
  /\ count \in [Sector -> Nat]
  /\ captured \in SUBSET Sector
  /\ pellets \in SUBSET board.pellets
  /\ fruits \in Seq(board.fruits)
  /\ before \in [player : [Player -> Cell], ghost : [Ghost -> Cell]]
  /\ stage \in Stage /\ at \in Player

-----------------------------------------------------------------------------
Standing(P, p) == P[p].state # "down"
Present(G) == {g \in Ghost : G[g].hp > 0}
Near(c, d, radius) == board.dist[c][d] <= radius
In(s) == {c \in Cell : board.sector[c] = s}

GateCells == UNION {{board.gates[g].a, board.gates[g].b,
                     board.gates[g].switchA, board.gates[g].switchB} : g \in Gate}

Positions(P, G) ==
  [player |-> [p \in Player |-> P[p].cell], ghost |-> [g \in Ghost |-> G[g].cell]]

FullHp(g) == IF board.kind[g] = "boss" THEN BossHp ELSE 1
Spawned(g, c) == [cell |-> c, hp |-> FullHp(g), stun |-> 0]

Newborn(p) ==
  [cell |-> board.home[p], state |-> "normal", stocks |-> 0, gauge |-> 0,
   power |-> 0, down |-> 0, grace |-> 0, wide |-> FALSE]

Init ==
  /\ board \in Boards
  /\ open = {} /\ permanent = {}
  /\ player = [p \in Player |-> Newborn(p)]
  /\ \E c \in [Ghost -> board.births] :
       ghost = [g \in Ghost |-> Spawned(g, c[g])]
  /\ dots = board.dots
  /\ count = [s \in Sector |-> Cardinality(dots \cap In(s))]
  /\ captured = {}
  /\ pellets = board.pellets
  /\ fruits = <<>>
  /\ before = Positions(player, ghost)
  /\ stage = "idle" /\ at = 1

-----------------------------------------------------------------------------
(* The tick begins: updateGates, updatePowerPellets, updateFruitSpawner.   *)

Older(s) ==
  [s EXCEPT !.power = Less(@), !.grace = Less(@),
            !.down = IF s.state = "down" THEN @ + 1 ELSE 0]

\* hasStandingPlayer
Held(P, c) == \E p \in Player : Standing(P, p) /\ P[p].cell = c

\* Mutant: a gate stays open as long as one of its switches is held.
OpenGatesLonger(P) ==
  permanent \cup {g \in Gate :
                    \/ Held(P, board.gates[g].switchA) /\ Held(P, board.gates[g].switchB)
                    \/ g \in open /\ Held(P, board.gates[g].switchA)}

\* A gate is open while both its switches are held, or for good.
OpenGates(P) ==
  permanent \cup {g \in Gate : /\ Held(P, board.gates[g].switchA)
                               /\ Held(P, board.gates[g].switchB)}

Occupied == {player[p].cell : p \in Player} \cup {ghost[g].cell : g \in Present(ghost)}

BeginTick(back, new) ==
  /\ stage = "idle"
  /\ open' = OpenGates(player)
  /\ back \cap GateCells = {}
  /\ pellets' = pellets \cup back
  /\ IF new = {} THEN UNCHANGED fruits
     ELSE \E f \in new :
            /\ Len(fruits) < FruitLimit
            /\ f.cell \notin pellets' \cup dots \cup Occupied
            /\ fruits' = Append(fruits, f)
  /\ player' = [p \in Player |-> Older(player[p])]
  /\ ghost' = [g \in Ghost |-> [ghost[g] EXCEPT !.stun = Less(@)]]
  /\ before' = Positions(player, ghost)
  /\ stage' = "players"
  /\ UNCHANGED <<board, permanent, dots, count, captured, at>>

-----------------------------------------------------------------------------
(* Moving.                                                                 *)

\* canMove: a closed gate bars the way between its two cells.
Barred(g, c, d) == {c, d} = {board.gates[g].a, board.gates[g].b}
Steps(c) == {d \in board.next[c] : \A g \in Gate \ open : ~Barred(g, c, d)}

\* isSafeRespawnCell
SafeCell(p, c) ==
  /\ c \notin GateCells
  /\ \A g \in Present(ghost) : ~Near(c, ghost[g].cell, SafeDistance)
  /\ \A q \in Player \ {p} : Standing(player, q) => player[q].cell # c

\* pickRespawnPoint: a safe cell in a captured sector, else its own spawn cell
\* or another one that is safe, and its own at last.
RespawnCells(p) ==
  LET safe == {c \in Cell : SafeCell(p, c)}
      captive == {c \in safe : board.sector[c] \in captured}
      home == board.home[p]
  IN  IF captive # {} THEN captive
      ELSE IF home \in safe \/ board.spawns \cap safe = {} THEN {home}
      ELSE board.spawns \cap safe

-----------------------------------------------------------------------------
(* What a player does to itself and the others.                            *)

Revived(s, grace) ==
  [s EXCEPT !.state = "normal", !.down = 0, !.power = 0, !.grace = grace]

Penalised(s) == [s EXCEPT !.gauge = 0, !.stocks = Less(@)]

Expired(s) == IF s.state = "power" /\ s.power = 0 THEN [s EXCEPT !.state = "normal"] ELSE s

\* activatePowerAura.  Mutant: it powers those who are down, too.
AuraForAll(P, p, ticks) ==
  LET radius == IF P[p].wide THEN 2 * AuraRadius ELSE AuraRadius IN
    [q \in Player |->
       IF Near(P[q].cell, P[p].cell, radius)
       THEN [P[q] EXCEPT !.state = "power", !.power = Larger(@, ticks),
                         !.wide = @ /\ q # p]
       ELSE P[q]]

Aura(P, p, ticks) ==
  LET radius == IF P[p].wide THEN 2 * AuraRadius ELSE AuraRadius IN
    [q \in Player |->
       IF Standing(P, q) /\ Near(P[q].cell, P[p].cell, radius)
       THEN [P[q] EXCEPT !.state = "power", !.power = Larger(@, ticks),
                         !.wide = @ /\ q # p]
       ELSE P[q]]

\* tryAwaken
Awakened(P, p) ==
  IF P[p].stocks = 0 THEN P ELSE Aura([P EXCEPT ![p].stocks = @ - 1], p, AwakenTicks)

\* A dot fills the gauge by one, and at the limit of stocks altogether.
\* Mutant: the limit is forgotten.
FedOn(s) ==
  IF s.gauge + 1 >= DotsForAwaken THEN [s EXCEPT !.stocks = @ + 1, !.gauge = 0]
  ELSE [s EXCEPT !.gauge = @ + 1]

Fed(s) ==
  IF s.stocks = MaxAwakenStock THEN [s EXCEPT !.gauge = DotsForAwaken]
  ELSE IF s.gauge + 1 >= DotsForAwaken THEN [s EXCEPT !.stocks = @ + 1, !.gauge = 0]
  ELSE [s EXCEPT !.gauge = @ + 1]

\* A grape
Stocked(s) ==
  IF s.stocks < MaxAwakenStock THEN [s EXCEPT !.stocks = @ + 1]
  ELSE [s EXCEPT !.gauge = DotsForAwaken]

\* takeFruit, for the players.
Treated(P, p, type) ==
  CASE type = "strawberry" -> [P EXCEPT ![p].wide = TRUE]
    [] type = "apple" ->
         [q \in Player |-> IF Standing(P, q) THEN P[q] ELSE Revived(P[q], AppleGraceTicks)]
    [] type = "grape" -> [P EXCEPT ![p] = Stocked(@)]
    [] OTHER -> P

\* findFruitAt: the first of them in the cell.
FruitAt(c) == {i \in DOMAIN fruits : fruits[i].cell = c /\ \A j \in 1..(i - 1) : fruits[j].cell # c}
Taken(c) == {fruits[i].type : i \in FruitAt(c)}

WithoutFruit(c) ==
  IF FruitAt(c) = {} THEN fruits
  ELSE LET i == CHOOSE i \in FruitAt(c) : TRUE
       IN  SubSeq(fruits, 1, i - 1) \o SubSeq(fruits, i + 1, Len(fruits))

\* findNearestClosedGate: the first of the nearest that no key has opened.
GateDistance(g, c) ==
  LET m == board.dist[c][board.gates[g].a]
      n == board.dist[c][board.gates[g].b]
  IN  IF m <= n THEN m ELSE n

NearestGate(c) ==
  {g \in Gate \ permanent : \A h \in Gate \ permanent :
     \/ GateDistance(g, c) < GateDistance(h, c)
     \/ GateDistance(g, c) = GateDistance(h, c) /\ g <= h}

-----------------------------------------------------------------------------
(* The turns of the players: updatePlayers.                                *)

NextPlayer(next) ==
  IF at < Len(board.home) THEN at' = at + 1 /\ UNCHANGED stage
                          ELSE at' = 1 /\ stage' = next

\* autoRespawn
RespawnTurn ==
  /\ stage = "players"
  /\ ~Standing(player, at) /\ player[at].down >= RescueTicks
  /\ \E c \in RespawnCells(at) :
       player' = [player EXCEPT ![at] =
                    [Revived(Penalised(@), RespawnGraceTicks) EXCEPT !.cell = c]]
  /\ NextPlayer("ghosts")
  /\ UNCHANGED <<board, open, permanent, ghost, dots, count, captured, pellets,
                 fruits, before>>

DownTurn ==
  /\ stage = "players"
  /\ ~Standing(player, at) /\ player[at].down < RescueTicks
  /\ NextPlayer("ghosts")
  /\ UNCHANGED <<board, open, permanent, player, ghost, dots, count, captured,
                 pellets, fruits, before>>

\* The player as it is when it starts to move.
Ready(asks) ==
  LET P == [player EXCEPT ![at] = Expired(@)] IN IF asks THEN Awakened(P, at) ELSE P

StayTurn(asks) ==
  /\ stage = "players"
  /\ Standing(player, at)
  /\ player' = Ready(asks)
  /\ NextPlayer("ghosts")
  /\ UNCHANGED <<board, open, permanent, ghost, dots, count, captured, pellets,
                 fruits, before>>

\* handlePlayerCellInteractions, for the players: those who are down in the
\* cell, then its dot, its pellet and its fruit.
Entered(P, p, c) ==
  LET moved == [P EXCEPT ![p].cell = c]
      saved == [q \in Player |->
                  IF q # p /\ ~Standing(moved, q) /\ moved[q].cell = c
                  THEN Revived(moved[q], 0) ELSE moved[q]]
      fed == IF c \in dots THEN [saved EXCEPT ![p] = Fed(@)] ELSE saved
      strong == IF c \in pellets THEN Aura(fed, p, PowerTicks) ELSE fed
  IN  IF Taken(c) = {} THEN strong
      ELSE Treated(strong, p, CHOOSE t \in Taken(c) : TRUE)

\* Mutant: the dot is counted with the sector the player comes from.
EatenBehind(c) ==
  [count EXCEPT ![board.sector[player[at].cell]] = IF c \in dots THEN Less(@) ELSE @]

Eaten(c) == [count EXCEPT ![board.sector[c]] = IF c \in dots THEN Less(@) ELSE @]

MoveTurn(asks, c) ==
  /\ stage = "players"
  /\ Standing(player, at)
  /\ c \in Steps(player[at].cell)
  /\ player' = Entered(Ready(asks), at, c)
  /\ dots' = dots \ {c}
  /\ count' = Eaten(c)
  /\ pellets' = pellets \ {c}
  /\ fruits' = WithoutFruit(c)
  /\ ghost' = [g \in Ghost |->
                 IF "orange" \in Taken(c) /\ g \in Present(ghost)
                    /\ Near(c, ghost[g].cell, StunRadius)
                 THEN [ghost[g] EXCEPT !.stun = StunTicks] ELSE ghost[g]]
  /\ permanent' = permanent \cup IF "key" \in Taken(c) THEN NearestGate(c) ELSE {}
  /\ open' = open \cup permanent'
  /\ NextPlayer("ghosts")
  /\ UNCHANGED <<board, captured, before>>

-----------------------------------------------------------------------------
(* The turns of the ghosts: updateGhosts.  They do not see each other.     *)

\* isGhostCollision: in the same cell, or the two changed places.
Touch(P, G, p, g) ==
  \/ P[p].cell = G[g].cell
  \/ before.player[p] = G[g].cell /\ before.ghost[g] = P[p].cell

Goals(g) == {ghost[g].cell} \cup IF ghost[g].stun > 0 THEN {} ELSE Steps(ghost[g].cell)

GhostsMove(goal) ==
  /\ stage = "ghosts"
  /\ \A g \in Present(ghost) : goal[g] \in Goals(g)
  /\ \A g \in Ghost \ Present(ghost) : goal[g] = ghost[g].cell
  /\ ghost' = [g \in Ghost |-> [ghost[g] EXCEPT !.cell = goal[g]]]
  /\ stage' = "collisions"
  /\ UNCHANGED <<board, open, permanent, player, dots, count, captured, pellets,
                 fruits, before, at>>

-----------------------------------------------------------------------------
(* resolveGhostCollisions, one action for each player.  The ghosts of the  *)
(* player are looked at in their order: as long as it has power each goes  *)
(* back to a spawn cell, the first boss takes that power away, and the     *)
(* next one after it catches the player.                                   *)

Foes(p) == {g \in Present(ghost) : Touch(player, ghost, p, g)}
Bosses(p) == {g \in Foes(p) : board.kind[g] = "boss"}

\* The boss that takes the power of the player, if any.
Struck(p) == {b \in Bosses(p) : \A c \in Bosses(p) : b <= c}
Beaten(p) == {g \in Foes(p) : \A b \in Struck(p) : g < b}
Left(p) == Foes(p) \ (Struck(p) \cup Beaten(p))

Downed(s) == [s EXCEPT !.state = "down", !.down = 0, !.power = 0, !.grace = 0]

NoCollision ==
  /\ stage = "collisions"
  /\ \/ ~Standing(player, at)
     \/ player[at].grace > 0
     \/ Foes(at) = {}
  /\ NextPlayer("control")
  /\ UNCHANGED <<board, open, permanent, player, ghost, dots, count, captured,
                 pellets, fruits, before>>

Strike(spawn) ==
  /\ stage = "collisions"
  /\ player[at].state = "power" /\ player[at].grace = 0 /\ Foes(at) # {}
  /\ ghost' = [g \in Ghost |->
                 IF g \in Beaten(at) THEN Spawned(g, spawn[g])
                 ELSE IF g \in Struck(at) THEN [ghost[g] EXCEPT !.hp = @ - 1]
                 ELSE ghost[g]]
  /\ player' = [player EXCEPT ![at] =
                  IF Left(at) # {} THEN Downed(@)
                  ELSE IF Struck(at) # {} THEN [@ EXCEPT !.state = "normal", !.power = 0]
                  ELSE @]
  /\ NextPlayer("control")
  /\ UNCHANGED <<board, open, permanent, dots, count, captured, pellets, fruits,
                 before>>

GoDown ==
  /\ stage = "collisions"
  /\ player[at].state = "normal" /\ player[at].grace = 0 /\ Foes(at) # {}
  /\ player' = [player EXCEPT ![at] = Downed(@)]
  /\ NextPlayer("control")
  /\ UNCHANGED <<board, open, permanent, ghost, dots, count, captured, pellets,
                 fruits, before>>

-----------------------------------------------------------------------------
(* The end of the tick: updateSectorControl captures the sectors without   *)
(* dots, which drives their ghosts out, and lets dots grow in those that   *)
(* were captured before; adjustGhostPopulation, once a second, lets ghosts *)
(* come and go and fruits rot; checkGameOver.                              *)

Bare == {s \in Sector \ captured : count[s] = 0}

\* isValidDotRespawnCell, with the cells of respawnCandidates.
MayGrow(s) == {c \in board.dots \ (dots \cup board.pellets \cup GateCells) :
                 board.sector[c] = s}

Lost(s, dotCount) ==
  dotCount > Larger(1, (Cardinality(board.dots \cap In(s)) * 5) \div 100)

AllDown == \A p \in Player : ~Standing(player, p)

\* The ghosts that are too many: the first of those that are no bosses.
Surplus(target) ==
  LET n == Cardinality(Present(ghost))
      others == {g \in Present(ghost) : board.kind[g] # "boss"}
  IN  IF n <= target + GhostSlack THEN {}
      ELSE {g \in others : Cardinality({h \in others : h < g}) < n - target}

\* A new ghost is the last of the map.  Of what kind it is and how many come
\* is left open.  It does not take the number of one that goes at the same time.
NewGhosts(gone) == {g \in Ghost \ Present(ghost) :
                      \A h \in Present(ghost) \ gone : h < g}

\* The oldest fruits rot; the match may end for time or a collapse, too.
Control(grown, spawn, gone, birth, rotten, otherEnd) ==
  LET grownIn(s) == Cardinality(grown \cap In(s)) IN
  /\ stage = "control"
  /\ grown \subseteq UNION {MayGrow(s) : s \in captured}
  /\ dots' = dots \cup grown
  /\ count' = [s \in Sector |-> count[s] + grownIn(s)]
  /\ captured' = Bare \cup {s \in captured : ~Lost(s, count[s] + grownIn(s))}
  /\ ghost' = [g \in Ghost |->
                 IF g \in DOMAIN birth THEN Spawned(g, birth[g])
                 ELSE IF g \in gone THEN [ghost[g] EXCEPT !.hp = 0, !.stun = 0]
                 ELSE IF g \in Present(ghost) /\ board.sector[ghost[g].cell] \in Bare
                 THEN Spawned(g, spawn[g]) ELSE ghost[g]]
  /\ fruits' = SubSeq(fruits, rotten + 1, Len(fruits))
  /\ stage' = IF captured' = Sector \/ AllDown \/ otherEnd THEN "over" ELSE "idle"
  /\ before' = Positions(player, ghost')
  /\ UNCHANGED <<board, open, permanent, player, pellets, at>>

-----------------------------------------------------------------------------
Next ==
  \/ \E back \in SUBSET (board.pellets \ pellets),
        new \in {{}} \cup {{f} : f \in board.fruits} : BeginTick(back, new)
  \/ RespawnTurn
  \/ DownTurn
  \/ \E asks \in BOOLEAN : StayTurn(asks)
  \/ \E asks \in BOOLEAN, c \in Cell : MoveTurn(asks, c)
  \/ \E goal \in [Ghost -> Cell] : GhostsMove(goal)
  \/ NoCollision
  \/ \E spawn \in [Ghost -> board.ghostSpawns] : Strike(spawn)
  \/ GoDown
  \/ \E grown \in SUBSET board.dots, spawn \in [Ghost -> board.ghostSpawns],
        gone \in {{}} \cup {Surplus(target) : target \in GhostTargets},
        rotten \in 0..Len(fruits), otherEnd \in BOOLEAN :
       \E new \in SUBSET NewGhosts(gone) : \E birth \in [new -> board.births] :
         Control(grown, spawn, gone, birth, rotten, otherEnd)

Spec == Init /\ [][Next]_vars

-----------------------------------------------------------------------------
\* The player has not had its turn in this tick yet.
Awaiting(p) == stage = "players" /\ p >= at

\* The clocks of a player belong to its state, whichever of pellet, awakening,
\* fruit, collision, rescue and respawn changed it last, its own or another
\* player's: nobody keeps power whose time is up or has time without power, who
\* is protected stands, and nobody lies down past the rescue timeout.
ClocksAgree ==
  \A p \in Player :
    /\ player[p].power > 0 => player[p].state = "power"
    /\ player[p].state = "power" => player[p].power > 0 \/ Awaiting(p)
    /\ player[p].grace > 0 => Standing(player, p)
    /\ ~Standing(player, p) => player[p].down < RescueTicks \/ Awaiting(p)
    /\ Standing(player, p) => player[p].down = 0

\* What a sector says of itself is what lies in it: `dotCount` counts its dots,
\* a captured one has few enough of them, and between ticks one that is not
\* captured has some to eat, none of them out of reach below a pellet or on a
\* cell that a gate keeps bare.
SectorsAgree ==
  /\ \A s \in Sector :
       /\ count[s] = Cardinality(dots \cap In(s))
       /\ s \in captured => ~Lost(s, count[s])
       /\ s \notin captured /\ stage = "idle" => count[s] > 0
  /\ dots \cap (board.pellets \cup GateCells) = {}

\* Two of these players were on the switches when the tick began, and are not
\* down.
Holding(Q, g) ==
  \E q, r \in Q :
    /\ q # r
    /\ before.player[q] = board.gates[g].switchA /\ Standing(player, q)
    /\ before.player[r] = board.gates[g].switchB /\ Standing(player, r)

\* Nobody passes a gate that no key has opened, player or ghost, unless two
\* others hold its switches: a switch is not next to its gate, and what was held
\* when the tick began decides.  Two players alone never pass one.
CrossingTakesThree ==
  [][\A g \in Gate \ permanent :
       /\ \A p \in Player :
            Barred(g, player[p].cell, player'[p].cell) => Holding(Player \ {p}, g)
       /\ \A h \in Present(ghost) :
            Barred(g, ghost[h].cell, ghost'[h].cell) => Holding(Player, g)]_vars

=============================================================================
