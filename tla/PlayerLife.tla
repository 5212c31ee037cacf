----------------------------- MODULE PlayerLife -----------------------------
(***************************************************************************)
(* The life of the players in a match, as the Rust engine moves it on      *)
(* (rust/server/src/engine): power, awakening, going down, rescue and      *)
(* respawn, against ghosts that move, stun and respawn.                    *)
(*                                                                         *)
(* `GameEngine::step` runs under the server's mutex and visits players and *)
(* ghosts in the order of its vectors.  A tick is the sequence of its      *)
(* visits, one action each; connections and inputs come in between ticks.  *)
(*                                                                         *)
(* Times are counted in ticks from or to the present one, so that          *)
(* `power_until - now` is `power` and `now - down_since` is `down`.  A     *)
(* cell of the model is a stretch of maze.  Where a player or a ghost goes *)
(* is not modelled: speed, path finding, walls and gates only decide which *)
(* of the neighbouring cells it enters, if any, and each is considered.    *)
(* Scores and events are left out.                                         *)
(***************************************************************************)
EXTENDS Naturals

CONSTANTS
  NumPlayers, NumGhosts,
  Cell,
  Neighbours,      \* cell -> the cells one move away
  Near,            \* cell -> the cells a ghost is too close in for a respawn
  Home,            \* player -> its spawn cell
  SpawnCell,       \* player_spawn_cells
  GhostCell,       \* cells a ghost may respawn in
  DotCell,         \* respawn_candidates of all sectors
  PelletCell,
  Kind, FirstKind, \* ghost types that occur, at all and at the start
  AiPlayer,        \* seats that AI plays from the start
  Leaver,          \* players whose connection comes and goes
  DotsForAwaken, MaxAwakenStock,
  PowerTicks, AwakenTicks, RescueTicks, SpawnGraceTicks, RespawnGraceTicks,
  StunTicks

Player == 1..NumPlayers
Ghost == 1..NumGhosts

ASSUME NumbersAssumption ==
  /\ NumPlayers \in Nat \ {0} /\ NumGhosts \in Nat \ {0}
  /\ DotsForAwaken \in Nat \ {0, 1} /\ MaxAwakenStock \in Nat
  /\ PowerTicks \in Nat \ {0} /\ AwakenTicks \in Nat \ {0}
  /\ RescueTicks \in Nat \ {0}
  /\ SpawnGraceTicks \in Nat /\ RespawnGraceTicks \in Nat
  /\ StunTicks \in Nat

ASSUME MazeAssumption ==
  /\ Neighbours \in [Cell -> SUBSET Cell]
  /\ Near \in [Cell -> SUBSET Cell]
  /\ Home \in [Player -> Cell]
  /\ SpawnCell \subseteq Cell /\ GhostCell \subseteq Cell
  /\ DotCell \subseteq Cell /\ PelletCell \subseteq Cell
  /\ Kind \subseteq {"boss", "other"} /\ FirstKind \subseteq Kind
  /\ AiPlayer \subseteq Player /\ Leaver \subseteq Player \ AiPlayer

VARIABLES
  player,   \* players: PlayerInternal, by index
  ghost,    \* ghosts: GhostInternal, by index
  dots,     \* world.dots
  pellets,  \* cells of the active power pellets
  before,   \* the positions before anybody moved in this tick
  stage,    \* where `step` is
  at, foe,  \* the player and the ghost it visits next
  fed       \* dots a player ate since its last stock, as far as they matter;
            \* not in the code

vars == <<player, ghost, dots, pellets, before, stage, at, foe, fed>>

PlayerRecord ==
  [cell : Cell, state : {"normal", "power", "down"}, ai : BOOLEAN,
   stocks : 0..MaxAwakenStock, gauge : 0..DotsForAwaken,
   wants : BOOLEAN,                        \* awaken_requested
   power : Nat, down : 0..RescueTicks, grace : Nat]

\* boss_hp_for_player_count
BossHp == IF NumPlayers <= 2 THEN 1 ELSE IF NumPlayers <= 5 THEN 2 ELSE 3

GhostRecord == [cell : Cell, kind : Kind, hp : 1..BossHp, stun : Nat]

Stage == {"idle", "players", "rescues", "ghosts", "collisions", "control", "over"}

TypeOK ==
  /\ player \in [Player -> PlayerRecord]
  /\ ghost \in [Ghost -> GhostRecord]
  /\ dots \in SUBSET Cell
  /\ pellets \in SUBSET PelletCell
  /\ before \in [player : [Player -> Cell], ghost : [Ghost -> Cell]]
  /\ stage \in Stage
  /\ at \in Player /\ foe \in Ghost
  /\ fed \in [Player -> 0..DotsForAwaken]

Positions(P, G) ==
  [player |-> [p \in Player |-> P[p].cell], ghost |-> [g \in Ghost |-> G[g].cell]]

Newborn(p, ai) ==
  [cell |-> Home[p], state |-> "normal", ai |-> ai, stocks |-> 0, gauge |-> 0,
   wants |-> FALSE, power |-> 0, down |-> 0, grace |-> SpawnGraceTicks]

Spawned(c, kind) ==
  [cell |-> c, kind |-> kind, hp |-> IF kind = "boss" THEN BossHp ELSE 1, stun |-> 0]

Init ==
  /\ player = [p \in Player |-> Newborn(p, p \in AiPlayer)]
  /\ \E c \in [Ghost -> GhostCell], k \in [Ghost -> FirstKind] :
       ghost = [g \in Ghost |-> Spawned(c[g], k[g])]
  /\ dots = DotCell
  /\ pellets = PelletCell
  /\ before = Positions(player, ghost)
  /\ stage = "idle" /\ at = 1 /\ foe = 1
  /\ fed = [p \in Player |-> 0]

Standing(P, p) == P[p].state # "down"

-----------------------------------------------------------------------------
(* Between ticks: what the message handlers call.                          *)

SetConnection(p, connected) ==
  /\ stage = "idle"
  /\ player' = [player EXCEPT ![p].ai = ~connected]
  /\ UNCHANGED <<ghost, dots, pellets, before, stage, at, foe, fed>>

\* receive_input with `awaken`; it ignores the input of a seat AI plays.
ReceiveAwaken(p) ==
  /\ stage = "idle"
  /\ ~player[p].ai
  /\ player' = [player EXCEPT ![p].wants = TRUE]
  /\ UNCHANGED <<ghost, dots, pellets, before, stage, at, foe, fed>>

-----------------------------------------------------------------------------
(* A tick begins: the clock moves on, and pellets taken long enough ago    *)
(* come back.                                                              *)

Less(n) == IF n = 0 THEN 0 ELSE n - 1

Older(s) ==
  [s EXCEPT !.power = Less(@), !.grace = Less(@),
            !.down = IF s.state = "down" THEN @ + 1 ELSE 0]

BeginTick(back) ==
  /\ stage = "idle"
  /\ player' = [p \in Player |-> Older(player[p])]
  /\ ghost' = [g \in Ghost |-> [ghost[g] EXCEPT !.stun = Less(@)]]
  /\ pellets' = pellets \cup back
  /\ before' = Positions(player, ghost)
  /\ stage' = "players"
  /\ UNCHANGED <<dots, at, foe, fed>>

-----------------------------------------------------------------------------
(* Coming back.                                                            *)

SafeCell(P, G, p, c) ==
  /\ \A g \in Ghost : G[g].cell \notin Near[c]
  /\ \A q \in Player \ {p} : Standing(P, q) => P[q].cell # c

\* Its own spawn cell if that is safe, another safe one, or its own at last.
RespawnCells(P, G, p) ==
  LET safe == {c \in SpawnCell : SafeCell(P, G, p, c)}
  IN  IF SafeCell(P, G, p, Home[p]) \/ safe = {} THEN {Home[p]} ELSE safe

\* Mutant: who is rescued starts from nothing, too.
RevivedEmpty(s, c) ==
  [s EXCEPT !.cell = c, !.state = "normal", !.down = 0, !.power = 0,
            !.gauge = 0, !.grace = RespawnGraceTicks]

Revived(s, c) ==
  [s EXCEPT !.cell = c, !.state = "normal", !.down = 0, !.power = 0,
            !.grace = RespawnGraceTicks]

Penalised(s) == [s EXCEPT !.gauge = 0, !.stocks = Less(@)]

-----------------------------------------------------------------------------
(* The turn of a player: update_players.                                   *)

\* Mutant: only an awakening or a pellet ever changes the state of power.
ExpiredNever(s) == s

Expired(s) == IF s.state = "power" /\ s.power = 0 THEN [s EXCEPT !.state = "normal"] ELSE s

\* An AI player in danger, or near a member in danger, asks for an awakening.
Decided(s, asks) == IF asks THEN [s EXCEPT !.wants = TRUE] ELSE s
MayAsk(s) == s.ai /\ s.state # "power" /\ s.stocks > 0

Awakens(s) == s.wants /\ s.stocks > 0

\* Mutant: the stock is not spent.
AwakenedFree(s) ==
  IF Awakens(s)
  THEN [s EXCEPT !.wants = FALSE, !.state = "power", !.power = AwakenTicks]
  ELSE s

Awakened(s) ==
  IF Awakens(s)
  THEN [s EXCEPT !.wants = FALSE, !.stocks = @ - 1,
                 !.state = "power", !.power = AwakenTicks]
  ELSE s

\* A dot fills the gauge by one, and at the limit of stocks altogether.
Fed(s) ==
  IF s.stocks = MaxAwakenStock THEN [s EXCEPT !.gauge = DotsForAwaken]
  ELSE IF s.gauge + 1 >= DotsForAwaken THEN [s EXCEPT !.stocks = @ + 1, !.gauge = 0]
  ELSE [s EXCEPT !.gauge = @ + 1]

Powered(s) == [s EXCEPT !.state = "power", !.power = PowerTicks]

\* What lies in the cell it enters, or stays in.
PickedUp(s) ==
  LET t == IF s.cell \in dots THEN Fed(s) ELSE s
  IN  IF s.cell \in pellets THEN Powered(t) ELSE t

\* At most one cell in a tick: the speed is below one cell per tick.
Goals(s) == {s.cell} \cup Neighbours[s.cell]

NextPlayer(next) ==
  IF at < NumPlayers THEN at' = at + 1 /\ UNCHANGED stage
                     ELSE at' = 1 /\ stage' = next

RespawnTurn ==
  /\ stage = "players"
  /\ player[at].state = "down" /\ player[at].down >= RescueTicks
  /\ \E c \in RespawnCells(player, ghost, at) :
       player' = [player EXCEPT ![at] = Revived(Penalised(@), c)]
  /\ fed' = [fed EXCEPT ![at] = 0]
  /\ NextPlayer("rescues")
  /\ UNCHANGED <<ghost, dots, pellets, before, foe>>

\* Mutant: the timeout is one tick later.
DownTurnLonger ==
  /\ stage = "players"
  /\ player[at].state = "down" /\ player[at].down <= RescueTicks
  /\ NextPlayer("rescues")
  /\ UNCHANGED <<player, ghost, dots, pellets, before, foe, fed>>

DownTurn ==
  /\ stage = "players"
  /\ player[at].state = "down" /\ player[at].down < RescueTicks
  /\ NextPlayer("rescues")
  /\ UNCHANGED <<player, ghost, dots, pellets, before, foe, fed>>

\* Its own time passes, it decides, it may awaken; it does not get to move.
StayTurn(asks) ==
  /\ stage = "players"
  /\ Standing(player, at)
  /\ asks => MayAsk(Expired(player[at]))
  /\ player' = [player EXCEPT ![at] = Awakened(Decided(Expired(@), asks))]
  /\ NextPlayer("rescues")
  /\ UNCHANGED <<ghost, dots, pellets, before, foe, fed>>

MoveTurn(asks, c) ==
  /\ stage = "players"
  /\ Standing(player, at)
  /\ asks => MayAsk(Expired(player[at]))
  /\ c \in Goals(player[at])
  /\ LET s == [Awakened(Decided(Expired(player[at]), asks)) EXCEPT !.cell = c]
         t == PickedUp(s)
     IN  /\ player' = [player EXCEPT ![at] = t]
         /\ fed' = [fed EXCEPT ![at] =
                      IF c \notin dots THEN @
                      ELSE IF t.stocks > s.stocks THEN 0
                      ELSE IF @ < DotsForAwaken THEN @ + 1 ELSE @]
  /\ dots' = dots \ {c}
  /\ pellets' = pellets \ {c}
  /\ NextPlayer("rescues")
  /\ UNCHANGED <<ghost, before, foe>>

-----------------------------------------------------------------------------
(* Rescues, in the order of the players that are down.                     *)

Rescuers(P, p) == {q \in Player \ {p} : Standing(P, q) /\ P[q].cell = P[p].cell}

Rescue ==
  /\ stage = "rescues"
  /\ player[at].state = "down" /\ Rescuers(player, at) # {}
  /\ \E c \in RespawnCells(player, ghost, at) :
       player' = [player EXCEPT ![at] = Revived(@, c)]
  /\ NextPlayer("ghosts")
  /\ UNCHANGED <<ghost, dots, pellets, before, foe, fed>>

NoRescue ==
  /\ stage = "rescues"
  /\ Standing(player, at) \/ Rescuers(player, at) = {}
  /\ NextPlayer("ghosts")
  /\ UNCHANGED <<player, ghost, dots, pellets, before, foe, fed>>

-----------------------------------------------------------------------------
(* The turn of a ghost: update_ghosts.                                     *)

GhostTurn(c) ==
  /\ stage = "ghosts"
  /\ \/ c = ghost[foe].cell
     \/ ghost[foe].stun = 0 /\ c \in Neighbours[ghost[foe].cell]
  /\ ghost' = [ghost EXCEPT ![foe].cell = c]
  /\ IF foe < NumGhosts THEN foe' = foe + 1 /\ UNCHANGED stage
                        ELSE foe' = 1 /\ stage' = "collisions"
  /\ UNCHANGED <<player, dots, pellets, before, at, fed>>

-----------------------------------------------------------------------------
(* Collisions, every player with every ghost: resolve_ghost_collisions.    *)

\* Same cell, or the two changed places in this tick.
Contact(p, g) ==
  \/ player[p].cell = ghost[g].cell
  \/ /\ before.player[p] = ghost[g].cell
     /\ before.ghost[g] = player[p].cell

\* pick_ghost_spawn_position: a cell without another ghost; the search for one
\* away from the players may fail.  When there is none it stays.
GhostRespawns(G, g) ==
  {Spawned(c, k) : c \in {G[g].cell} \cup {d \in GhostCell : \A h \in Ghost \ {g} : G[h].cell # d},
                   k \in Kind}

NextCollision ==
  IF foe < NumGhosts THEN foe' = foe + 1 /\ UNCHANGED <<at, stage>>
                     ELSE foe' = 1 /\ NextPlayer("control")

\* Down already, no contact, or still protected.
Pass ==
  /\ stage = "collisions"
  /\ \/ player[at].state = "down"
     \/ ~Contact(at, foe)
     \/ player[at].state = "normal" /\ player[at].grace > 0
  /\ NextCollision
  /\ UNCHANGED <<player, ghost, dots, pellets, before, fed>>

\* Power beats a ghost at once, the boss with its last hit point.
BeatGhost ==
  /\ stage = "collisions"
  /\ player[at].state = "power" /\ Contact(at, foe)
  /\ ghost[foe].kind = "boss" => ghost[foe].hp = 1
  /\ \E r \in GhostRespawns(ghost, foe) : ghost' = [ghost EXCEPT ![foe] = r]
  /\ NextCollision
  /\ UNCHANGED <<player, dots, pellets, before, fed>>

HitBoss ==
  /\ stage = "collisions"
  /\ player[at].state = "power" /\ Contact(at, foe)
  /\ ghost[foe].kind = "boss" /\ ghost[foe].hp > 1
  /\ ghost' = [ghost EXCEPT ![foe].hp = @ - 1, ![foe].stun = StunTicks]
  /\ NextCollision
  /\ UNCHANGED <<player, dots, pellets, before, fed>>

Downed(s) == [s EXCEPT !.state = "down", !.down = 0]

\* Mutant: a ghost upon a player that is down sends it down again.
GoDownAgain ==
  /\ stage = "collisions"
  /\ player[at].state # "power" /\ player[at].grace = 0 /\ Contact(at, foe)
  /\ player' = [player EXCEPT ![at] = Downed(@)]
  /\ NextCollision
  /\ UNCHANGED <<ghost, dots, pellets, before, fed>>

GoDown ==
  /\ stage = "collisions"
  /\ player[at].state = "normal" /\ player[at].grace = 0 /\ Contact(at, foe)
  /\ player' = [player EXCEPT ![at] = Downed(@)]
  /\ NextCollision
  /\ UNCHANGED <<ghost, dots, pellets, before, fed>>

-----------------------------------------------------------------------------
(* The end of a tick: update_sector_control lets dots grow again and a     *)
(* captured sector drive out its ghosts, then check_game_over.  Sectors    *)
(* are not modelled here: any dots may grow, any ghosts be driven out, and *)
(* the match may end for a reason of its own.                              *)

AllDown == \A p \in Player : ~Standing(player, p)

Control(grown, driven, otherEnd) ==
  /\ stage = "control"
  /\ dots' = dots \cup grown
  /\ ghost' \in [Ghost -> UNION {GhostRespawns(ghost, g) : g \in driven}
                            \cup {ghost[g] : g \in Ghost}]
  /\ \A g \in Ghost : IF g \in driven THEN ghost'[g] \in GhostRespawns(ghost, g)
                                      ELSE ghost'[g] = ghost[g]
  /\ stage' = IF otherEnd \/ AllDown THEN "over" ELSE "idle"
  /\ before' = Positions(player, ghost')
  /\ UNCHANGED <<player, pellets, at, foe, fed>>

-----------------------------------------------------------------------------
Step ==
  \/ \E back \in SUBSET (PelletCell \ pellets) : BeginTick(back)
  \/ RespawnTurn
  \/ DownTurn
  \/ \E asks \in BOOLEAN : StayTurn(asks)
  \/ \E asks \in BOOLEAN, c \in Cell : MoveTurn(asks, c)
  \/ Rescue
  \/ NoRescue
  \/ \E c \in Cell : GhostTurn(c)
  \/ Pass
  \/ BeatGhost
  \/ HitBoss
  \/ GoDown
  \/ \E grown \in SUBSET (DotCell \ dots), driven \in SUBSET Ghost, otherEnd \in BOOLEAN :
       Control(grown, driven, otherEnd)

Handlers ==
  \/ \E p \in Leaver, connected \in BOOLEAN : SetConnection(p, connected)
  \/ \E p \in Player : ReceiveAwaken(p)

Next == Step \/ Handlers

Spec == Init /\ [][Next]_vars

\* The server's interval timer keeps calling `step` until the match is over.
FairSpec == Spec /\ WF_vars(Step)

-----------------------------------------------------------------------------
\* The player has not had its turn in this tick yet.
Awaiting(p) == stage = "players" /\ p >= at

\* The three clocks of a player belong to its state, whichever of pellet,
\* awakening, collision, rescue and respawn changed it last: nobody keeps power
\* whose time is up or has time without power, a protected player stands, and
\* nobody lies down past the rescue timeout.
ClocksAgree ==
  \A p \in Player :
    /\ player[p].power > 0 => player[p].state = "power"
    /\ player[p].state = "power" => player[p].power > 0 \/ Awaiting(p)
    /\ player[p].grace > 0 => Standing(player, p)
    /\ ~Standing(player, p) => player[p].down < RescueTicks \/ Awaiting(p)
    /\ Standing(player, p) => player[p].down = 0

\* A match goes on only while somebody can rescue the others: every tick in
\* which the last player goes down ends it, whoever is absent.
SomebodyStands == stage = "idle" => \E p \in Player : Standing(player, p)

\* What going down costs: as long as a player is down it neither gains nor
\* spends anything, although its awakening may be asked for; then it comes back
\* with everything, by a player that reached it, or late and for a stock and
\* the gauge.
DownCosts ==
  [][\A p \in Player : ~Standing(player, p) =>
       LET s == player[p]
           t == player'[p]
       IN  \/ /\ <<t.stocks, t.gauge>> = <<s.stocks, s.gauge>>
              /\ Standing(player', p) => Rescuers(player, p) # {}
           \/ /\ s.down = RescueTicks
              /\ t.stocks = Less(s.stocks) /\ t.gauge = 0]_vars

\* Power is never free: a player's time of power grows by a pellet it took
\* from the map, or against a stock.
Worth(s) == s.stocks * DotsForAwaken + s.gauge

PowerIsPaid ==
  [][\A p \in Player : player'[p].power > player[p].power =>
       \/ player'[p].cell \in pellets \ pellets'
       \/ Worth(player'[p]) < Worth(player[p])]_vars

\* A player that is down is back, or the match is over, at some time: the
\* timeout runs on while ghosts stay upon it and nobody comes.
DownEnds ==
  \A p \in Player : ~Standing(player, p) ~> Standing(player, p) \/ stage = "over"

-----------------------------------------------------------------------------
(* What the documents promise and the code does not keep.                  *)

\* docs/game_design.md 6.1: N dots fill the gauge and earn a stock.
StockTakesDots ==
  [][\A p \in Player : player'[p].stocks > player[p].stocks =>
       fed[p] + 1 >= DotsForAwaken]_vars

=============================================================================
