-------------------------- MODULE PlayerLifeProofs --------------------------
(***************************************************************************)
(* Proofs about PlayerLife, for any number of players and ghosts, any maze *)
(* and any durations.  The invariant splits into what one player's record  *)
(* satisfies by itself, which every operator on records keeps, and what    *)
(* the record owes to the stage the tick is in.                            *)
(***************************************************************************)
EXTENDS PlayerLife, Integers, TLAPS

\* What a record satisfies at any time.
Good(s) ==
  /\ s \in PlayerRecord
  /\ s.power > 0 => s.state = "power"
  /\ s.grace > 0 => s.state # "down"
  /\ s.state # "down" => s.down = 0

\* What it satisfies once the player had its turn in the tick.
Turned(s) ==
  /\ s.state = "power" => s.power > 0
  /\ s.state = "down" => s.down < RescueTicks

-----------------------------------------------------------------------------
(* The operators on records.                                               *)

\* The clock moves on: power may run out, the timeout may be reached.
LEMMA OlderGood ==
  ASSUME NEW s, Good(s), Turned(s)
  PROVE  /\ Good(Older(s))
         /\ Older(s).state = s.state
         /\ Older(s).stocks = s.stocks /\ Older(s).gauge = s.gauge
         /\ Older(s).power <= s.power
<1>1. s \in PlayerRecord
  BY DEF Good
<1>2. Less(s.power) \in Nat /\ Less(s.grace) \in Nat
  BY <1>1 DEF Less, PlayerRecord
<1>3. s.state = "down" => s.down + 1 \in 0..RescueTicks
  BY <1>1, NumbersAssumption DEF Turned, PlayerRecord
<1>4. 0 \in 0..RescueTicks
  BY NumbersAssumption
<1>5. Older(s) \in PlayerRecord
  BY <1>1, <1>2, <1>3, <1>4 DEF Older, PlayerRecord
<1> QED
  BY <1>1, <1>2, <1>5 DEF Older, Good, Turned, PlayerRecord, Less

\* A player that comes back has its turn behind it.
LEMMA RevivedGood ==
  ASSUME NEW s \in PlayerRecord, NEW c \in Cell
  PROVE  /\ Good(Revived(s, c)) /\ Turned(Revived(s, c))
         /\ Revived(s, c).state = "normal" /\ Revived(s, c).power = 0
         /\ Revived(s, c).stocks = s.stocks /\ Revived(s, c).gauge = s.gauge
<1> DEFINE r == Revived(s, c)
<1>1. 0 \in 0..RescueTicks /\ 0 \in Nat /\ RespawnGraceTicks \in Nat
  BY NumbersAssumption
<1>2. r \in PlayerRecord
  BY <1>1 DEF Revived, PlayerRecord
<1>3. /\ r.state = "normal" /\ r.power = 0 /\ r.down = 0
      /\ r.stocks = s.stocks /\ r.gauge = s.gauge
  BY DEF Revived, PlayerRecord
<1> HIDE DEF r
<1>4. Good(r) /\ Turned(r)
  BY <1>2, <1>3 DEF Good, Turned
<1> QED
  BY <1>3, <1>4 DEF r

\* The respawn takes a stock, if there is one, and the gauge.
LEMMA PenalisedRecord ==
  ASSUME NEW s \in PlayerRecord
  PROVE  /\ Penalised(s) \in PlayerRecord
         /\ Penalised(s).stocks = Less(s.stocks) /\ Penalised(s).gauge = 0
<1>1. Less(s.stocks) \in 0..MaxAwakenStock /\ 0 \in 0..DotsForAwaken
  BY NumbersAssumption DEF Less, PlayerRecord
<1> QED
  BY <1>1 DEF Penalised, PlayerRecord

\* A turn begins with expiry, a decision and perhaps an awakening.
LEMMA TurnGood ==
  ASSUME NEW s, Good(s), s.state # "down", NEW asks \in BOOLEAN
  PROVE  LET e == Expired(s)
             d == Decided(e, asks)
             t == Awakened(d)
         IN  /\ Good(t) /\ Turned(t) /\ t.state # "down"
             /\ \/ t.stocks = s.stocks /\ t.gauge = s.gauge /\ t.power = s.power
                \/ s.stocks > 0 /\ t.stocks = s.stocks - 1 /\ t.gauge = s.gauge
<1> DEFINE e == Expired(s)
           d == Decided(e, asks)
           t == Awakened(d)
<1>1. /\ Good(e) /\ Turned(e) /\ e.state # "down"
      /\ e.stocks = s.stocks /\ e.gauge = s.gauge /\ e.power = s.power
  BY DEF Expired, Good, Turned, PlayerRecord
<1>2. /\ Good(d) /\ Turned(d) /\ d.state # "down"
      /\ d.stocks = s.stocks /\ d.gauge = s.gauge /\ d.power = s.power
  <2> HIDE DEF e
  <2> QED
    BY <1>1 DEF Decided, Good, Turned, PlayerRecord
<1> HIDE DEF d
<1>3. d \in PlayerRecord /\ d.stocks \in 0..MaxAwakenStock
  BY <1>2 DEF Good, PlayerRecord
<1>4. ASSUME Awakens(d)
      PROVE  /\ Good(t) /\ Turned(t) /\ t.state # "down"
             /\ s.stocks > 0 /\ t.stocks = s.stocks - 1 /\ t.gauge = s.gauge
  <2>1. d.stocks > 0 /\ d.stocks - 1 \in 0..MaxAwakenStock
    BY <1>3, <1>4, NumbersAssumption DEF Awakens
  <2>2. t \in PlayerRecord
    BY <1>3, <1>4, <2>1, NumbersAssumption DEF Awakened, PlayerRecord
  <2>3. /\ t.state = "power" /\ t.power = AwakenTicks /\ t.down = d.down
        /\ t.stocks = d.stocks - 1 /\ t.gauge = d.gauge
    BY <1>3, <1>4 DEF Awakened, PlayerRecord
  <2> HIDE DEF t
  <2>4. Good(t) /\ Turned(t)
    BY <1>2, <2>2, <2>3, NumbersAssumption DEF Good, Turned
  <2> QED
    BY <1>2, <2>1, <2>3, <2>4
<1>5. ASSUME ~Awakens(d)
      PROVE  t = d
  BY <1>5 DEF Awakened
<1>6. /\ Good(t) /\ Turned(t) /\ t.state # "down"
      /\ \/ t.stocks = s.stocks /\ t.gauge = s.gauge /\ t.power = s.power
         \/ s.stocks > 0 /\ t.stocks = s.stocks - 1 /\ t.gauge = s.gauge
  <2> HIDE DEF t
  <2> QED
    BY <1>2, <1>4, <1>5
<1> QED
  BY <1>6 DEF d

\* What a player eats leaves its clocks alone and adds at most one stock.
LEMMA FedGood ==
  ASSUME NEW s, Good(s), Turned(s)
  PROVE  /\ Good(Fed(s)) /\ Turned(Fed(s))
         /\ Fed(s).state = s.state /\ Fed(s).power = s.power /\ Fed(s).cell = s.cell
<1>1. /\ s \in PlayerRecord /\ s.gauge \in 0..DotsForAwaken
      /\ s.stocks \in 0..MaxAwakenStock
  BY DEF Good, PlayerRecord
<1>2. CASE s.stocks = MaxAwakenStock
  <2>1. DotsForAwaken \in 0..DotsForAwaken
    BY NumbersAssumption
  <2> QED
    BY <1>1, <1>2, <2>1 DEF Fed, Good, Turned, PlayerRecord
<1>3. CASE s.stocks # MaxAwakenStock /\ s.gauge + 1 >= DotsForAwaken
  <2>1. s.stocks + 1 \in 0..MaxAwakenStock /\ 0 \in 0..DotsForAwaken
    BY <1>1, <1>3, NumbersAssumption
  <2> QED
    BY <1>1, <1>3, <2>1 DEF Fed, Good, Turned, PlayerRecord
<1>4. CASE s.stocks # MaxAwakenStock /\ ~(s.gauge + 1 >= DotsForAwaken)
  <2>1. s.gauge + 1 \in 0..DotsForAwaken
    BY <1>1, <1>4, NumbersAssumption
  <2> QED
    BY <1>1, <1>4, <2>1 DEF Fed, Good, Turned, PlayerRecord
<1> QED
  BY <1>2, <1>3, <1>4

\* A pellet gives a standing player power.
LEMMA PoweredGood ==
  ASSUME NEW s, Good(s), s.state # "down"
  PROVE  /\ Good(Powered(s)) /\ Turned(Powered(s)) /\ Powered(s).state # "down"
<1> DEFINE r == Powered(s)
<1>1. s \in PlayerRecord /\ s.down = 0
  BY DEF Good
<1>2. r \in PlayerRecord
  BY <1>1, NumbersAssumption DEF Powered, PlayerRecord
<1>3. r.state = "power" /\ r.power = PowerTicks /\ r.down = 0
  BY <1>1 DEF Powered, PlayerRecord
<1> HIDE DEF r
<1>4. Good(r) /\ Turned(r) /\ r.state # "down"
  BY <1>2, <1>3, NumbersAssumption DEF Good, Turned
<1> QED
  BY <1>4 DEF r

\* Whatever lies in the cell, the record stays good.
LEMMA PickedUpGood ==
  ASSUME NEW s, Good(s), Turned(s), s.state # "down"
  PROVE  Good(PickedUp(s)) /\ Turned(PickedUp(s)) /\ PickedUp(s).state # "down"
<1> DEFINE t == IF s.cell \in dots THEN Fed(s) ELSE s
<1>1. Good(t) /\ Turned(t) /\ t.state # "down"
  BY FedGood
<1>2. Good(Powered(t)) /\ Turned(Powered(t)) /\ Powered(t).state # "down"
  <2> HIDE DEF t
  <2> QED
    BY <1>1, PoweredGood
<1> QED
  BY <1>1, <1>2 DEF PickedUp

\* Only a player in normal state goes down, and starts its timeout.
LEMMA DownedGood ==
  ASSUME NEW s, Good(s), s.state = "normal", s.grace = 0
  PROVE  Good(Downed(s)) /\ Turned(Downed(s)) /\ Downed(s).power = s.power
<1> DEFINE r == Downed(s)
<1>1. s \in PlayerRecord /\ 0 \in 0..RescueTicks /\ ~(s.power > 0)
  BY NumbersAssumption DEF Good
<1>2. r \in PlayerRecord
  BY <1>1 DEF Downed, PlayerRecord
<1>3. r.state = "down" /\ r.power = s.power /\ r.down = 0 /\ r.grace = 0
  BY <1>1 DEF Downed, PlayerRecord
<1> HIDE DEF r
<1>4. Good(r) /\ Turned(r)
  BY <1>1, <1>2, <1>3, NumbersAssumption DEF Good, Turned
<1> QED
  BY <1>3, <1>4 DEF r

\* Entering a cell changes nothing else.
LEMMA MovedGood ==
  ASSUME NEW s, Good(s), Turned(s), NEW c \in Cell
  PROVE  LET m == [s EXCEPT !.cell = c]
         IN  /\ Good(m) /\ Turned(m) /\ m.cell = c
             /\ m.state = s.state /\ m.stocks = s.stocks /\ m.gauge = s.gauge
             /\ m.power = s.power
<1> DEFINE m == [s EXCEPT !.cell = c]
<1>1. s \in PlayerRecord
  BY DEF Good
<1>2. /\ m \in PlayerRecord /\ m.cell = c
      /\ m.state = s.state /\ m.stocks = s.stocks /\ m.gauge = s.gauge
      /\ m.power = s.power /\ m.down = s.down /\ m.grace = s.grace
  BY <1>1 DEF PlayerRecord
<1> HIDE DEF m
<1>3. Good(m) /\ Turned(m)
  BY <1>2 DEF Good, Turned
<1> QED
  BY <1>2, <1>3 DEF m

\* A ghost that respawns is whole.
LEMMA SpawnedRecord ==
  ASSUME NEW c \in Cell, NEW k \in Kind
  PROVE  Spawned(c, k) \in GhostRecord
<1> DEFINE hp == IF k = "boss" THEN BossHp ELSE 1
<1>1. hp \in 1..BossHp
  BY NumbersAssumption DEF BossHp
<1>2. Spawned(c, k) = [cell |-> c, kind |-> k, hp |-> hp, stun |-> 0]
  BY DEF Spawned
<1> HIDE DEF hp
<1> QED
  BY <1>1, <1>2 DEF GhostRecord

\* Wherever ghosts are, they respawn as ghosts.
LEMMA RespawnsRecord ==
  ASSUME NEW G \in [Ghost -> GhostRecord], NEW g \in Ghost
  PROVE  GhostRespawns(G, g) \subseteq GhostRecord
<1>1. SUFFICES ASSUME NEW c \in {G[g].cell} \cup GhostCell, NEW k \in Kind
               PROVE  Spawned(c, k) \in GhostRecord
  BY DEF GhostRespawns
<1>2. G[g].cell \in Cell /\ GhostCell \subseteq Cell /\ Kind \subseteq {"boss", "other"}
  BY MazeAssumption DEF GhostRecord
<1> QED
  BY <1>2, SpawnedRecord

\* A player comes back in a cell of the maze.
LEMMA RespawnCellsCell ==
  ASSUME NEW P, NEW G, NEW p \in Player
  PROVE  RespawnCells(P, G, p) \subseteq Cell
  BY MazeAssumption DEF RespawnCells

\* Positions are cells.
LEMMA PositionsType ==
  ASSUME NEW P \in [Player -> PlayerRecord], NEW G \in [Ghost -> GhostRecord]
  PROVE  Positions(P, G) \in [player : [Player -> Cell], ghost : [Ghost -> Cell]]
<1>1. [p \in Player |-> P[p].cell] \in [Player -> Cell]
  BY DEF PlayerRecord
<1>2. [g \in Ghost |-> G[g].cell] \in [Ghost -> Cell]
  BY DEF GhostRecord
<1> QED
  BY <1>1, <1>2, Zenon DEF Positions

-----------------------------------------------------------------------------
(* The invariant.                                                          *)

Records == \A p \in Player : Good(player[p])

Turns == \A p \in Player : Turned(player[p]) \/ Awaiting(p)

Places == stage \in {"idle", "control"} => at = 1

IInv == TypeOK /\ Records /\ Turns /\ Places /\ SomebodyStands

\* One player changes, the others wait for their turns or had them.
LEMMA OneChanges ==
  ASSUME IInv, NEW q \in Player, NEW r, Good(r), Turned(r),
         player' = [player EXCEPT ![q] = r],
         \A p \in Player \ {q} : Awaiting(p) => Awaiting(p)'
  PROVE  player' \in [Player -> PlayerRecord] /\ Records' /\ Turns'
<1>1. player \in [Player -> PlayerRecord] /\ r \in PlayerRecord
  BY DEF IInv, TypeOK, Good
<1>2. player'[q] = r /\ \A p \in Player \ {q} : player'[p] = player[p]
  BY <1>1
<1>3. ASSUME NEW p \in Player
      PROVE  Good(player'[p]) /\ (Turned(player'[p]) \/ Awaiting(p)')
  <2>1. Good(player[p]) /\ (Turned(player[p]) \/ Awaiting(p))
    BY DEF IInv, Records, Turns
  <2> QED
    BY <1>2, <2>1
<1> QED
  BY <1>1, <1>3 DEF Records, Turns

\* Visiting the next player, or the first one of the next stage.
LEMMA VisitsNext ==
  ASSUME TypeOK, NEW next \in {"rescues", "ghosts", "control"}, stage # "idle",
         NextPlayer(next)
  PROVE  /\ at' \in Player /\ stage' \in Stage /\ stage' # "idle"
         /\ stage' = "control" => at' = 1 \/ stage = "control"
         /\ stage # "players" => stage' # "players"
         /\ \A p \in Player \ {at} :
              Awaiting(p) => Awaiting(p)'
         /\ stage' = next /\ next # stage => at = NumPlayers /\ at' = 1
  BY NumbersAssumption DEF TypeOK, NextPlayer, Player, Stage, Awaiting

-----------------------------------------------------------------------------
(* The initial states and the steps.                                       *)

\* At the start everybody stands and nobody has anything.
LEMMA InitInv == Init => IInv
<1> SUFFICES ASSUME Init PROVE IInv
  OBVIOUS
<1>1. 1 \in Player /\ 1 \in Ghost /\ 0 \in 0..DotsForAwaken
  BY NumbersAssumption DEF Player, Ghost
<1>2. ASSUME NEW p \in Player, NEW ai \in BOOLEAN
      PROVE  Good(Newborn(p, ai)) /\ Turned(Newborn(p, ai)) /\ Newborn(p, ai).state = "normal"
  BY NumbersAssumption, MazeAssumption DEF Newborn, Good, Turned, PlayerRecord
<1>3. /\ player \in [Player -> PlayerRecord] /\ Records /\ Turns
      /\ player[1].state = "normal"
  <2>1. \A p \in Player : player[p] = Newborn(p, p \in AiPlayer)
    BY DEF Init
  <2>2. ASSUME NEW p \in Player
        PROVE  Good(player[p]) /\ Turned(player[p]) /\ player[p].state = "normal"
    <3>1. (p \in AiPlayer) \in BOOLEAN
      OBVIOUS
    <3> DEFINE ai == p \in AiPlayer
    <3>2. player[p] = Newborn(p, ai)
      BY <2>1
    <3> HIDE DEF ai
    <3> QED
      BY <1>2, <3>1, <3>2 DEF ai
  <2>3. player = [p \in Player |-> Newborn(p, p \in AiPlayer)]
    BY DEF Init
  <2>4. player = [p \in Player |-> player[p]]
    BY <2>3
  <2> QED
    BY <1>1, <2>2, <2>4 DEF Records, Turns, Good
<1>4. ghost \in [Ghost -> GhostRecord]
  <2>1. PICK c \in [Ghost -> GhostCell], k \in [Ghost -> FirstKind] :
          ghost = [g \in Ghost |-> Spawned(c[g], k[g])]
    BY DEF Init
  <2>2. \A g \in Ghost : Spawned(c[g], k[g]) \in GhostRecord
    BY SpawnedRecord, MazeAssumption
  <2> QED
    BY <2>1, <2>2
<1>5. before \in [player : [Player -> Cell], ghost : [Ghost -> Cell]]
  BY <1>3, <1>4, PositionsType DEF Init
<1>6. TypeOK /\ Places /\ SomebodyStands
  BY <1>1, <1>3, <1>4, <1>5, MazeAssumption
     DEF Init, TypeOK, Stage, Places, SomebodyStands, Standing
<1> QED
  BY <1>3, <1>6 DEF IInv

\* What a step that is over with a stage owes to the invariant, when the last
\* step of a tick is not among its stages.
LEMMA OnesTurn ==
  ASSUME IInv, NEW next \in {"rescues", "ghosts", "control"}, stage \notin {"idle", "control"},
         NextPlayer(next), NEW r, Good(r), Turned(r), player' = [player EXCEPT ![at] = r],
         UNCHANGED <<ghost, before, foe>>, dots' \subseteq dots, pellets' \subseteq pellets,
         fed' \in [Player -> 0..DotsForAwaken]
  PROVE  IInv'
<1>1. TypeOK /\ at \in Player
  BY DEF IInv, TypeOK
<1>2. stage # "idle"
  OBVIOUS
<1>3. /\ at' \in Player /\ stage' \in Stage /\ stage' # "idle"
      /\ stage' = "control" => at' = 1
      /\ \A p \in Player \ {at} : Awaiting(p) => Awaiting(p)'
  BY <1>1, <1>2, VisitsNext
<1>4. player' \in [Player -> PlayerRecord] /\ Records' /\ Turns'
  BY <1>1, <1>3, OneChanges
<1>5. TypeOK'
  BY <1>1, <1>3, <1>4 DEF TypeOK
<1> QED
  BY <1>3, <1>4, <1>5 DEF IInv, Places, SomebodyStands

\* The same for a visit that changes no player.
LEMMA NobodysTurn ==
  ASSUME IInv, NEW next \in {"rescues", "ghosts", "control"}, stage \notin {"idle", "control"},
         NextPlayer(next), Turned(player[at]),
         UNCHANGED <<player, ghost, dots, pellets, before, foe, fed>>
  PROVE  IInv'
<1>1. at \in Player /\ player \in [Player -> PlayerRecord] /\ Good(player[at])
  BY DEF IInv, TypeOK, Records
<1>2. player' = [player EXCEPT ![at] = player[at]]
  BY <1>1
<1>3. fed' \in [Player -> 0..DotsForAwaken]
  BY DEF IInv, TypeOK
<1> QED
  BY <1>1, <1>2, <1>3, OnesTurn

\* Between ticks: a connection or a wish changes nobody's state.
LEMMA HandlersInv ==
  ASSUME IInv, Handlers
  PROVE  /\ IInv'
         /\ \A p \in Player : /\ player'[p].state = player[p].state
                            /\ player'[p].stocks = player[p].stocks
                            /\ player'[p].gauge = player[p].gauge
                            /\ player'[p].power = player[p].power
<1>1. PICK q \in Player : \/ \E connected \in BOOLEAN : SetConnection(q, connected)
                         \/ ReceiveAwaken(q)
  BY MazeAssumption DEF Handlers
<1>2. /\ stage = "idle"
      /\ UNCHANGED <<ghost, dots, pellets, before, stage, at, foe, fed>>
  BY <1>1 DEF SetConnection, ReceiveAwaken
<1>3. player[q] \in PlayerRecord /\ Good(player[q]) /\ Turned(player[q])
  BY <1>2 DEF IInv, TypeOK, Records, Turns, Awaiting
<1>4. PICK r : /\ player' = [player EXCEPT ![q] = r]
               /\ Good(r) /\ Turned(r) /\ r.state = player[q].state
               /\ r.stocks = player[q].stocks /\ r.gauge = player[q].gauge
               /\ r.power = player[q].power
  <2>1. CASE \E connected \in BOOLEAN : SetConnection(q, connected)
    <3>1. PICK connected \in BOOLEAN : SetConnection(q, connected)
      BY <2>1
    <3> DEFINE r == [player[q] EXCEPT !.ai = ~connected]
    <3>2. player' = [player EXCEPT ![q] = r]
      BY <3>1 DEF SetConnection
    <3>3. Good(r) /\ Turned(r) /\ r.state = player[q].state
          /\ r.stocks = player[q].stocks /\ r.gauge = player[q].gauge
          /\ r.power = player[q].power
      BY <1>3 DEF Good, Turned, PlayerRecord
    <3> QED
      BY <3>2, <3>3
  <2>2. CASE ReceiveAwaken(q)
    <3> DEFINE r == [player[q] EXCEPT !.wants = TRUE]
    <3>1. player' = [player EXCEPT ![q] = r]
      BY <2>2 DEF ReceiveAwaken
    <3>2. Good(r) /\ Turned(r) /\ r.state = player[q].state
          /\ r.stocks = player[q].stocks /\ r.gauge = player[q].gauge
          /\ r.power = player[q].power
      BY <1>3 DEF Good, Turned, PlayerRecord
    <3> QED
      BY <3>1, <3>2
  <2> QED
    BY <1>1, <2>1, <2>2
<1>5. player' \in [Player -> PlayerRecord] /\ Records' /\ Turns'
  BY <1>2, <1>4, OneChanges DEF Awaiting
<1>6. \A p \in Player : player'[p].state = player[p].state
                      /\ player'[p].stocks = player[p].stocks
                      /\ player'[p].gauge = player[p].gauge
                      /\ player'[p].power = player[p].power
  BY <1>4 DEF IInv, TypeOK
<1>7. TypeOK' /\ Places'
  BY <1>2, <1>5 DEF IInv, TypeOK, Places
<1>8. SomebodyStands'
  BY <1>2, <1>6 DEF IInv, SomebodyStands, Standing
<1> QED
  BY <1>5, <1>6, <1>7, <1>8 DEF IInv

\* The clock moves on for everybody at once, and everybody awaits a turn.
LEMMA BeginTickInv ==
  ASSUME IInv, NEW back \in SUBSET (PelletCell \ pellets), BeginTick(back)
  PROVE  /\ IInv'
         /\ \A p \in Player : /\ player'[p].state = player[p].state
                            /\ player'[p].stocks = player[p].stocks
                            /\ player'[p].gauge = player[p].gauge
                            /\ player'[p].power <= player[p].power
<1>1. /\ stage = "idle" /\ stage' = "players" /\ at' = at /\ at = 1
      /\ \A p \in Player : player'[p] = Older(player[p])
      /\ player' = [p \in Player |-> Older(player[p])]
  BY DEF BeginTick, IInv, Places
<1>2. \A p \in Player : Good(player[p]) /\ Turned(player[p])
  BY <1>1 DEF IInv, Records, Turns, Awaiting
<1>3. \A p \in Player : /\ Good(player'[p])
                      /\ player'[p].state = player[p].state
                      /\ player'[p].stocks = player[p].stocks
                      /\ player'[p].gauge = player[p].gauge
                      /\ player'[p].power <= player[p].power
  BY <1>1, <1>2, OlderGood
<1>4. player' \in [Player -> PlayerRecord] /\ Records' /\ Turns'
  <2>1. \A p \in Player : Older(player[p]) \in PlayerRecord
    BY <1>1, <1>3 DEF Good
  <2>2. \A p \in Player : Awaiting(p)'
    BY <1>1 DEF Awaiting, Player
  <2> QED
    BY <1>1, <1>3, <2>1, <2>2 DEF Records, Turns
<1>5. ghost' \in [Ghost -> GhostRecord]
  <2>1. ASSUME NEW g \in Ghost
        PROVE  [ghost[g] EXCEPT !.stun = Less(@)] \in GhostRecord
    <3>1. ghost[g] \in GhostRecord /\ Less(ghost[g].stun) \in Nat
      BY DEF IInv, TypeOK, GhostRecord, Less
    <3> QED
      BY <3>1 DEF GhostRecord
  <2>2. ghost' = [g \in Ghost |-> [ghost[g] EXCEPT !.stun = Less(@)]]
    BY DEF BeginTick
  <2> QED
    BY <2>1, <2>2
<1>6. before' \in [player : [Player -> Cell], ghost : [Ghost -> Cell]]
  BY PositionsType DEF BeginTick, IInv, TypeOK
<1>7. pellets' \in SUBSET PelletCell /\ UNCHANGED <<dots, at, foe, fed>>
  BY DEF BeginTick, IInv, TypeOK
<1> QED
  BY <1>1, <1>3, <1>4, <1>5, <1>6, <1>7
     DEF IInv, TypeOK, Stage, Places, SomebodyStands

\* The timeout is over: the player comes back and pays.
LEMMA RespawnTurnInv ==
  ASSUME IInv, RespawnTurn
  PROVE  /\ IInv'
         /\ player[at].state = "down" /\ player[at].down = RescueTicks
         /\ player' = [player EXCEPT ![at] = player'[at]]
         /\ player'[at].stocks = Less(player[at].stocks) /\ player'[at].gauge = 0
         /\ player'[at].power = 0
<1>1. /\ at \in Player /\ player[at] \in PlayerRecord
      /\ player \in [Player -> PlayerRecord] /\ fed \in [Player -> 0..DotsForAwaken]
      /\ dots' = dots /\ pellets' = pellets
  BY DEF IInv, TypeOK, RespawnTurn
<1>2. PICK c \in RespawnCells(player, ghost, at) :
        player' = [player EXCEPT ![at] = Revived(Penalised(player[at]), c)]
  BY DEF RespawnTurn
<1> DEFINE r == Revived(Penalised(player[at]), c)
<1>3. c \in Cell
  BY <1>1, <1>2, RespawnCellsCell
<1>4. /\ Good(r) /\ Turned(r) /\ r.power = 0
      /\ r.stocks = Less(player[at].stocks) /\ r.gauge = 0
  BY <1>1, <1>3, PenalisedRecord, RevivedGood
<1>5. fed' \in [Player -> 0..DotsForAwaken]
  BY <1>1, NumbersAssumption DEF RespawnTurn
<1> HIDE DEF r
<1>6. player' = [player EXCEPT ![at] = r] /\ player'[at] = r
  BY <1>1, <1>2 DEF r
<1>7. IInv'
  BY <1>1, <1>4, <1>5, <1>6, OnesTurn DEF RespawnTurn
<1>8. player[at].state = "down" /\ player[at].down = RescueTicks
  BY <1>1, NumbersAssumption DEF RespawnTurn, PlayerRecord
<1> QED
  BY <1>4, <1>6, <1>7, <1>8

\* Before the timeout nothing happens to a player that is down.
LEMMA DownTurnInv ==
  ASSUME IInv, DownTurn
  PROVE  IInv'
<1>1. Turned(player[at])
  BY NumbersAssumption DEF DownTurn, Turned
<1> QED
  BY <1>1, NobodysTurn DEF DownTurn

\* A turn that ends where it began: what it costs to awaken.
LEMMA StayTurnInv ==
  ASSUME IInv, NEW asks \in BOOLEAN, StayTurn(asks)
  PROVE  /\ IInv'
         /\ player[at].state # "down"
         /\ player' = [player EXCEPT ![at] = player'[at]]
         /\ \/ player'[at].power = player[at].power
            \/ /\ player[at].stocks > 0 /\ player'[at].stocks = player[at].stocks - 1
               /\ player'[at].gauge = player[at].gauge
<1> DEFINE r == Awakened(Decided(Expired(player[at]), asks))
<1>1. /\ at \in Player /\ player \in [Player -> PlayerRecord] /\ Good(player[at])
      /\ player[at].state # "down"
  BY DEF IInv, TypeOK, Records, StayTurn, Standing
<1>2. player' = [player EXCEPT ![at] = r] /\ player'[at] = r
  BY <1>1 DEF StayTurn
<1>3. /\ Good(r) /\ Turned(r)
      /\ \/ r.power = player[at].power
         \/ /\ player[at].stocks > 0 /\ r.stocks = player[at].stocks - 1
            /\ r.gauge = player[at].gauge
  BY <1>1, TurnGood
<1>4. fed' \in [Player -> 0..DotsForAwaken]
  BY DEF StayTurn, IInv, TypeOK
<1> HIDE DEF r
<1>5. IInv'
  BY <1>2, <1>3, <1>4, OnesTurn DEF StayTurn
<1> QED
  BY <1>1, <1>2, <1>3, <1>5

\* What a dot adds to a player's worth.
LEMMA FedWorth ==
  ASSUME NEW s \in PlayerRecord, s.stocks < MaxAwakenStock
  PROVE  Worth(Fed(s)) <= Worth(s) + 1
<1>1. /\ s.stocks \in Nat /\ s.gauge \in Nat /\ s.gauge <= DotsForAwaken
      /\ DotsForAwaken \in Nat
  BY NumbersAssumption DEF PlayerRecord
<1>2. s.stocks * DotsForAwaken \in Nat
      /\ (s.stocks + 1) * DotsForAwaken = s.stocks * DotsForAwaken + DotsForAwaken
  BY <1>1
<1>3. CASE s.gauge + 1 >= DotsForAwaken
  <2>1. Fed(s).stocks = s.stocks + 1 /\ Fed(s).gauge = 0
    BY <1>1, <1>3, NumbersAssumption DEF Fed, PlayerRecord
  <2> QED
    BY <1>1, <1>2, <1>3, <2>1 DEF Worth
<1>4. CASE ~(s.gauge + 1 >= DotsForAwaken)
  <2>1. Fed(s).stocks = s.stocks /\ Fed(s).gauge = s.gauge + 1
    BY <1>1, <1>4, NumbersAssumption DEF Fed, PlayerRecord
  <2> QED
    BY <1>1, <1>2, <1>4, <2>1 DEF Worth
<1> QED
  BY <1>3, <1>4

\* A turn that ends in a cell, with what lies there: power grows by a pellet
\* of the cell, or a stock was spent that the dot of the cell does not replace.
LEMMA MoveTurnInv ==
  ASSUME IInv, NEW asks \in BOOLEAN, NEW c \in Cell, MoveTurn(asks, c)
  PROVE  /\ IInv'
         /\ player[at].state # "down"
         /\ player' = [player EXCEPT ![at] = player'[at]]
         /\ \/ player'[at].power = player[at].power
            \/ player'[at].cell \in pellets \ pellets'
            \/ Worth(player'[at]) < Worth(player[at])
<1> DEFINE o == player[at]
           u == Awakened(Decided(Expired(o), asks))
           s == [u EXCEPT !.cell = c]
           f == IF s.cell \in dots THEN Fed(s) ELSE s
           t == PickedUp(s)
<1>1. /\ at \in Player /\ player \in [Player -> PlayerRecord]
      /\ Good(o) /\ o \in PlayerRecord /\ o.state # "down"
  BY DEF IInv, TypeOK, Records, MoveTurn, Standing
<1>2. player' = [player EXCEPT ![at] = t] /\ player'[at] = t
  BY <1>1 DEF MoveTurn
<1>3. /\ Good(u) /\ Turned(u) /\ u.state # "down"
      /\ \/ u.stocks = o.stocks /\ u.gauge = o.gauge /\ u.power = o.power
         \/ o.stocks > 0 /\ u.stocks = o.stocks - 1 /\ u.gauge = o.gauge
  BY <1>1, TurnGood
<1>4. /\ Good(s) /\ Turned(s) /\ s.state # "down" /\ s.cell = c
      /\ s.stocks = u.stocks /\ s.gauge = u.gauge /\ s.power = u.power
  <2> HIDE DEF u
  <2> QED
    BY <1>3, MovedGood
<1>5. Good(t) /\ Turned(t)
  <2> HIDE DEF s
  <2> QED
    BY <1>4, PickedUpGood
<1>6. Good(f) /\ f.power = s.power /\ f.cell = c
  <2> HIDE DEF s
  <2> QED
    BY <1>4, FedGood
<1>7. \/ t.power = o.power
      \/ t.cell \in pellets \ pellets'
      \/ Worth(t) < Worth(o)
  <2>1. CASE c \in pellets
    <3>1. t = Powered(f)
      BY <1>4, <2>1 DEF PickedUp
    <3>2. Powered(f).cell = f.cell
      <4>1. f \in PlayerRecord
        BY <1>6 DEF Good
      <4> HIDE DEF f
      <4> QED
        BY <4>1 DEF Powered, PlayerRecord
    <3>3. pellets' = pellets \ {c}
      BY DEF MoveTurn
    <3> HIDE DEF f, t
    <3> QED
      BY <1>6, <2>1, <3>1, <3>2, <3>3
  <2>2. CASE c \notin pellets
    <3>1. t = f
      BY <1>4, <2>2 DEF PickedUp
    <3>2. CASE u.power = o.power
      <4> HIDE DEF f, s, t, u
      <4> QED
        BY <1>4, <1>6, <3>1, <3>2
    <3>3. CASE u.power # o.power
      <4>1. o.stocks > 0 /\ s.stocks = o.stocks - 1 /\ s.gauge = o.gauge
        <5> HIDE DEF s, u
        <5> QED
          BY <1>3, <1>4, <3>3
      <4>2. /\ o.stocks \in Nat /\ o.stocks <= MaxAwakenStock /\ o.gauge \in Nat
            /\ DotsForAwaken \in Nat /\ DotsForAwaken >= 2 /\ MaxAwakenStock \in Nat
            /\ s \in PlayerRecord
        BY <1>1, <1>4, NumbersAssumption DEF PlayerRecord, Good
      <4>3. o.stocks * DotsForAwaken \in Nat
            /\ (o.stocks - 1) * DotsForAwaken = o.stocks * DotsForAwaken - DotsForAwaken
        BY <4>2
      <4>4. Worth(s) = Worth(o) - DotsForAwaken /\ Worth(o) \in Nat
        <5> HIDE DEF s
        <5> QED
          BY <4>1, <4>2, <4>3 DEF Worth
      <4>5. f = s \/ f = Fed(s)
        OBVIOUS
      <4>6. Worth(Fed(s)) <= Worth(s) + 1
        <5> HIDE DEF s
        <5> QED
          BY <4>1, <4>2, FedWorth
      <4>7. Worth(f) \in Int /\ Worth(Fed(s)) \in Int
        <5>1. Good(Fed(s))
          <6> HIDE DEF s
          <6> QED
            BY <1>4, FedGood
        <5>2. \A r \in PlayerRecord : Worth(r) \in Int
          BY NumbersAssumption DEF Worth, PlayerRecord
        <5> HIDE DEF s, f
        <5> QED
          BY <1>6, <5>1, <5>2 DEF Good
      <4> HIDE DEF f, s, t
      <4> QED
        BY <3>1, <4>2, <4>4, <4>5, <4>6, <4>7
    <3> QED
      BY <3>2, <3>3
  <2> QED
    BY <2>1, <2>2
<1>8. fed' \in [Player -> 0..DotsForAwaken]
  <2> DEFINE n == IF c \notin dots THEN fed[at] ELSE IF t.stocks > s.stocks THEN 0
                  ELSE IF fed[at] < DotsForAwaken THEN fed[at] + 1 ELSE fed[at]
  <2>1. fed' = [fed EXCEPT ![at] = n]
    BY DEF MoveTurn
  <2>2. fed \in [Player -> 0..DotsForAwaken]
    BY DEF IInv, TypeOK
  <2>3. n \in 0..DotsForAwaken
    <3> HIDE DEF s, t
    <3> QED
      BY <1>1, <2>2, NumbersAssumption
  <2> HIDE DEF n
  <2> QED
    BY <2>1, <2>2, <2>3
<1>9. /\ stage = "players" /\ NextPlayer("rescues")
      /\ UNCHANGED <<ghost, before, foe>>
      /\ dots' \subseteq dots /\ pellets' \subseteq pellets
  BY DEF MoveTurn
<1> HIDE DEF t
<1>10. IInv'
  BY <1>2, <1>5, <1>8, <1>9, OnesTurn
<1> QED
  BY <1>1, <1>2, <1>7, <1>10

\* After the turns of the players everybody had one.
LEMMA HadTurns ==
  ASSUME IInv, stage # "players", NEW p \in Player
  PROVE  Good(player[p]) /\ Turned(player[p]) /\ player[p] \in PlayerRecord
  BY DEF IInv, TypeOK, Records, Turns, Awaiting

\* A member reached the player: it comes back with all it has.
LEMMA RescueInv ==
  ASSUME IInv, Rescue
  PROVE  /\ IInv'
         /\ Rescuers(player, at) # {}
         /\ player' = [player EXCEPT ![at] = player'[at]]
         /\ player'[at].stocks = player[at].stocks
         /\ player'[at].gauge = player[at].gauge
         /\ player'[at].power = 0
<1>1. /\ at \in Player /\ player \in [Player -> PlayerRecord]
      /\ player[at] \in PlayerRecord
      /\ fed' \in [Player -> 0..DotsForAwaken]
      /\ dots' = dots /\ pellets' = pellets
  BY DEF IInv, TypeOK, Rescue
<1>2. PICK c \in RespawnCells(player, ghost, at) :
        player' = [player EXCEPT ![at] = Revived(player[at], c)]
  BY DEF Rescue
<1> DEFINE r == Revived(player[at], c)
<1>3. c \in Cell
  BY <1>1, <1>2, RespawnCellsCell
<1>4. /\ Good(r) /\ Turned(r) /\ r.power = 0
      /\ r.stocks = player[at].stocks /\ r.gauge = player[at].gauge
  BY <1>1, <1>3, RevivedGood
<1> HIDE DEF r
<1>5. player' = [player EXCEPT ![at] = r] /\ player'[at] = r
  BY <1>1, <1>2 DEF r
<1>6. IInv'
  BY <1>1, <1>4, <1>5, OnesTurn DEF Rescue
<1> QED
  BY <1>4, <1>5, <1>6 DEF Rescue

\* Nobody is there to rescue, or nobody to be rescued.
LEMMA NoRescueInv ==
  ASSUME IInv, NoRescue
  PROVE  IInv'
<1>1. Turned(player[at])
  BY HadTurns DEF NoRescue, IInv, TypeOK
<1> QED
  BY <1>1, NobodysTurn DEF NoRescue

\* A ghost moves and players stay what they are.
LEMMA GhostTurnInv ==
  ASSUME IInv, NEW c \in Cell, GhostTurn(c)
  PROVE  IInv'
<1>1. /\ stage = "ghosts" /\ stage' \in {"ghosts", "collisions"} /\ foe' \in Ghost
      /\ UNCHANGED <<player, dots, pellets, before, at, fed>>
  BY NumbersAssumption DEF GhostTurn, IInv, TypeOK, Ghost
<1>2. ghost' \in [Ghost -> GhostRecord]
  <2>1. foe \in Ghost /\ ghost \in [Ghost -> GhostRecord] /\ ghost[foe] \in GhostRecord
    BY DEF IInv, TypeOK
  <2>2. [ghost[foe] EXCEPT !.cell = c] \in GhostRecord
    BY <2>1 DEF GhostRecord
  <2>3. ghost' = [ghost EXCEPT ![foe] = [ghost[foe] EXCEPT !.cell = c]]
    BY DEF GhostTurn
  <2> QED
    BY <2>1, <2>2, <2>3
<1>3. \A p \in Player : Turned(player[p])
  BY <1>1, HadTurns
<1>4. TypeOK'
  BY <1>1, <1>2 DEF IInv, TypeOK, Stage
<1>5. Records' /\ Turns'
  BY <1>1, <1>3 DEF IInv, Records, Turns
<1> QED
  BY <1>1, <1>4, <1>5 DEF IInv, Places, SomebodyStands

\* A meeting of a player with a ghost that leaves the record r of the player
\* and the record q of the ghost.
LEMMA MeetingInv ==
  ASSUME IInv, stage = "collisions", NextCollision,
         NEW r, Good(r), Turned(r), player' = [player EXCEPT ![at] = r],
         NEW q \in GhostRecord, ghost' = [ghost EXCEPT ![foe] = q],
         UNCHANGED <<dots, pellets, before, fed>>
  PROVE  IInv'
<1>1. at \in Player /\ foe \in Ghost /\ TypeOK /\ ghost' \in [Ghost -> GhostRecord]
  BY DEF IInv, TypeOK
<1>2. /\ at' \in Player /\ foe' \in Ghost /\ stage' \in Stage
      /\ stage' \notin {"idle", "players"} /\ (stage' = "control" => at' = 1)
  <2>1. CASE foe < NumGhosts
    BY <1>1, <2>1, NumbersAssumption DEF NextCollision, Ghost, Stage
  <2>2. CASE ~(foe < NumGhosts)
    <3>1. NextPlayer("control") /\ foe' = 1 /\ 1 \in Ghost
      BY <2>2, NumbersAssumption DEF NextCollision, Ghost
    <3> QED
      BY <1>1, <3>1, VisitsNext
  <2> QED
    BY <2>1, <2>2
<1>3. \A p \in Player \ {at} : Awaiting(p) => Awaiting(p)'
  BY DEF Awaiting
<1>4. player' \in [Player -> PlayerRecord] /\ Records' /\ Turns'
  BY <1>1, <1>3, OneChanges
<1>5. TypeOK'
  BY <1>1, <1>2, <1>4 DEF TypeOK
<1> QED
  BY <1>2, <1>4, <1>5 DEF IInv, Places, SomebodyStands

\* What the four outcomes of a meeting do: only going down changes a player,
\* and not its power.
LEMMA CollisionInv ==
  ASSUME IInv, Pass \/ BeatGhost \/ HitBoss \/ GoDown
  PROVE  /\ IInv'
         /\ \/ player' = player
            \/ /\ player' = [player EXCEPT ![at] = player'[at]]
               /\ player[at].state # "down"
               /\ player'[at].power = player[at].power
<1>1. /\ stage = "collisions" /\ NextCollision
      /\ UNCHANGED <<dots, pellets, before, fed>>
  BY DEF Pass, BeatGhost, HitBoss, GoDown
<1>2. /\ at \in Player /\ player \in [Player -> PlayerRecord]
      /\ foe \in Ghost /\ ghost \in [Ghost -> GhostRecord] /\ ghost[foe] \in GhostRecord
      /\ Good(player[at]) /\ Turned(player[at])
  BY <1>1, HadTurns DEF IInv, TypeOK
<1>3. player = [player EXCEPT ![at] = player[at]] /\ ghost = [ghost EXCEPT ![foe] = ghost[foe]]
  BY <1>2
<1>4. CASE Pass
  <2>1. player' = player /\ ghost' = ghost
    BY <1>4 DEF Pass
  <2> QED
    BY <1>1, <1>2, <1>3, <2>1, MeetingInv
<1>5. CASE BeatGhost
  <2>1. PICK q \in GhostRespawns(ghost, foe) : ghost' = [ghost EXCEPT ![foe] = q]
    BY <1>5 DEF BeatGhost
  <2>2. q \in GhostRecord /\ player' = player
    BY <1>2, <1>5, RespawnsRecord DEF BeatGhost
  <2> QED
    BY <1>1, <1>2, <1>3, <2>1, <2>2, MeetingInv
<1>6. CASE HitBoss
  <2> DEFINE q == [ghost[foe] EXCEPT !.hp = @ - 1, !.stun = StunTicks]
  <2>1. ghost[foe].hp - 1 \in 1..BossHp
    BY <1>2, <1>6, NumbersAssumption DEF HitBoss, GhostRecord, BossHp
  <2>2. q \in GhostRecord
    BY <1>2, <2>1, NumbersAssumption DEF GhostRecord
  <2>3. ghost' = [ghost EXCEPT ![foe] = q] /\ player' = player
    BY <1>2, <1>6 DEF HitBoss
  <2> HIDE DEF q
  <2> QED
    BY <1>1, <1>2, <1>3, <2>2, <2>3, MeetingInv
<1>7. CASE GoDown
  <2>1. /\ player[at].state = "normal" /\ player[at].grace = 0
        /\ player' = [player EXCEPT ![at] = Downed(player[at])] /\ ghost' = ghost
    BY <1>7 DEF GoDown
  <2>2. Good(Downed(player[at])) /\ Turned(Downed(player[at]))
        /\ Downed(player[at]).power = player[at].power
    BY <1>2, <2>1, DownedGood
  <2>3. IInv'
    BY <1>1, <1>2, <1>3, <2>1, <2>2, MeetingInv
  <2> QED
    BY <1>2, <2>1, <2>2, <2>3
<1> QED
  BY <1>4, <1>5, <1>6, <1>7

\* The end of the tick: the match goes on only if somebody stands.
LEMMA ControlInv ==
  ASSUME IInv, NEW grown \in SUBSET (DotCell \ dots), NEW driven \in SUBSET Ghost,
         NEW otherEnd \in BOOLEAN, Control(grown, driven, otherEnd)
  PROVE  IInv' /\ player' = player
<1>1. /\ stage = "control" /\ stage' \in {"idle", "over"}
      /\ stage' = "idle" => \E p \in Player : Standing(player, p)
      /\ UNCHANGED <<player, pellets, at, foe, fed>>
      /\ dots' \in SUBSET Cell
  BY MazeAssumption DEF Control, AllDown, IInv, TypeOK
<1>2. ghost' \in [Ghost -> GhostRecord]
  <2>1. ASSUME NEW g \in Ghost PROVE ghost'[g] \in GhostRecord
    <3>1. ghost'[g] \in GhostRespawns(ghost, g) \/ ghost'[g] = ghost[g]
      BY DEF Control
    <3> QED
      BY <3>1, RespawnsRecord DEF IInv, TypeOK
  <2>2. ghost' = [g \in Ghost |-> ghost'[g]]
    BY DEF Control
  <2> QED
    BY <2>1, <2>2
<1>3. before' \in [player : [Player -> Cell], ghost : [Ghost -> Cell]]
  BY <1>2, PositionsType DEF Control, IInv, TypeOK
<1>4. \A p \in Player : Turned(player[p])
  BY <1>1, HadTurns
<1>5. TypeOK'
  BY <1>1, <1>2, <1>3 DEF IInv, TypeOK, Stage
<1>6. Records' /\ Turns'
  BY <1>1, <1>4 DEF IInv, Records, Turns
<1> QED
  BY <1>1, <1>5, <1>6 DEF IInv, Places, SomebodyStands, Standing

-----------------------------------------------------------------------------
(* The theorems.                                                           *)

\* The invariant is inductive.
LEMMA NextInv == IInv /\ [Next]_vars => IInv'
<1> SUFFICES ASSUME IInv, [Next]_vars PROVE IInv'
  OBVIOUS
<1>1. CASE Handlers
  BY <1>1, HandlersInv
<1>2. CASE \E back \in SUBSET (PelletCell \ pellets) : BeginTick(back)
  BY <1>2, BeginTickInv
<1>3. CASE RespawnTurn
  BY <1>3, RespawnTurnInv
<1>4. CASE DownTurn
  BY <1>4, DownTurnInv
<1>5. CASE \E asks \in BOOLEAN : StayTurn(asks)
  BY <1>5, StayTurnInv
<1>6. CASE \E asks \in BOOLEAN, c \in Cell : MoveTurn(asks, c)
  BY <1>6, MoveTurnInv
<1>7. CASE Rescue
  BY <1>7, RescueInv
<1>8. CASE NoRescue
  BY <1>8, NoRescueInv
<1>9. CASE \E c \in Cell : GhostTurn(c)
  BY <1>9, GhostTurnInv
<1>10. CASE Pass \/ BeatGhost \/ HitBoss \/ GoDown
  BY <1>10, CollisionInv
<1>11. CASE \E grown \in SUBSET (DotCell \ dots), driven \in SUBSET Ghost,
               otherEnd \in BOOLEAN : Control(grown, driven, otherEnd)
  BY <1>11, ControlInv
<1>12. CASE UNCHANGED vars
  BY <1>12 DEF vars, IInv, TypeOK, Records, Turns, Places, SomebodyStands, Standing, Awaiting
<1> QED
  BY <1>1, <1>2, <1>3, <1>4, <1>5, <1>6, <1>7, <1>8, <1>9, <1>10, <1>11, <1>12
     DEF Next, Step

\* In every reachable state of a match, at any point of a tick.
THEOREM Invariance == Spec => []IInv
<1> QED
  BY InitInv, NextInv, PTL DEF Spec

\* Every variable keeps its type.
THEOREM TypeCorrect == Spec => []TypeOK
<1>1. IInv => TypeOK
  BY DEF IInv
<1> QED
  BY <1>1, Invariance, PTL

\* The clocks of every player agree with its state, between any two visits.
THEOREM ClocksCorrect == Spec => []ClocksAgree
<1>1. IInv => ClocksAgree
  <2> SUFFICES ASSUME IInv, NEW p \in Player
               PROVE  /\ player[p].power > 0 => player[p].state = "power"
                      /\ player[p].state = "power" => player[p].power > 0 \/ Awaiting(p)
                      /\ player[p].grace > 0 => Standing(player, p)
                      /\ ~Standing(player, p) => player[p].down < RescueTicks \/ Awaiting(p)
                      /\ Standing(player, p) => player[p].down = 0
    BY DEF ClocksAgree
  <2>1. Good(player[p]) /\ (Turned(player[p]) \/ Awaiting(p))
    BY DEF IInv, Records, Turns
  <2> QED
    BY <2>1 DEF Good, Turned, Standing
<1> QED
  BY <1>1, Invariance, PTL

\* No tick leaves a match running with everybody down.
THEOREM StandingCorrect == Spec => []SomebodyStands
<1>1. IInv => SomebodyStands
  BY DEF IInv
<1> QED
  BY <1>1, Invariance, PTL

\* One step keeps what a player that is down has, or takes what the timeout
\* takes, or lets a member bring it back.
LEMMA DownStep ==
  ASSUME IInv, [Next]_vars, NEW p \in Player, ~Standing(player, p)
  PROVE  LET s == player[p]
             t == player'[p]
         IN  \/ /\ <<t.stocks, t.gauge>> = <<s.stocks, s.gauge>>
                /\ Standing(player', p) => Rescuers(player, p) # {}
             \/ /\ s.down = RescueTicks
                /\ t.stocks = Less(s.stocks) /\ t.gauge = 0
<1> DEFINE s == player[p]
           t == player'[p]
           Goal == \/ /\ <<t.stocks, t.gauge>> = <<s.stocks, s.gauge>>
                      /\ Standing(player', p) => Rescuers(player, p) # {}
                   \/ /\ s.down = RescueTicks
                      /\ t.stocks = Less(s.stocks) /\ t.gauge = 0
<1>1. at \in Player /\ player \in [Player -> PlayerRecord] /\ s.state = "down"
  BY DEF IInv, TypeOK, Standing
<1>2. ASSUME t.state = s.state, t.stocks = s.stocks, t.gauge = s.gauge
      PROVE  Goal
  BY <1>1, <1>2 DEF Standing
<1>3. ASSUME player' = player
      PROVE  Goal
  BY <1>2, <1>3
<1>4. ASSUME player' = [player EXCEPT ![at] = player'[at]], player[at].state # "down"
      PROVE  Goal
  <2>1. at # p /\ t = s
    BY <1>1, <1>4
  <2> QED
    BY <1>2, <2>1
<1>5. CASE Handlers
  BY <1>2, <1>5, HandlersInv
<1>6. CASE \E back \in SUBSET (PelletCell \ pellets) : BeginTick(back)
  BY <1>2, <1>6, BeginTickInv
<1>7. CASE RespawnTurn
  <2>1. CASE at = p
    BY <1>7, <2>1, RespawnTurnInv
  <2>2. CASE at # p
    <3>1. t = s
      BY <1>1, <1>7, <2>2, RespawnTurnInv
    <3> QED
      BY <1>2, <3>1
  <2> QED
    BY <2>1, <2>2
<1>8. CASE \E asks \in BOOLEAN : StayTurn(asks)
  BY <1>4, <1>8, StayTurnInv
<1>9. CASE \E asks \in BOOLEAN, c \in Cell : MoveTurn(asks, c)
  BY <1>4, <1>9, MoveTurnInv
<1>10. CASE Rescue
  <2>1. CASE at = p
    BY <1>10, <2>1, RescueInv
  <2>2. CASE at # p
    <3>1. t = s
      BY <1>1, <1>10, <2>2, RescueInv
    <3> QED
      BY <1>2, <3>1
  <2> QED
    BY <2>1, <2>2
<1>11. CASE Pass \/ BeatGhost \/ HitBoss \/ GoDown
  BY <1>3, <1>4, <1>11, CollisionInv
<1>12. CASE \/ DownTurn \/ NoRescue \/ UNCHANGED vars
            \/ \E c \in Cell : GhostTurn(c)
            \/ \E grown \in SUBSET (DotCell \ dots), driven \in SUBSET Ghost,
                  otherEnd \in BOOLEAN : Control(grown, driven, otherEnd)
  <2>1. player' = player
    BY <1>12 DEF DownTurn, NoRescue, GhostTurn, Control, vars
  <2> QED
    BY <1>3, <2>1
<1> QED
  BY <1>5, <1>6, <1>7, <1>8, <1>9, <1>10, <1>11, <1>12 DEF Next, Step

\* Going down costs nothing until the timeout, and then a stock and the gauge.
THEOREM DownCost == Spec => DownCosts
<1>1. IInv /\ [Next]_vars =>
        [\A p \in Player : ~Standing(player, p) =>
           LET s == player[p]
               t == player'[p]
           IN  \/ /\ <<t.stocks, t.gauge>> = <<s.stocks, s.gauge>>
                  /\ Standing(player', p) => Rescuers(player, p) # {}
               \/ /\ s.down = RescueTicks
                  /\ t.stocks = Less(s.stocks) /\ t.gauge = 0]_vars
  BY DownStep
<1> QED
  BY <1>1, Invariance, PTL DEF Spec, DownCosts

\* One step gives a player power for a pellet or for what it has.
LEMMA PowerStep ==
  ASSUME IInv, [Next]_vars, NEW p \in Player, player'[p].power > player[p].power
  PROVE  \/ player'[p].cell \in pellets \ pellets'
         \/ Worth(player'[p]) < Worth(player[p])
<1> DEFINE Goal == \/ player'[p].cell \in pellets \ pellets'
                   \/ Worth(player'[p]) < Worth(player[p])
<1>1. /\ at \in Player /\ player \in [Player -> PlayerRecord]
      /\ player[p] \in PlayerRecord /\ player[p].power \in Nat
  BY DEF IInv, TypeOK, PlayerRecord
<1>2. ~(player'[p].power <= player[p].power)
  <2>1. IInv'
    BY NextInv
  <2>2. player'[p].power \in Nat
    BY <2>1 DEF IInv, TypeOK, PlayerRecord
  <2> QED
    BY <1>1, <2>2
<1>3. player' # player /\ player'[p].power # player[p].power
  BY <1>1, <1>2
<1>4. ASSUME player' = [player EXCEPT ![at] = player'[at]]
      PROVE  at = p
  BY <1>1, <1>3, <1>4
<1>5. CASE Handlers
  BY <1>3, <1>5, HandlersInv
<1>6. CASE \E back \in SUBSET (PelletCell \ pellets) : BeginTick(back)
  BY <1>2, <1>6, BeginTickInv
<1>7. ASSUME player' = [player EXCEPT ![at] = player'[at]], player'[at].power = 0
      PROVE  FALSE
  BY <1>1, <1>2, <1>4, <1>7
<1>8. CASE RespawnTurn
  BY <1>7, <1>8, RespawnTurnInv
<1>9. CASE Rescue
  BY <1>7, <1>9, RescueInv
<1>10. CASE \E asks \in BOOLEAN : StayTurn(asks)
  <2>1. /\ at = p /\ player[p].stocks > 0
        /\ player'[p].stocks = player[p].stocks - 1 /\ player'[p].gauge = player[p].gauge
    BY <1>3, <1>4, <1>10, StayTurnInv
  <2>2. player[p].stocks \in Nat /\ player[p].gauge \in Nat /\ DotsForAwaken \in Nat \ {0}
    BY <1>1, NumbersAssumption DEF PlayerRecord
  <2>3. player[p].stocks * DotsForAwaken \in Nat
        /\ (player[p].stocks - 1) * DotsForAwaken
              = player[p].stocks * DotsForAwaken - DotsForAwaken
    BY <2>2
  <2> QED
    BY <2>1, <2>2, <2>3 DEF Worth
<1>11. CASE \E asks \in BOOLEAN, c \in Cell : MoveTurn(asks, c)
  BY <1>3, <1>4, <1>11, MoveTurnInv
<1>12. CASE Pass \/ BeatGhost \/ HitBoss \/ GoDown
  BY <1>3, <1>4, <1>12, CollisionInv
<1>13. CASE \/ DownTurn \/ NoRescue \/ UNCHANGED vars
            \/ \E c \in Cell : GhostTurn(c)
            \/ \E grown \in SUBSET (DotCell \ dots), driven \in SUBSET Ghost,
                  otherEnd \in BOOLEAN : Control(grown, driven, otherEnd)
  BY <1>3, <1>13 DEF DownTurn, NoRescue, GhostTurn, Control, vars
<1> QED
  BY <1>5, <1>6, <1>8, <1>9, <1>10, <1>11, <1>12, <1>13 DEF Next, Step

\* Power is never free.
THEOREM PowerPaid == Spec => PowerIsPaid
<1>1. IInv /\ [Next]_vars =>
        [\A p \in Player : player'[p].power > player[p].power =>
           \/ player'[p].cell \in pellets \ pellets'
           \/ Worth(player'[p]) < Worth(player[p])]_vars
  BY PowerStep
<1> QED
  BY <1>1, Invariance, PTL DEF Spec, PowerIsPaid

=============================================================================
