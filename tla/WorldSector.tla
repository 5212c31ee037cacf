----------------------------- MODULE WorldSector -----------------------------
(***************************************************************************)
(* How the reference TypeScript server makes one sector of its map         *)
(* (reference/ts-server/src/server/world.ts): a maze dug by a depth first  *)
(* search, cells opened at random in it, a hall, the corners, a door to    *)
(* each neighbour with or without a gate, and what lies where.             *)
(*                                                                         *)
(* `generateWorld` treats all sectors alike and none looks into another:   *)
(* the two halves of a door, on either side of the border, are dug by the  *)
(* same call, so a sector sees its own half.  The numbers of the random    *)
(* generator are choices.  Cells are <<x, y>>, counted from 0 in the       *)
(* sector as in the code.                                                  *)
(***************************************************************************)
EXTENDS Integers, Sequences, FiniteSets

CONSTANTS
  Size,       \* SECTOR_SIZE
  DoorRange,  \* how far from the middle of a side a door may be
  Sides       \* the sides with a neighbour

Side == {"left", "right", "up", "down"}
Kind == {"plaza", "nest", "other"}    \* pickSectorType; the others are dug alike

ASSUME SectorAssumption ==
  /\ Size \in Nat /\ Size % 2 = 1 /\ Size >= 9
  /\ DoorRange \in Nat /\ DoorRange + 3 <= Size \div 2
  /\ Sides \subseteq Side

VARIABLES
  kind,
  floor,        \* the cells that are '.'
  stack,        \* of the search, its top last
  door,         \* side -> where the door is on it, and whether it has a gate
  pellets, spawns, ghostSpawns, dots,
  stage

vars == <<kind, floor, stack, door, pellets, spawns, ghostSpawns, dots, stage>>

Middle == Size \div 2
Cell == (0..(Size - 1)) \X (0..(Size - 1))

Odd(n) == n % 2 = 1

\* The search goes from one cell with odd coordinates to another; those with
\* even ones are the pillars between them.
Node(c) == Odd(c[1]) /\ Odd(c[2])
Pillar(c) == ~Odd(c[1]) /\ ~Odd(c[2])

Adjacent(c) ==
  {<<c[1] + 1, c[2]>>, <<c[1] - 1, c[2]>>, <<c[1], c[2] + 1>>, <<c[1], c[2] - 1>>}

Distance(c, d) ==
  LET Gap(m, n) == IF m >= n THEN m - n ELSE n - m
  IN  Gap(c[1], d[1]) + Gap(c[2], d[2])

Square(x, y, radius) ==
  {c \in Cell : /\ x - radius <= c[1] /\ c[1] <= x + radius
                /\ y - radius <= c[2] /\ c[2] <= y + radius}

Door == [at : 0..(Size - 1), gate : BOOLEAN]

TypeOK ==
  /\ kind \in Kind
  /\ floor \in SUBSET Cell
  /\ stack \in Seq({c \in Cell : Node(c)})
  /\ DOMAIN door \subseteq Sides /\ \A s \in DOMAIN door : door[s] \in Door
  /\ pellets \in SUBSET Cell /\ spawns \in SUBSET Cell
  /\ ghostSpawns \in SUBSET Cell /\ dots \in SUBSET Cell
  /\ stage \in {"maze", "open", "doors", "places", "done"}

Init ==
  /\ kind \in Kind
  /\ floor = {<<1, 1>>} /\ stack = <<<<1, 1>>>>
  /\ door = [s \in {} |-> {}]
  /\ pellets = {} /\ spawns = {} /\ ghostSpawns = {} /\ dots = {}
  /\ stage = "maze"

-----------------------------------------------------------------------------
(* buildSectorMaze.                                                        *)

Top == stack[Len(stack)]

\* Mutant: the far border is not the end.
UnvisitedBeyond(c) ==
  {d \in {<<c[1] + 2, c[2]>>, <<c[1] - 2, c[2]>>, <<c[1], c[2] + 2>>, <<c[1], c[2] - 2>>} :
     /\ 0 < d[1] /\ d[1] <= Size /\ 0 < d[2] /\ d[2] <= Size
     /\ d \notin floor}

\* Where the search may go from a cell.
Unvisited(c) ==
  {d \in {<<c[1] + 2, c[2]>>, <<c[1] - 2, c[2]>>, <<c[1], c[2] + 2>>, <<c[1], c[2] - 2>>} :
     /\ 0 < d[1] /\ d[1] < Size - 1 /\ 0 < d[2] /\ d[2] < Size - 1
     /\ d \notin floor}

\* Mutant: nothing is dug between the two.
BetweenNothing(c, d) == d

Between(c, d) == <<(c[1] + d[1]) \div 2, (c[2] + d[2]) \div 2>>

Carve ==
  /\ stage = "maze"
  /\ \E next \in Unvisited(Top) :
       /\ floor' = floor \cup {Between(Top, next), next}
       /\ stack' = Append(stack, next)
  /\ UNCHANGED <<kind, door, pellets, spawns, ghostSpawns, dots, stage>>

Backtrack ==
  /\ stage = "maze"
  /\ Unvisited(Top) = {}
  /\ stack' = SubSeq(stack, 1, Len(stack) - 1)
  /\ stage' = IF Len(stack) = 1 THEN "open" ELSE stage
  /\ UNCHANGED <<kind, floor, door, pellets, spawns, ghostSpawns, dots>>

Inner == {c \in Cell : 2 <= c[1] /\ c[1] < Size - 2 /\ 2 <= c[2] /\ c[2] < Size - 2}
Border == {c \in Cell : {c[1], c[2]} \cap {0, Size - 1} # {}}

Hall == IF kind \in {"plaza", "nest"} THEN Square(Middle, Middle, 2) ELSE {}

\* The four targets of carveCorner, which are those of the pellets, too.
Near == 2
Far == Size - 3
Corner == {Near, Far} \X {Near, Far}
Corners == (UNION {Square(c[1], c[2], 1) : c \in Corner}) \ Border

\* Some walls are opened at random, then the hall and the corners are dug.
Open(extra) ==
  /\ stage = "open"
  /\ extra \subseteq Inner \ floor
  /\ floor' = (floor \cup extra \cup Hall \cup Corners) \ Border
  /\ stage' = "doors"
  /\ UNCHANGED <<kind, stack, door, pellets, spawns, ghostSpawns, dots>>

-----------------------------------------------------------------------------
(* connectRight and connectDown, and what generateWorld does with them.    *)

EnsureOdd(n) == IF Odd(n) THEN n ELSE n + 1

\* Mutant: a door may be anywhere in its range.
DoorPlacesAny == (Middle - DoorRange)..(Middle + DoorRange)

DoorPlaces == {EnsureOdd(n) : n \in (Middle - DoorRange)..(Middle + DoorRange)}

\* The cell so far from the side, in line with its door.
Behind(side, at, depth) ==
  CASE side = "left"  -> <<depth, at>>
    [] side = "right" -> <<Size - 1 - depth, at>>
    [] side = "up"    -> <<at, depth>>
    [] side = "down"  -> <<at, Size - 1 - depth>>

\* The cells that are dug for a door, on this side of the border.
Dug(side, d) ==
  {Behind(side, d.at, depth) : depth \in IF d.gate THEN 0..2 ELSE 0..1}

Connect(D) ==
  /\ stage = "doors"
  /\ door' = D
  /\ floor' = floor \cup UNION {Dug(s, D[s]) : s \in Sides}
  /\ stage' = "places"
  /\ UNCHANGED <<kind, stack, pellets, spawns, ghostSpawns, dots>>

-----------------------------------------------------------------------------
(* What lies where.                                                        *)

\* buildGateSwitchCellSet: the half of a gate and the switch that are here.
Gated == {s \in DOMAIN door : door[s].gate}
GateCell(s) == Behind(s, door[s].at, 0)
SwitchCell(s) == Behind(s, door[s].at, 2)
GateCells == {GateCell(s) : s \in Gated} \cup {SwitchCell(s) : s \in Gated}

\* findNearestFloor: distances that are equal are told apart by chance.
Nearest(c) ==
  LET one == CHOOSE d \in floor : \A e \in floor : Distance(d, c) <= Distance(e, c)
  IN  {d \in floor : Distance(d, c) = Distance(one, c)}

Centre == <<Middle, Middle>>

\* collectPlayerSpawns: players start in the sectors on the edge of the map.
Starts(cell) == IF Sides # Side THEN {cell} ELSE {}

\* collectGhostSpawns: ghosts start in the nests, or without a nest in the middle
\* one of the sectors.
Lairs(cell) == {{cell}} \cup IF kind # "nest" THEN {{}} ELSE {}

\* spawnProtected
Protected(starts) == UNION {Square(c[1], c[2], 2) : c \in starts}

\* generateWorld, once all doors are there; `cells` is what
\* placeSectorPowerPellets returns.
Place(cells, start, lair) ==
  /\ stage = "places"
  /\ pellets' = cells
  /\ spawns' = Starts(start)
  /\ ghostSpawns' \in Lairs(lair)
  /\ dots' = floor \ (cells \cup Protected(spawns') \cup GateCells)
  /\ stage' = "done"
  /\ UNCHANGED <<kind, floor, stack, door>>

-----------------------------------------------------------------------------
\* Cells that the hall or a corner opens in any case make no difference in Open.
Next ==
  \/ Carve
  \/ Backtrack
  \/ \E extra \in SUBSET (Inner \ (floor \cup Hall \cup Corners)) : Open(extra)
  \/ \E D \in [Sides -> [at : DoorPlaces, gate : BOOLEAN]] : Connect(D)
  \/ /\ stage = "places"
     /\ \E p \in Nearest(<<Near, Near>>), q \in Nearest(<<Far, Near>>),
           r \in Nearest(<<Near, Far>>), s \in Nearest(<<Far, Far>>),
           start \in Nearest(Centre), lair \in Nearest(Centre) :
          Place({p, q, r, s}, start, lair)

Spec == Init /\ [][Next]_vars

-----------------------------------------------------------------------------
\* What the rules of a match rely on (Arena's Apart): the halves of gates and
\* the switches are cells of their own, on none of which anybody starts or
\* anything lies, and there is a dot to eat.  Nothing in world.ts keeps pellets
\* and spawn cells off the switches but where they all are.
PlacesApart ==
  stage = "done" =>
    /\ Cardinality(GateCells) = 2 * Cardinality(Gated)
    /\ GateCells \subseteq floor
    /\ GateCells \cap (pellets \cup spawns \cup ghostSpawns \cup dots) = {}
    /\ dots \cap pellets = {}
    /\ dots # {}

\* What one gets to from the cells of a set, a step further each time.
Beyond(S) == {c \in floor \ S : Adjacent(c) \cap S # {}}
GetsTo[S \in SUBSET Cell] ==
  LET T == Beyond(S) IN IF T = {} THEN S ELSE GetsTo[S \cup T]

\* The cells that can be reached within the sector.
Reached == GetsTo[{<<1, 1>>}]

\* A sector is in one piece: everybody gets everywhere in it, from any of its
\* doors, whatever the search has dug and chance has opened, except into a pillar
\* that was opened within four walls.
OnlyPillarsCutOff ==
  stage = "done" =>
    \A c \in floor \ Reached : Pillar(c) /\ Adjacent(c) \cap floor = {}

-----------------------------------------------------------------------------
\* docs/game_design.md:11: the players eat up all dots of the map, which clears
\* the game.  A dot in an opened pillar within four walls is never eaten, and
\* game.ts captures a sector only when no dot is left in it.
DotsInReach == stage = "done" => dots \subseteq Reached

=============================================================================
