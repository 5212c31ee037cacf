------------------------------- MODULE MCArena -------------------------------
(* Maps for Arena. *)
EXTENDS Arena

Abs(n, m) == IF n >= m THEN n - m ELSE m - n

\* A corridor of cells 1..n, as far apart as they are along it.
Corridor(n) ==
  [cell |-> 1..n,
   next |-> [c \in 1..n |-> {d \in 1..n : Abs(c, d) = 1}],
   dist |-> [c \in 1..n |-> [d \in 1..n |-> Abs(c, d)]]]

\* The passage between two sectors: switch, way, gate, gate, way, switch.
Passage ==
  [cell |-> Corridor(6).cell, next |-> Corridor(6).next, dist |-> Corridor(6).dist,
   gates |-> <<[a |-> 3, b |-> 4, switchA |-> 1, switchB |-> 6]>>,
   spawns |-> {2, 5}, ghostSpawns |-> {2}, births |-> {2, 3},
   sector |-> <<1, 1, 1, 2, 2, 2>>,
   dots |-> {2, 5}, pellets |-> {}]

With(b, homes, kinds, fruit) ==
  [cell |-> b.cell, next |-> b.next, dist |-> b.dist, gates |-> b.gates,
   spawns |-> b.spawns, ghostSpawns |-> b.ghostSpawns, births |-> b.births, sector |-> b.sector,
   dots |-> b.dots, pellets |-> b.pellets,
   home |-> homes, kind |-> kinds, fruits |-> fruit]

Fruits(cells, types) == {[cell |-> c, type |-> t] : c \in cells, t \in types}

\* Three players and a gate, no ghost.
MCThree == With(Passage, <<2, 5, 2>>, <<>>, {})
\* Two players hold the gate for a ghost.
MCTwo == With(Passage, <<2, 5>>, <<"other">>, {})
\* A player, a key and a ghost.
MCKey == With(Passage, <<2>>, <<"other">>, Fruits({2}, {"key"}))

\* A yard of two sectors with a pellet.
Yard ==
  [cell |-> Corridor(4).cell, next |-> Corridor(4).next, dist |-> Corridor(4).dist,
   gates |-> <<>>, spawns |-> {1, 4}, ghostSpawns |-> {3}, births |-> {3},
   sector |-> <<1, 1, 2, 2>>, dots |-> {1, 3}, pellets |-> {2}]

\* Two players who rescue each other.
MCFruits == With(Yard, <<1, 4>>, <<"other">>, Fruits({4}, {"apple"}))
\* A player before two ghosts.
MCPair == With(Yard, <<1>>, <<"boss", "other">>, Fruits({4}, {"orange", "strawberry"}))

MCBoards == {MCThree, MCTwo, MCKey, MCFruits, MCPair}
=============================================================================
