------------------------- MODULE WorldSectorProofs -------------------------
(***************************************************************************)
(* Proofs about WorldSector, for sectors of any size and doors on any      *)
(* sides.  The argument about the maze is that the search ends only when   *)
(* every cell with odd coordinates has been dug, each from one that was    *)
(* dug before; whatever is opened later lies next to one of them, or is a  *)
(* pillar.  The argument about what lies where is one of parity: doors are *)
(* at odd places, pellets at even ones.                                    *)
(***************************************************************************)
EXTENDS WorldSector, TLAPS, FiniteSetTheorems, SequenceTheorems, WellFoundedInduction

-----------------------------------------------------------------------------
(* Cells.                                                                  *)

LEMMA SizeFacts ==
  /\ Size \in Nat /\ Middle \in Nat /\ Size = 2 * Middle + 1 /\ Middle >= 4
  /\ DoorRange \in Nat /\ DoorRange + 3 <= Middle
BY SectorAssumption DEF Middle

LEMMA CellFacts ==
  ASSUME NEW c \in Cell
  PROVE  /\ c = <<c[1], c[2]>> /\ c[1] \in Int /\ c[2] \in Int
         /\ 0 <= c[1] /\ c[1] < Size /\ 0 <= c[2] /\ c[2] < Size
BY SizeFacts DEF Cell

LEMMA CellOf ==
  ASSUME NEW x \in Int, NEW y \in Int, 0 <= x, x < Size, 0 <= y, y < Size
  PROVE  <<x, y>> \in Cell
BY SizeFacts DEF Cell

\* Where the search may go from a node is a node, and what it digs on the way is
\* none; the three are in a row.
LEMMA UnvisitedFacts ==
  ASSUME NEW c \in Cell, Node(c), NEW d \in Unvisited(c)
  PROVE  /\ d \in Cell /\ Node(d) /\ d \notin floor
         /\ Between(c, d) \in Cell /\ ~Node(Between(c, d))
         /\ Between(c, d) \in Adjacent(c) /\ d \in Adjacent(Between(c, d))
         /\ Between(c, d) \notin Border /\ d \notin Border
<1>1. c = <<c[1], c[2]>> /\ c[1] \in Int /\ c[2] \in Int /\ Odd(c[1]) /\ Odd(c[2])
  BY CellFacts DEF Node
<1>2. PICK x \in Int, y \in Int :
        /\ d = <<x, y>> /\ 0 < x /\ x < Size - 1 /\ 0 < y /\ y < Size - 1
        /\ d \notin floor
        /\ \/ x = c[1] + 2 /\ y = c[2]
           \/ x = c[1] - 2 /\ y = c[2]
           \/ x = c[1] /\ y = c[2] + 2
           \/ x = c[1] /\ y = c[2] - 2
  <2>1. PICK d1 \in {<<c[1] + 2, c[2]>>, <<c[1] - 2, c[2]>>,
                     <<c[1], c[2] + 2>>, <<c[1], c[2] - 2>>} :
          /\ d1 = d /\ 0 < d[1] /\ d[1] < Size - 1 /\ 0 < d[2] /\ d[2] < Size - 1
          /\ d \notin floor
    BY DEF Unvisited
  <2> QED
    BY <1>1, <2>1
<1>3. Odd(x) /\ Odd(y)
  BY <1>1, <1>2 DEF Odd
<1>4. PICK u \in Int, v \in Int :
        /\ Between(c, d) = <<u, v>> /\ ~(Odd(u) /\ Odd(v))
        /\ 0 < u /\ u < Size - 1 /\ 0 < v /\ v < Size - 1
        /\ \/ u = c[1] + 1 /\ x = u + 1 /\ v = c[2] /\ y = v
           \/ u = c[1] - 1 /\ x = u - 1 /\ v = c[2] /\ y = v
           \/ v = c[2] + 1 /\ y = v + 1 /\ u = c[1] /\ x = u
           \/ v = c[2] - 1 /\ y = v - 1 /\ u = c[1] /\ x = u
  <2> DEFINE u == (c[1] + x) \div 2
             v == (c[2] + y) \div 2
  <2>1. Between(c, d) = <<u, v>>
    BY <1>2 DEF Between
  <2>2. u \in Int /\ v \in Int
    BY <1>1, <1>2
  <2>3. \/ u = c[1] + 1 /\ x = u + 1 /\ v = c[2] /\ y = v
        \/ u = c[1] - 1 /\ x = u - 1 /\ v = c[2] /\ y = v
        \/ v = c[2] + 1 /\ y = v + 1 /\ u = c[1] /\ x = u
        \/ v = c[2] - 1 /\ y = v - 1 /\ u = c[1] /\ x = u
    <3>1. ASSUME NEW m \in Int
          PROVE  (m + m) \div 2 = m /\ (m + (m + 2)) \div 2 = m + 1
                 /\ (m + (m - 2)) \div 2 = m - 1
      OBVIOUS
    <3>2. CASE x = c[1] + 2 /\ y = c[2]
      BY <1>1, <3>1, <3>2
    <3>3. CASE x = c[1] - 2 /\ y = c[2]
      BY <1>1, <3>1, <3>3
    <3>4. CASE x = c[1] /\ y = c[2] + 2
      BY <1>1, <3>1, <3>4
    <3>5. CASE x = c[1] /\ y = c[2] - 2
      BY <1>1, <3>1, <3>5
    <3> QED
      BY <1>2, <3>2, <3>3, <3>4, <3>5
  <2> HIDE DEF u, v
  <2>4. ~(Odd(u) /\ Odd(v))
    BY <1>1, <2>2, <2>3 DEF Odd
  <2>5. 0 < u /\ u < Size - 1 /\ 0 < v /\ v < Size - 1
    <3>1. 0 < c[1] /\ c[1] < Size - 1 /\ 0 < c[2] /\ c[2] < Size - 1
      BY <1>1, CellFacts, SizeFacts DEF Odd
    <3> QED
      BY <1>1, <1>2, <2>2, <2>3, <3>1, SizeFacts
  <2> QED
    BY <2>1, <2>2, <2>3, <2>4, <2>5
<1>5. d \in Cell /\ Between(c, d) \in Cell
  <2>1. /\ 0 <= x /\ x < Size /\ 0 <= y /\ y < Size
        /\ 0 <= u /\ u < Size /\ 0 <= v /\ v < Size
    BY <1>2, <1>4, SizeFacts
  <2> QED
    BY <1>2, <1>4, <2>1, CellOf
<1>6. Node(d) /\ ~Node(Between(c, d))
  BY <1>2, <1>3, <1>4 DEF Node
<1>7. Between(c, d) \in Adjacent(c)
  BY <1>1, <1>4 DEF Adjacent
<1>8. d \in Adjacent(Between(c, d))
  BY <1>2, <1>4 DEF Adjacent
<1>9. Between(c, d) \notin Border /\ d \notin Border
  BY <1>2, <1>4, SizeFacts DEF Border
<1> QED
  BY <1>2, <1>5, <1>6, <1>7, <1>8, <1>9

-----------------------------------------------------------------------------
(* The maze.                                                               *)

Nodes == {c \in Cell : Node(c)}

\* A node the search will come back to.
Waiting(c) == \E i \in DOMAIN stack : stack[i] = c

\* A part of the floor that nobody who starts in the first cell can leave.
Closed(S) == <<1, 1>> \in S /\ \A c \in S \cap floor : Adjacent(c) \cap floor \subseteq S

\* While the search goes on, what it has dug hangs together, and where it could
\* still go it will come back to.
Searching ==
  /\ stack # <<>>
  /\ \A i \in DOMAIN stack : stack[i] \in floor
  /\ \A c \in floor \cap Nodes : Unvisited(c) = {} \/ Waiting(c)
  /\ \A S : Closed(S) => floor \subseteq S

\* When it is over, all nodes are dug, and hang together.
Searched == Nodes \subseteq floor /\ \A S : Closed(S) => Nodes \subseteq S

Maze ==
  /\ <<1, 1>> \in floor
  /\ stage \in {"maze", "open"} => floor \cap Border = {}
  /\ stage = "maze" => Searching
  /\ stage # "maze" => Searched

\* What is closed in a larger floor is so in a smaller one.
LEMMA ClosedBefore ==
  ASSUME floor \subseteq floor', NEW S, Closed(S)'
  PROVE  Closed(S)
BY DEF Closed, Adjacent

\* A floor that has all nodes and grows keeps them together.
LEMMA SearchedGrows ==
  ASSUME Searched, floor \subseteq floor'
  PROVE  Searched'
<1>1. Nodes' = Nodes
  BY DEF Nodes
<1>2. ASSUME NEW S, Closed(S)' PROVE Nodes \subseteq S
  <2>1. Closed(S)
    BY <1>2, ClosedBefore
  <2> QED
    BY <2>1 DEF Searched
<1> QED
  BY <1>1, <1>2 DEF Searched

\* A search that has nowhere to go has been everywhere: the node with the smallest
\* coordinates it has missed would have been dug from one before it.
LEMMA AllVisited ==
  ASSUME <<1, 1>> \in floor, \A c \in floor \cap Nodes : Unvisited(c) = {}
  PROVE  Nodes \subseteq floor
<1> SUFFICES ASSUME Nodes \ floor # {} PROVE FALSE
  OBVIOUS
<1> DEFINE T == {n \in Nat : \E c \in Nodes \ floor : n = c[1] + c[2]}
           Rel == {r \in Nat \X Nat : r[1] < r[2]}
<1>1. ASSUME NEW c \in Nodes
      PROVE  /\ c \in Cell /\ c = <<c[1], c[2]>> /\ c[1] \in Nat /\ c[2] \in Nat
             /\ Odd(c[1]) /\ Odd(c[2])
             /\ 0 < c[1] /\ c[1] < Size - 1 /\ 0 < c[2] /\ c[2] < Size - 1
  <2>1. c \in Cell /\ Odd(c[1]) /\ Odd(c[2])
    BY DEF Nodes, Node
  <2>2. c = <<c[1], c[2]>> /\ c[1] \in Int /\ c[2] \in Int
        /\ 0 <= c[1] /\ c[1] < Size /\ 0 <= c[2] /\ c[2] < Size
    BY <2>1, CellFacts
  <2> QED
    BY <2>1, <2>2, SizeFacts DEF Odd
<1>2. IsWellFoundedOn(Rel, Nat)
  <2>1. OpToRel(<, Nat) = Rel
    BY DEF OpToRel
  <2> QED
    BY <2>1, NatLessThanWellFounded
<1>3. T \subseteq Nat /\ T # {}
  <2>1. PICK c \in Nodes : c \notin floor
    OBVIOUS
  <2>2. c[1] + c[2] \in T
    BY <1>1, <2>1
  <2> QED
    BY <2>2
<1>4. PICK n \in T : \A m \in T : <<m, n>> \notin Rel
  <2> HIDE DEF T, Rel
  <2> QED
    BY <1>2, <1>3, WFMin
<1>5. PICK c \in Nodes : c \notin floor /\ n = c[1] + c[2]
  BY <1>4
<1>6. ASSUME NEW d \in Nodes, d[1] + d[2] < n PROVE d \in floor
  <2>1. d[1] \in Nat /\ d[2] \in Nat /\ n \in Nat /\ d[1] + d[2] \in Nat
    BY <1>1, <1>4
  <2>2. <<d[1] + d[2], n>> \in Rel
    BY <1>6, <2>1
  <2>3. d[1] + d[2] \notin T
    BY <1>4, <2>2
  <2> QED
    BY <2>1, <2>3
<1> HIDE DEF T, Rel
<1>7. CASE c[1] >= 3
  <2> DEFINE d == <<c[1] - 2, c[2]>>
  <2>1. d \in Nodes /\ d[1] + d[2] < n
    <3>1. c[1] - 2 \in Int /\ 0 <= c[1] - 2 /\ c[1] - 2 < Size /\ Odd(c[1] - 2)
      BY <1>1, <1>7, SizeFacts DEF Odd
    <3>2. d \in Cell
      BY <1>1, <3>1, SizeFacts, CellOf
    <3> QED
      BY <1>1, <1>5, <3>1, <3>2 DEF Nodes, Node
  <2>2. c \in Unvisited(d)
    <3>1. c = <<d[1] + 2, d[2]>>
      BY <1>1
    <3> HIDE DEF d
    <3> QED
      BY <1>1, <1>5, <3>1 DEF Unvisited
  <2> HIDE DEF d
  <2>3. d \in floor
    BY <1>6, <2>1
  <2> QED
    BY <2>1, <2>2, <2>3
<1>8. CASE c[2] >= 3
  <2> DEFINE d == <<c[1], c[2] - 2>>
  <2>1. d \in Nodes /\ d[1] + d[2] < n
    <3>1. c[2] - 2 \in Int /\ 0 <= c[2] - 2 /\ c[2] - 2 < Size /\ Odd(c[2] - 2)
      BY <1>1, <1>8, SizeFacts DEF Odd
    <3>2. d \in Cell
      BY <1>1, <3>1, SizeFacts, CellOf
    <3> QED
      BY <1>1, <1>5, <3>1, <3>2 DEF Nodes, Node
  <2>2. c \in Unvisited(d)
    <3>1. c = <<d[1], d[2] + 2>>
      BY <1>1
    <3> HIDE DEF d
    <3> QED
      BY <1>1, <1>5, <3>1 DEF Unvisited
  <2> HIDE DEF d
  <2>3. d \in floor
    BY <1>6, <2>1
  <2> QED
    BY <2>1, <2>2, <2>3
<1>9. CASE c[1] < 3 /\ c[2] < 3
  <2>1. c = <<1, 1>>
    BY <1>1, <1>9 DEF Odd
  <2> QED
    BY <1>5, <2>1
<1> QED
  BY <1>1, <1>7, <1>8, <1>9

LEMMA FirstCell == <<1, 1>> \in Cell /\ <<1, 1>> \in Nodes /\ <<1, 1>> \notin Border
<1>1. <<1, 1>> \in Cell
  BY SizeFacts, CellOf
<1>2. Odd(1)
  BY DEF Odd
<1> QED
  BY <1>1, <1>2, SizeFacts DEF Nodes, Node, Border

\* The top of the stack is a node that has been dug.
LEMMA TopFacts ==
  ASSUME TypeOK, Searching
  PROVE  /\ Len(stack) \in Nat /\ Len(stack) >= 1 /\ Top = stack[Len(stack)]
         /\ Top \in floor /\ Top \in Cell /\ Node(Top) /\ stack \in Seq(Nodes)
<1>1. stack \in Seq(Nodes) /\ stack # <<>>
  BY DEF TypeOK, Searching, Nodes
<1>2. Len(stack) \in Nat /\ Len(stack) >= 1
  BY <1>1
<1>3. Len(stack) \in DOMAIN stack
  BY <1>1, <1>2
<1>4. stack[Len(stack)] \in floor /\ stack[Len(stack)] \in Nodes
  BY <1>1, <1>3 DEF Searching
<1> QED
  BY <1>1, <1>2, <1>4 DEF Top, Nodes

LEMMA MazeCarve == TypeOK /\ Maze /\ Carve => TypeOK' /\ Maze'
<1> SUFFICES ASSUME TypeOK, Maze, Carve PROVE TypeOK' /\ Maze'
  OBVIOUS
<1>1. stage = "maze" /\ Searching /\ <<1, 1>> \in floor /\ floor \cap Border = {}
  BY DEF Carve, Maze
<1>2. PICK next \in Unvisited(Top) :
        /\ floor' = floor \cup {Between(Top, next), next}
        /\ stack' = Append(stack, next)
  BY DEF Carve
<1>3. /\ Len(stack) \in Nat /\ Len(stack) >= 1
      /\ Top \in floor /\ Top \in Cell /\ Node(Top) /\ stack \in Seq(Nodes)
  BY <1>1, TopFacts
<1> DEFINE between == Between(Top, next)
<1>4. /\ next \in Cell /\ Node(next) /\ next \notin floor
      /\ between \in Cell /\ ~Node(between)
      /\ between \in Adjacent(Top) /\ next \in Adjacent(between)
      /\ between \notin Border /\ next \notin Border
  BY <1>2, <1>3, UnvisitedFacts
<1> HIDE DEF between
<1>5. floor' = floor \cup {between, next} /\ stage' = "maze" /\ next \in Nodes
  BY <1>2, <1>4 DEF between, Carve, Nodes
<1>6. /\ stack' \in Seq(Nodes) /\ stack' # <<>> /\ Len(stack') = Len(stack) + 1
      /\ stack'[Len(stack) + 1] = next
      /\ \A i \in DOMAIN stack : i \in DOMAIN stack' /\ stack'[i] = stack[i]
      /\ \A i \in DOMAIN stack' : i \in DOMAIN stack \/ i = Len(stack) + 1
      /\ Len(stack) + 1 \in DOMAIN stack'
  BY <1>2, <1>3, <1>5
<1>7. TypeOK'
  BY <1>4, <1>5, <1>6 DEF TypeOK, Carve, Nodes
<1>8. \A i \in DOMAIN stack' : stack'[i] \in floor'
  BY <1>1, <1>5, <1>6 DEF Searching
<1>9. ASSUME NEW c \in floor' \cap Nodes
      PROVE  Unvisited(c)' = {} \/ Waiting(c)'
  <2>1. CASE c = next
    BY <1>6, <2>1 DEF Waiting
  <2>2. CASE c \in floor
    <3>1. Unvisited(c) = {} \/ Waiting(c)
      BY <1>1, <2>2 DEF Searching
    <3>2. Unvisited(c)' \subseteq Unvisited(c)
      BY <1>5 DEF Unvisited
    <3>3. Waiting(c) => Waiting(c)'
      BY <1>6 DEF Waiting
    <3> QED
      BY <3>1, <3>2, <3>3
  <2> QED
    BY <1>4, <1>5, <2>1, <2>2 DEF Nodes
<1>10. ASSUME NEW S, Closed(S)' PROVE floor' \subseteq S
  <2>1. floor \subseteq S
    <3>1. Closed(S)
      BY <1>5, <1>10, ClosedBefore
    <3> QED
      BY <1>1, <3>1 DEF Searching
  <2>2. \A c \in S \cap floor' : Adjacent(c) \cap floor' \subseteq S
    BY <1>10 DEF Closed, Adjacent
  <2>3. between \in S
    BY <1>3, <1>4, <1>5, <2>1, <2>2
  <2>4. next \in S
    BY <1>4, <1>5, <2>2, <2>3
  <2> QED
    BY <1>5, <2>1, <2>3, <2>4
<1>11. Nodes' = Nodes
  BY DEF Nodes
<1>12. Searching'
  BY <1>6, <1>8, <1>9, <1>10, <1>11 DEF Searching
<1>13. floor' \cap Border = {}
  BY <1>1, <1>4, <1>5
<1>14. Maze'
  BY <1>1, <1>5, <1>12, <1>13 DEF Maze, Border
<1> QED
  BY <1>7, <1>14

LEMMA MazeBacktrack == TypeOK /\ Maze /\ Backtrack => TypeOK' /\ Maze'
<1> SUFFICES ASSUME TypeOK, Maze, Backtrack PROVE TypeOK' /\ Maze'
  OBVIOUS
<1>1. stage = "maze" /\ Searching /\ <<1, 1>> \in floor /\ floor \cap Border = {}
  BY DEF Backtrack, Maze
<1>2. /\ Unvisited(Top) = {} /\ floor' = floor
      /\ stack' = SubSeq(stack, 1, Len(stack) - 1)
      /\ stage' = IF Len(stack) = 1 THEN "open" ELSE stage
  BY DEF Backtrack
<1>3. /\ Len(stack) \in Nat /\ Len(stack) >= 1 /\ Top = stack[Len(stack)]
      /\ stack \in Seq(Nodes)
  BY <1>1, TopFacts
<1>4. /\ stack' \in Seq(Nodes) /\ Len(stack') = Len(stack) - 1
      /\ \A i \in 1..(Len(stack) - 1) : stack'[i] = stack[i]
  <2>1. ASSUME NEW n \in Nat, n + 1 = Len(stack)
        PROVE  /\ SubSeq(stack, 1, n) \in Seq(Nodes) /\ Len(SubSeq(stack, 1, n)) = n
               /\ \A i \in 1..n : SubSeq(stack, 1, n)[i] = stack[i]
    <3>1. (\A i \in 1..n : stack[i] \in Nodes) /\ 1 \in Int /\ n \in Int
      BY <1>3, <2>1
    <3>2. SubSeq(stack, 1, n) \in Seq(Nodes)
      BY <3>1, SubSeqProperties, Zenon
    <3>3. Len(SubSeq(stack, 1, n)) = n /\ \A i \in 1..n : SubSeq(stack, 1, n)[i] = stack[i]
      BY <1>3, <2>1
    <3> QED
      BY <3>2, <3>3
  <2>2. Len(stack) - 1 \in Nat /\ (Len(stack) - 1) + 1 = Len(stack)
    BY <1>3
  <2> QED
    BY <1>2, <2>1, <2>2
<1>5. DOMAIN stack' = 1..(Len(stack) - 1) /\ DOMAIN stack = 1..Len(stack)
  BY <1>3, <1>4
<1>6. TypeOK'
  BY <1>1, <1>2, <1>4 DEF TypeOK, Backtrack, Nodes
<1>7. ASSUME NEW c \in floor \cap Nodes PROVE Unvisited(c) = {} \/ Waiting(c)'
  <2>1. CASE Waiting(c)
    <3>1. PICK i \in DOMAIN stack : stack[i] = c
      BY <2>1 DEF Waiting
    <3>2. CASE i = Len(stack)
      BY <1>2, <1>3, <3>1, <3>2
    <3>3. CASE i # Len(stack)
      <4>1. i \in 1..(Len(stack) - 1)
        BY <1>3, <1>5, <3>1, <3>3
      <4> QED
        BY <1>4, <1>5, <3>1, <4>1 DEF Waiting
    <3> QED
      BY <3>2, <3>3
  <2>2. CASE Unvisited(c) = {}
    BY <2>2
  <2> QED
    BY <1>1, <2>1, <2>2 DEF Searching
<1>8. Nodes' = Nodes /\ \A c : Unvisited(c)' = Unvisited(c)
  BY <1>2 DEF Nodes, Unvisited
<1>9. \A S : Closed(S)' <=> Closed(S)
  BY <1>2 DEF Closed, Adjacent
<1>10. CASE Len(stack) = 1
  <2>1. ASSUME NEW c \in floor \cap Nodes PROVE Unvisited(c) = {}
    <3>1. ~Waiting(c)'
      BY <1>5, <1>10 DEF Waiting
    <3> QED
      BY <1>7, <3>1
  <2>2. Nodes \subseteq floor
    BY <1>1, <2>1, AllVisited
  <2>3. Searched'
    BY <1>1, <1>2, <1>8, <1>9, <2>2 DEF Searched, Searching
  <2> QED
    BY <1>1, <1>2, <1>6, <1>10, <2>3 DEF Maze, Border
<1>11. CASE Len(stack) # 1
  <2>1. stack' # <<>>
    BY <1>3, <1>4, <1>11
  <2>2. \A i \in DOMAIN stack' : stack'[i] \in floor
    BY <1>1, <1>3, <1>4, <1>5 DEF Searching
  <2>3. Searching'
    BY <1>1, <1>2, <1>7, <1>8, <1>9, <2>1, <2>2 DEF Searching
  <2> QED
    BY <1>1, <1>2, <1>6, <1>11, <2>3 DEF Maze, Border
<1> QED
  BY <1>10, <1>11

-----------------------------------------------------------------------------
(* Doors and corners.                                                      *)

\* A door is at an odd place, away from the corners.
LEMMA DoorFacts ==
  ASSUME NEW at \in DoorPlaces
  PROVE  at \in Int /\ Odd(at) /\ 3 <= at /\ at <= Size - 4
<1>1. PICK n \in (Middle - DoorRange)..(Middle + DoorRange) : at = EnsureOdd(n)
  BY DEF DoorPlaces
<1>2. n \in Int /\ Middle - DoorRange <= n /\ n <= Middle + DoorRange
  BY SizeFacts
<1>3. at \in Int /\ Odd(at) /\ n <= at /\ at <= n + 1
  BY <1>1, <1>2 DEF EnsureOdd, Odd
<1>4. 3 <= at /\ at <= Size - 3
  BY <1>2, <1>3, SizeFacts
<1>5. at # Size - 3
  BY <1>3, SizeFacts DEF Odd
<1> QED
  BY <1>3, <1>4, <1>5, SizeFacts

LEMMA BehindFacts ==
  ASSUME NEW side \in Side, NEW at \in DoorPlaces, NEW depth \in 0..2
  PROVE  /\ side = "left" => Behind(side, at, depth) = <<depth, at>>
         /\ side = "right" => Behind(side, at, depth) = <<Size - 1 - depth, at>>
         /\ side = "up" => Behind(side, at, depth) = <<at, depth>>
         /\ side = "down" => Behind(side, at, depth) = <<at, Size - 1 - depth>>
         /\ Behind(side, at, depth) \in Cell
<1>1. /\ side = "left" => Behind(side, at, depth) = <<depth, at>>
      /\ side = "right" => Behind(side, at, depth) = <<Size - 1 - depth, at>>
      /\ side = "up" => Behind(side, at, depth) = <<at, depth>>
      /\ side = "down" => Behind(side, at, depth) = <<at, Size - 1 - depth>>
  BY DEF Behind
<1>2. /\ at \in Int /\ 0 <= at /\ at < Size
      /\ depth \in Int /\ 0 <= depth /\ depth < Size
      /\ Size - 1 - depth \in Int /\ 0 <= Size - 1 - depth /\ Size - 1 - depth < Size
  BY DoorFacts, SizeFacts
<1>3. <<depth, at>> \in Cell /\ <<Size - 1 - depth, at>> \in Cell
      /\ <<at, depth>> \in Cell /\ <<at, Size - 1 - depth>> \in Cell
  BY <1>2, CellOf
<1> QED
  BY <1>1, <1>3 DEF Side

\* The gate and the switch of a door are in no corner, not near the middle, and
\* not the first or the last node.
LEMMA GateFar ==
  ASSUME NEW side \in Side, NEW at \in DoorPlaces, NEW depth \in {0, 2}
  PROVE  LET c == Behind(side, at, depth) IN
         /\ c \in Cell /\ c \notin Corner /\ Distance(c, Centre) >= 3
         /\ c # <<1, 1>> /\ c # <<Size - 2, Size - 2>>
<1> DEFINE c == Behind(side, at, depth)
<1>1. at \in Int /\ Odd(at) /\ 3 <= at /\ at <= Size - 4 /\ depth \in 0..2
  BY DoorFacts
<1>2. c \in Cell
  BY <1>1, BehindFacts
<1>3. PICK e \in {depth, Size - 1 - depth} : c = <<e, at>> \/ c = <<at, e>>
  BY <1>1, BehindFacts DEF Side
<1>4. e \in Int /\ ~Odd(e) /\ e # 1 /\ e # Size - 2
  BY SizeFacts DEF Odd
<1> HIDE DEF c
<1>5. c \notin Corner
  <2>1. ~Odd(Near) /\ ~Odd(Far)
    BY SizeFacts DEF Near, Far, Odd
  <2>2. at \notin {Near, Far}
    BY <1>1, <2>1
  <2> QED
    BY <1>3, <2>2 DEF Corner
<1>6. c # <<1, 1>> /\ c # <<Size - 2, Size - 2>>
  BY <1>1, <1>3, <1>4, SizeFacts
<1>7. Distance(c, Centre) >= 3
  <2>1. e = depth \/ e = 2 * Middle - depth
    BY SizeFacts
  <2>2. Middle = 4 => at # Middle
    BY <1>1 DEF Odd
  <2>3. CASE e <= Middle
    <3>1. e <= 2
      BY <1>4, <2>1, <2>3, SizeFacts
    <3> QED
      BY <1>1, <1>3, <1>4, <2>2, <3>1, SizeFacts DEF Distance, Centre
  <2>4. CASE e > Middle
    <3>1. e >= 2 * Middle - 2
      BY <1>4, <2>1, <2>4, SizeFacts
    <3> QED
      BY <1>1, <1>3, <1>4, <2>2, <3>1, SizeFacts DEF Distance, Centre
  <2> QED
    BY <1>4, <2>3, <2>4, SizeFacts
<1> QED
  BY <1>2, <1>5, <1>6, <1>7 DEF c

\* The corners are cells that are dug, with even coordinates.
LEMMA CornerFacts == Corner \subseteq Cell /\ Corner \subseteq Corners
<1> SUFFICES ASSUME NEW c \in Corner PROVE c \in Cell /\ c \in Corners
  OBVIOUS
<1>1. PICK x \in {Near, Far}, y \in {Near, Far} : c = <<x, y>>
  BY DEF Corner
<1>2. x \in Int /\ 0 < x /\ x < Size - 1 /\ y \in Int /\ 0 < y /\ y < Size - 1
  BY SizeFacts DEF Near, Far
<1>3. c \in Cell
  BY <1>1, <1>2, SizeFacts, CellOf
<1>4. c \in Square(c[1], c[2], 1)
  BY <1>1, <1>2, <1>3 DEF Square
<1>5. c \notin Border
  BY <1>1, <1>2, SizeFacts DEF Border
<1> QED
  BY <1>3, <1>4, <1>5 DEF Corners

\* What the doors and corners leave in the floor.
Laid ==
  /\ stage \in {"doors", "places", "done"} => Corner \subseteq floor
  /\ stage \in {"places", "done"} =>
       /\ DOMAIN door = Sides
       /\ \A s \in Sides : door[s] \in [at : DoorPlaces, gate : BOOLEAN]
                           /\ Dug(s, door[s]) \subseteq floor

Built == TypeOK /\ Maze /\ Laid

LEMMA BuiltInit == Init => Built
<1> SUFFICES ASSUME Init PROVE Built
  OBVIOUS
<1>1. <<1, 1>> \in Cell /\ <<1, 1>> \in Nodes /\ <<1, 1>> \notin Border
  BY FirstCell
<1>2. stack \in Seq(Nodes) /\ DOMAIN stack = {1} /\ stack[1] = <<1, 1>> /\ stack # <<>>
  BY <1>1 DEF Init
<1>3. DOMAIN door \subseteq Sides /\ \A s \in DOMAIN door : door[s] \in Door
  BY DEF Init
<1>4. TypeOK
  BY <1>1, <1>2, <1>3 DEF Init, TypeOK, Nodes
<1>5. floor = {<<1, 1>>} /\ stage = "maze"
  BY DEF Init
<1>6. Searching
  BY <1>2, <1>5 DEF Searching, Waiting, Closed
<1> QED
  BY <1>1, <1>4, <1>5, <1>6 DEF Built, Maze, Laid

LEMMA BuiltOpen == ASSUME Built, NEW extra, Open(extra) PROVE Built'
<1>1. /\ stage = "open" /\ stage' = "doors" /\ floor \cap Border = {} /\ Searched
      /\ <<1, 1>> \in floor
  BY DEF Open, Built, Maze
<1>2. floor' = (floor \cup extra \cup Hall \cup Corners) \ Border /\ extra \subseteq Cell
  BY DEF Open, Inner
<1>3. Hall \subseteq Cell /\ Corners \subseteq Cell
  BY DEF Hall, Corners, Square
<1>4. floor \subseteq floor' /\ floor' \subseteq Cell
  BY <1>1, <1>2, <1>3 DEF Built, TypeOK
<1>5. TypeOK'
  BY <1>1, <1>4 DEF Built, TypeOK, Open
<1>6. Searched'
  BY <1>1, <1>4, SearchedGrows
<1>7. Corner \subseteq floor'
  <2>1. Corners \cap Border = {}
    BY DEF Corners
  <2> QED
    BY <1>2, <2>1, CornerFacts
<1> QED
  BY <1>1, <1>4, <1>5, <1>6, <1>7 DEF Built, Maze, Laid

LEMMA BuiltConnect ==
  ASSUME Built, NEW D \in [Sides -> [at : DoorPlaces, gate : BOOLEAN]], Connect(D)
  PROVE  Built'
<1>1. /\ stage = "doors" /\ stage' = "places" /\ door' = D /\ Searched
      /\ floor' = floor \cup UNION {Dug(s, D[s]) : s \in Sides}
      /\ <<1, 1>> \in floor /\ Corner \subseteq floor
  BY DEF Connect, Built, Maze, Laid
<1>2. ASSUME NEW s \in Sides PROVE Dug(s, D[s]) \subseteq Cell
  <2>1. s \in Side /\ D[s].at \in DoorPlaces
    BY SectorAssumption
  <2>2. \A depth \in 0..2 : Behind(s, D[s].at, depth) \in Cell
    BY <2>1, BehindFacts
  <2> QED
    BY <2>2 DEF Dug
<1>3. floor \subseteq floor' /\ floor' \subseteq Cell
  BY <1>1, <1>2 DEF Built, TypeOK
<1>4. \A s \in Sides : D[s] \in Door
  <2>1. \A at \in DoorPlaces : at \in 0..(Size - 1)
    BY DoorFacts, SizeFacts
  <2> QED
    BY <2>1 DEF Door
<1>5. TypeOK'
  BY <1>1, <1>3, <1>4 DEF Built, TypeOK, Connect
<1>6. Searched'
  BY <1>1, <1>3, SearchedGrows
<1>7. \A s \in Sides : D[s] \in [at : DoorPlaces, gate : BOOLEAN]
                       /\ Dug(s, D[s]) \subseteq floor'
  BY <1>1
<1>8. \A s \in Sides : Dug(s, D[s]) = Dug(s, door[s])'
  BY <1>1 DEF Dug, Behind
<1>9. Laid'
  BY <1>1, <1>3, <1>7, <1>8 DEF Laid
<1> QED
  BY <1>1, <1>3, <1>5, <1>6, <1>9 DEF Built, Maze

LEMMA BuiltPlace ==
  ASSUME Built, NEW cells \in SUBSET floor, NEW start \in floor, NEW lair \in floor,
         Place(cells, start, lair)
  PROVE  Built'
<1>1. /\ stage = "places" /\ stage' = "done" /\ floor' = floor /\ door' = door
      /\ pellets' = cells /\ spawns' = Starts(start) /\ ghostSpawns' \in Lairs(lair)
      /\ dots' \subseteq floor
  BY DEF Place
<1>2. TypeOK'
  BY <1>1 DEF Built, TypeOK, Place, Starts, Lairs
<1>3. Searched'
  BY <1>1, SearchedGrows DEF Built, Maze
<1> QED
  BY <1>1, <1>2, <1>3 DEF Built, Maze, Laid, Dug, Behind

LEMMA BuiltNext == Built /\ [Next]_vars => Built'
<1> SUFFICES ASSUME Built, [Next]_vars PROVE Built'
  OBVIOUS
<1>1. CASE Carve
  BY <1>1, MazeCarve DEF Built, Laid, Carve
<1>2. CASE Backtrack
  <2>1. stage' \notin {"doors", "places", "done"}
    BY <1>2 DEF Backtrack
  <2> QED
    BY <1>2, <2>1, MazeBacktrack DEF Built, Laid
<1>3. ASSUME NEW extra, Open(extra) PROVE Built'
  BY <1>3, BuiltOpen
<1>4. ASSUME NEW D \in [Sides -> [at : DoorPlaces, gate : BOOLEAN]], Connect(D)
      PROVE  Built'
  BY <1>4, BuiltConnect
<1>5. ASSUME NEW p \in Nearest(<<Near, Near>>), NEW q \in Nearest(<<Far, Near>>),
             NEW r \in Nearest(<<Near, Far>>), NEW s \in Nearest(<<Far, Far>>),
             NEW start \in Nearest(Centre), NEW lair \in Nearest(Centre),
             Place({p, q, r, s}, start, lair)
      PROVE  Built'
  <2>1. {p, q, r, s} \in SUBSET floor /\ start \in floor /\ lair \in floor
    BY DEF Nearest
  <2> QED
    BY <1>5, <2>1, BuiltPlace
<1>6. CASE UNCHANGED vars
  <2>1. TypeOK'
    BY <1>6 DEF vars, Built, TypeOK
  <2>2. Nodes' = Nodes /\ \A c : Unvisited(c)' = Unvisited(c) /\ (Waiting(c)' <=> Waiting(c))
    BY <1>6 DEF vars, Nodes, Unvisited, Waiting
  <2>3. \A S : Closed(S)' <=> Closed(S)
    BY <1>6 DEF vars, Closed, Adjacent
  <2>4. (Searching' <=> Searching) /\ (Searched' <=> Searched)
    BY <1>6, <2>2, <2>3 DEF vars, Searching, Searched
  <2>5. Maze'
    BY <1>6, <2>4 DEF vars, Built, Maze, Border
  <2>6. \A s \in Sides : Dug(s, door[s])' = Dug(s, door[s])
    BY <1>6 DEF vars, Dug, Behind
  <2>7. Laid'
    BY <1>6, <2>6 DEF vars, Built, Laid
  <2> QED
    BY <2>1, <2>5, <2>7 DEF Built
<1> QED
  BY <1>1, <1>2, <1>3, <1>4, <1>5, <1>6 DEF Next

LEMMA BuiltAlways == Spec => []Built
<1>1. Init => Built
  BY BuiltInit
<1>2. Built /\ [Next]_vars => Built'
  BY BuiltNext
<1> QED
  BY <1>1, <1>2, PTL DEF Spec

-----------------------------------------------------------------------------
(* What lies where.                                                        *)

LEMMA DistanceFacts ==
  ASSUME NEW c \in Cell, NEW d \in Cell
  PROVE  Distance(c, d) \in Nat /\ (Distance(c, d) = 0 <=> c = d)
<1>1. /\ c = <<c[1], c[2]>> /\ c[1] \in Int /\ c[2] \in Int
      /\ d = <<d[1], d[2]>> /\ d[1] \in Int /\ d[2] \in Int
  BY CellFacts
<1>2. Distance(c, d) \in Nat
      /\ (Distance(c, d) = 0 <=> c[1] = d[1] /\ c[2] = d[2])
  BY <1>1 DEF Distance
<1> QED
  BY <1>1, <1>2

\* What is nearest is as near as anything that nothing is nearer than.
LEMMA NearestFacts ==
  ASSUME floor \subseteq Cell, NEW c \in Cell, NEW d \in floor,
         \A e \in floor : Distance(d, c) <= Distance(e, c)
  PROVE  \A e \in Nearest(c) : e \in floor /\ Distance(e, c) = Distance(d, c)
<1> DEFINE one == CHOOSE x \in floor : \A e \in floor : Distance(x, c) <= Distance(e, c)
<1>1. one \in floor /\ \A e \in floor : Distance(one, c) <= Distance(e, c)
  OBVIOUS
<1>2. Nearest(c) = {x \in floor : Distance(x, c) = Distance(one, c)}
  BY DEF Nearest
<1> HIDE DEF one
<1>3. Distance(one, c) \in Nat /\ Distance(d, c) \in Nat
  BY <1>1, DistanceFacts
<1>4. Distance(one, c) <= Distance(d, c) /\ Distance(d, c) <= Distance(one, c)
  BY <1>1
<1>5. Distance(one, c) = Distance(d, c)
  BY <1>3, <1>4
<1> QED
  BY <1>2, <1>5

\* A pellet that is to lie in a corner does.
LEMMA NearestCorner ==
  ASSUME floor \subseteq Cell, Corner \subseteq floor, NEW c \in Corner, NEW d \in Nearest(c)
  PROVE  d = c
<1>1. c \in Cell /\ c \in floor /\ Distance(c, c) = 0
  BY CornerFacts, DistanceFacts
<1>2. \A e \in floor : Distance(c, c) <= Distance(e, c)
  BY <1>1, DistanceFacts
<1>3. d \in floor /\ Distance(d, c) = 0
  BY <1>1, <1>2, NearestFacts
<1> QED
  BY <1>1, <1>3, DistanceFacts

\* There is floor near the middle.
LEMMA NearestCentre ==
  ASSUME floor \subseteq Cell, Nodes \subseteq floor, NEW d \in Nearest(Centre)
  PROVE  d \in floor /\ Distance(d, Centre) <= 2
<1>1. Middle \in Int /\ 0 <= Middle /\ Middle < Size
  BY SizeFacts
<1>2. Centre \in Cell
  BY <1>1, CellOf DEF Centre
<1>3. ASSUME NEW e \in floor, \A f \in floor : Distance(e, Centre) <= Distance(f, Centre),
             Distance(e, Centre) <= 2
      PROVE  d \in floor /\ Distance(d, Centre) <= 2
  BY <1>2, <1>3, NearestFacts
<1>4. CASE Centre \in floor
  <2>1. Distance(Centre, Centre) = 0
    BY <1>2, DistanceFacts
  <2>2. \A f \in floor : Distance(Centre, Centre) <= Distance(f, Centre)
    BY <1>2, <2>1, DistanceFacts
  <2> QED
    BY <1>3, <1>4, <2>1, <2>2
<1>5. CASE Centre \notin floor /\ \E e \in floor : Distance(e, Centre) = 1
  <2>1. PICK e \in floor : Distance(e, Centre) = 1
    BY <1>5
  <2>2. \A f \in floor : Distance(f, Centre) \in Nat /\ Distance(f, Centre) # 0
    BY <1>2, <1>5, DistanceFacts
  <2>3. \A f \in floor : Distance(e, Centre) <= Distance(f, Centre)
    BY <2>1, <2>2
  <2> QED
    BY <1>3, <2>1, <2>3
<1>6. CASE Centre \notin floor /\ ~\E e \in floor : Distance(e, Centre) = 1
  <2> DEFINE e == <<Middle - 1, Middle - 1>>
  <2>1. ~Odd(Middle)
    <3>1. Centre \notin Nodes
      BY <1>6
    <3> QED
      BY <1>2, <3>1 DEF Nodes, Node, Centre
  <2>2. Odd(Middle - 1)
    BY <1>1, <2>1 DEF Odd
  <2>3. e \in Cell
    BY SizeFacts, CellOf
  <2>4. e \in floor
    BY <2>2, <2>3 DEF Nodes, Node
  <2>5. Distance(e, Centre) = 2
    BY SizeFacts DEF Distance, Centre
  <2>6. \A f \in floor : /\ Distance(f, Centre) \in Nat
                         /\ Distance(f, Centre) # 0 /\ Distance(f, Centre) # 1
    BY <1>2, <1>6, DistanceFacts
  <2> HIDE DEF e
  <2>7. \A f \in floor : Distance(e, Centre) <= Distance(f, Centre)
    BY <2>5, <2>6
  <2> QED
    BY <1>3, <2>4, <2>5, <2>7
<1> QED
  BY <1>4, <1>5, <1>6

\* As many as the doors that have a gate.
LEMMA OneEach ==
  ASSUME NEW f, NEW S, IsFiniteSet(S), f \in [S -> Cell],
         \A s, t \in S : f[s] = f[t] => s = t
  PROVE  LET T == {f[s] : s \in S} IN IsFiniteSet(T) /\ Cardinality(T) = Cardinality(S)
<1> DEFINE T == {f[s] : s \in S}
<1>1. f \in Bijection(S, T)
  BY DEF Bijection, Injection, Surjection, IsInjective
<1>2. ExistsBijection(S, T)
  BY <1>1 DEF ExistsBijection
<1> HIDE DEF T
<1>3. IsFiniteSet(T) /\ Cardinality(T) = Cardinality(S)
  BY <1>2, FS_Bijection, Zenon
<1> QED
  BY <1>3 DEF T

\* The gates and switches of different doors are different cells.
LEMMA BehindApart ==
  ASSUME NEW s \in Side, NEW t \in Side, NEW a \in DoorPlaces, NEW b \in DoorPlaces,
         NEW d \in {0, 2}, NEW e \in {0, 2}, Behind(s, a, d) = Behind(t, b, e)
  PROVE  s = t /\ d = e
<1>1. a \in Int /\ b \in Int /\ Odd(a) /\ Odd(b)
  BY DoorFacts
<1>2. ~Odd(d) /\ ~Odd(e) /\ ~Odd(Size - 1 - d) /\ ~Odd(Size - 1 - e)
  BY SizeFacts DEF Odd
<1>3. d # Size - 1 - e /\ e # Size - 1 - d /\ (Size - 1 - d = Size - 1 - e => d = e)
  BY SizeFacts
<1>4. d \in 0..2 /\ e \in 0..2
  OBVIOUS
<1>5. /\ s = "left" => Behind(s, a, d) = <<d, a>>
      /\ s = "right" => Behind(s, a, d) = <<Size - 1 - d, a>>
      /\ s = "up" => Behind(s, a, d) = <<a, d>>
      /\ s = "down" => Behind(s, a, d) = <<a, Size - 1 - d>>
  BY <1>4, BehindFacts
<1>6. /\ t = "left" => Behind(t, b, e) = <<e, b>>
      /\ t = "right" => Behind(t, b, e) = <<Size - 1 - e, b>>
      /\ t = "up" => Behind(t, b, e) = <<b, e>>
      /\ t = "down" => Behind(t, b, e) = <<b, Size - 1 - e>>
  BY <1>4, BehindFacts
<1> DEFINE m == Size - 1 - d
           n == Size - 1 - e
<1> HIDE DEF m, n
<1>7. /\ d # n /\ e # m /\ (m = n => d = e)
      /\ Odd(a) /\ Odd(b) /\ ~Odd(d) /\ ~Odd(e) /\ ~Odd(m) /\ ~Odd(n)
  BY <1>1, <1>2, <1>3 DEF m, n
<1>8. CASE s \in {"left", "right"}
  <2>1. PICK u \in {d, m} : Behind(s, a, d) = <<u, a>> /\ (s = "left" <=> u = d)
                            /\ (s = "right" <=> u = m)
    <3>1. d # m
      BY SizeFacts DEF m
    <3> QED
      BY <1>5, <1>8, <3>1 DEF m
  <2>2. t \notin {"up", "down"}
    BY <1>6, <1>7, <2>1 DEF n
  <2> QED
    BY <1>6, <1>7, <2>1, <2>2 DEF Side, n
<1>9. CASE s \in {"up", "down"}
  <2>1. PICK u \in {d, m} : Behind(s, a, d) = <<a, u>> /\ (s = "up" <=> u = d)
                            /\ (s = "down" <=> u = m)
    <3>1. d # m
      BY SizeFacts DEF m
    <3> QED
      BY <1>5, <1>9, <3>1 DEF m
  <2>2. t \notin {"left", "right"}
    BY <1>6, <1>7, <2>1 DEF n
  <2> QED
    BY <1>6, <1>7, <2>1, <2>2 DEF Side, n
<1> QED
  BY <1>8, <1>9 DEF Side

LEMMA GatesCounted ==
  ASSUME DOMAIN door = Sides,
         \A s \in Sides : door[s] \in [at : DoorPlaces, gate : BOOLEAN]
  PROVE  Cardinality(GateCells) = 2 * Cardinality(Gated)
<1> DEFINE f == [s \in Gated |-> GateCell(s)]
           h == [s \in Gated |-> SwitchCell(s)]
           A == {f[s] : s \in Gated}
           B == {h[s] : s \in Gated}
<1>1. ASSUME NEW s \in Gated PROVE s \in Side /\ door[s].at \in DoorPlaces
  BY SectorAssumption DEF Gated
<1>2. IsFiniteSet(Gated) /\ Cardinality(Gated) \in Nat
  <2>1. IsFiniteSet({"left"}) /\ IsFiniteSet({"right"}) /\ IsFiniteSet({"up"})
        /\ IsFiniteSet({"down"})
    BY FS_Singleton
  <2>2. IsFiniteSet({"left"} \cup {"right"}) /\ IsFiniteSet({"up"} \cup {"down"})
    BY <2>1, FS_Union
  <2>3. IsFiniteSet(({"left"} \cup {"right"}) \cup ({"up"} \cup {"down"}))
    BY <2>2, FS_Union
  <2>4. Gated \in SUBSET (({"left"} \cup {"right"}) \cup ({"up"} \cup {"down"}))
    BY <1>1 DEF Side
  <2>5. IsFiniteSet(Gated)
    BY <2>3, <2>4, FS_Subset, Zenon
  <2> QED
    BY <2>5, FS_CardinalityType
<1>3. /\ f \in [Gated -> Cell] /\ \A s, t \in Gated : f[s] = f[t] => s = t
      /\ h \in [Gated -> Cell] /\ \A s, t \in Gated : h[s] = h[t] => s = t
      /\ \A s, t \in Gated : f[s] # h[t]
  <2>1. 0 \in {0, 2} /\ 2 \in {0, 2} /\ 0 \in 0..2 /\ 2 \in 0..2
    OBVIOUS
  <2>2. \A s \in Gated : f[s] = Behind(s, door[s].at, 0) /\ h[s] = Behind(s, door[s].at, 2)
    BY DEF GateCell, SwitchCell
  <2>3. \A s \in Gated : f[s] \in Cell /\ h[s] \in Cell
    BY <1>1, <2>1, <2>2, BehindFacts
  <2>4. ASSUME NEW s \in Gated, NEW t \in Gated
        PROVE  (f[s] = f[t] => s = t) /\ (h[s] = h[t] => s = t) /\ f[s] # h[t]
    <3> HIDE DEF f, h
    <3>1. ASSUME f[s] = f[t] PROVE s = t
      BY <1>1, <2>1, <2>2, <3>1, BehindApart
    <3>2. ASSUME h[s] = h[t] PROVE s = t
      BY <1>1, <2>1, <2>2, <3>2, BehindApart
    <3>3. ASSUME f[s] = h[t] PROVE FALSE
      <4>1. 0 = 2
        BY <1>1, <2>1, <2>2, <3>3, BehindApart
      <4> QED
        BY <4>1
    <3> QED
      BY <3>1, <3>2, <3>3
  <2> QED
    BY <2>3, <2>4
<1>4. GateCells = A \cup B
  BY DEF GateCells
<1> HIDE DEF f, h
<1>5. A \cap B = {}
  BY <1>3
<1>6. IsFiniteSet(A) /\ Cardinality(A) = Cardinality(Gated)
  BY <1>2, <1>3, OneEach
<1>7. IsFiniteSet(B) /\ Cardinality(B) = Cardinality(Gated)
  BY <1>2, <1>3, OneEach
<1> HIDE DEF A, B
<1>8. Cardinality(A \cup B) = Cardinality(A) + Cardinality(B) - Cardinality(A \cap B)
  BY <1>6, <1>7, FS_Union
<1>9. Cardinality(A \cap B) = 0
  BY <1>5, FS_EmptySet
<1> QED
  BY <1>2, <1>4, <1>6, <1>7, <1>8, <1>9

\* There is a dot: the first node and the last are not both near the middle.
LEMMA OneProtected ==
  ASSUME NEW start \in Cell, Distance(start, Centre) <= 2
  PROVE  <<1, 1>> \notin Square(start[1], start[2], 2)
         \/ <<Size - 2, Size - 2>> \notin Square(start[1], start[2], 2)
<1>1. start[1] \in Int
  BY CellFacts
<1> DEFINE x == start[1]
<1>2. <<1, 1>> \in Square(x, start[2], 2) => x <= 3
  BY <1>1 DEF Square
<1>3. <<Size - 2, Size - 2>> \in Square(x, start[2], 2) => Size - 4 <= x
  BY <1>1, SizeFacts DEF Square
<1> QED
  BY <1>1, <1>2, <1>3, SizeFacts

LEMMA ApartPlace ==
  ASSUME Built, NEW start \in floor, NEW lair \in floor,
         Distance(start, Centre) <= 2, Distance(lair, Centre) <= 2,
         Place(Corner, start, lair)
  PROVE  PlacesApart'
<1>1. /\ stage = "places" /\ floor' = floor /\ door' = door
      /\ pellets' = Corner /\ spawns' = Starts(start) /\ ghostSpawns' \in Lairs(lair)
      /\ dots' = floor \ (Corner \cup Protected(spawns') \cup GateCells)
  BY DEF Place
<1>2. /\ DOMAIN door = Sides /\ floor \subseteq Cell /\ Nodes \subseteq floor
      /\ \A s \in Sides : door[s] \in [at : DoorPlaces, gate : BOOLEAN]
                          /\ Dug(s, door[s]) \subseteq floor
  BY <1>1 DEF Built, TypeOK, Maze, Searched, Laid
<1>3. Cardinality(GateCells) = 2 * Cardinality(Gated)
  BY <1>2, GatesCounted
<1>4. ASSUME NEW c \in GateCells
      PROVE  /\ c \in floor /\ c \notin Corner /\ Distance(c, Centre) >= 3
             /\ c # <<1, 1>> /\ c # <<Size - 2, Size - 2>>
  <2>1. PICK s \in Gated, depth \in {0, 2} : c = Behind(s, door[s].at, depth)
    BY DEF GateCells, GateCell, SwitchCell
  <2>2. s \in Sides /\ s \in Side /\ door[s].at \in DoorPlaces /\ door[s].gate
    BY <1>2, SectorAssumption DEF Gated
  <2>3. c \in Dug(s, door[s])
    BY <2>1, <2>2 DEF Dug
  <2>4. /\ c \notin Corner /\ Distance(c, Centre) >= 3
        /\ c # <<1, 1>> /\ c # <<Size - 2, Size - 2>>
    BY <2>1, <2>2, GateFar
  <2> QED
    BY <1>2, <2>2, <2>3, <2>4
<1>5. ASSUME NEW c \in GateCells, NEW d \in floor, Distance(d, Centre) <= 2 PROVE c # d
  <2>1. Centre \in Cell
    BY SizeFacts, CellOf DEF Centre
  <2>2. Distance(d, Centre) \in Nat
    BY <1>2, <2>1, DistanceFacts
  <2> QED
    BY <1>4, <1>5, <2>2
<1>6. GateCells \cap (pellets' \cup spawns' \cup ghostSpawns' \cup dots') = {}
  BY <1>1, <1>4, <1>5 DEF Starts, Lairs
<1>7. dots' # {}
  <2> DEFINE last == <<Size - 2, Size - 2>>
  <2>1. <<1, 1>> \in Nodes /\ last \in Nodes
    <3>1. last \in Cell
      BY SizeFacts, CellOf
    <3>2. Odd(Size - 2)
      BY SizeFacts DEF Odd
    <3> QED
      BY <3>1, <3>2, FirstCell DEF Nodes, Node
  <2>2. <<1, 1>> \notin Corner /\ last \notin Corner
    BY SizeFacts DEF Corner, Near, Far
  <2>3. <<1, 1>> \notin GateCells /\ last \notin GateCells
    BY <1>4
  <2>4. <<1, 1>> \notin Protected(spawns') \/ last \notin Protected(spawns')
    BY <1>1, <1>2, OneProtected DEF Protected, Starts
  <2> QED
    BY <1>1, <1>2, <2>1, <2>2, <2>3, <2>4
<1>8. GateCells' = GateCells /\ Gated' = Gated
  BY <1>1 DEF GateCells, Gated, GateCell, SwitchCell, Behind
<1>9. dots' \cap pellets' = {}
  BY <1>1
<1>10. GateCells \subseteq floor
  BY <1>4
<1> QED
  BY <1>1, <1>3, <1>6, <1>7, <1>8, <1>9, <1>10 DEF PlacesApart

LEMMA ApartNext == Built /\ PlacesApart /\ [Next]_vars => PlacesApart'
<1> SUFFICES ASSUME Built, PlacesApart, [Next]_vars PROVE PlacesApart'
  OBVIOUS
<1>1. ASSUME stage' # "done" PROVE PlacesApart'
  BY <1>1 DEF PlacesApart
<1>2. CASE Carve
  BY <1>1, <1>2 DEF Carve
<1>3. CASE Backtrack
  BY <1>1, <1>3 DEF Backtrack
<1>4. ASSUME NEW extra, Open(extra) PROVE PlacesApart'
  BY <1>1, <1>4 DEF Open
<1>5. ASSUME NEW D, Connect(D) PROVE PlacesApart'
  BY <1>1, <1>5 DEF Connect
<1>6. ASSUME NEW p \in Nearest(<<Near, Near>>), NEW q \in Nearest(<<Far, Near>>),
             NEW r \in Nearest(<<Near, Far>>), NEW s \in Nearest(<<Far, Far>>),
             NEW start \in Nearest(Centre), NEW lair \in Nearest(Centre),
             Place({p, q, r, s}, start, lair)
      PROVE  PlacesApart'
  <2>1. floor \subseteq Cell /\ Corner \subseteq floor /\ Nodes \subseteq floor
    BY <1>6 DEF Place, Built, TypeOK, Laid, Maze, Searched
  <2>2. Corner = {<<Near, Near>>, <<Far, Near>>, <<Near, Far>>, <<Far, Far>>}
    BY DEF Corner
  <2>3. p = <<Near, Near>> /\ q = <<Far, Near>> /\ r = <<Near, Far>> /\ s = <<Far, Far>>
    BY <2>1, <2>2, NearestCorner
  <2>4. {p, q, r, s} = Corner
    BY <2>2, <2>3
  <2>5. /\ start \in floor /\ Distance(start, Centre) <= 2
        /\ lair \in floor /\ Distance(lair, Centre) <= 2
    BY <2>1, NearestCentre
  <2>6. Place(Corner, start, lair)
    BY <1>6, <2>4
  <2> QED
    BY <2>5, <2>6, ApartPlace
<1>7. CASE UNCHANGED vars
  <2>1. GateCells' = GateCells /\ Gated' = Gated
    BY <1>7 DEF vars, GateCells, Gated, GateCell, SwitchCell, Behind
  <2> QED
    BY <1>7, <2>1 DEF vars, PlacesApart
<1> QED
  BY <1>2, <1>3, <1>4, <1>5, <1>6, <1>7 DEF Next

-----------------------------------------------------------------------------
(* The theorems.                                                           *)

\* Whatever the size of the sector and its doors, nothing is dug outside of it and
\* the search stays on its nodes (world.ts:267-428).
THEOREM TypeCorrect == Spec => []TypeOK
<1>1. Built => TypeOK
  BY DEF Built
<1> QED
  BY <1>1, BuiltAlways, PTL

\* Whatever the size of the sector and its doors, what the rules of a match need
\* to be apart is apart: gates and switches from each other, from pellets, from
\* where anybody starts and from the dots (world.ts:137-206, 366-566).
THEOREM PlacesCorrect == Spec => []PlacesApart
<1>1. Init => PlacesApart
  BY DEF Init, PlacesApart
<1>2. Built /\ PlacesApart /\ [Next]_vars => PlacesApart'
  BY ApartNext
<1> QED
  BY <1>1, <1>2, BuiltAlways, PTL DEF Spec

\* A sector that is done is in one piece, but for pillars within four walls:
\* whoever starts in its first cell and may go on to any floor cell next to one
\* it has been to gets everywhere else.
InOnePiece ==
  stage = "done" =>
    \A S : Closed(S) =>
      \A c \in floor \ S : Pillar(c) /\ Adjacent(c) \cap floor = {}

\* Every cell that has one odd coordinate lies next to a node.
LEMMA BesideNode ==
  ASSUME NEW c \in Cell, ~Node(c), ~Pillar(c)
  PROVE  \E d \in Nodes : c \in Adjacent(d)
<1>1. /\ c = <<c[1], c[2]>> /\ c[1] \in Int /\ c[2] \in Int
      /\ 0 <= c[1] /\ c[1] < Size /\ 0 <= c[2] /\ c[2] < Size
  BY CellFacts
<1>2. ASSUME NEW n \in Int, 0 <= n, n < Size, ~Odd(n)
      PROVE  \E m \in Int : /\ 0 <= m /\ m < Size /\ Odd(m)
                            /\ (n = m + 1 \/ n = m - 1)
  <2>1. CASE n = 0
    <3>1. 1 \in Int /\ 0 <= 1 /\ 1 < Size /\ Odd(1) /\ n = 1 - 1
      BY <2>1, SizeFacts DEF Odd
    <3> QED
      BY <3>1
  <2>2. CASE n # 0
    <3>1. n - 1 \in Int /\ 0 <= n - 1 /\ n - 1 < Size /\ Odd(n - 1) /\ n = (n - 1) + 1
      BY <1>2, <2>2, SizeFacts DEF Odd
    <3> QED
      BY <3>1
  <2> QED
    BY <2>1, <2>2
<1>3. CASE Odd(c[1]) /\ ~Odd(c[2])
  <2>1. PICK m \in Int : /\ 0 <= m /\ m < Size /\ Odd(m)
                         /\ (c[2] = m + 1 \/ c[2] = m - 1)
    BY <1>1, <1>2, <1>3
  <2>2. <<c[1], m>> \in Nodes
    BY <1>1, <1>3, <2>1, CellOf DEF Nodes, Node
  <2>3. c \in Adjacent(<<c[1], m>>)
    BY <1>1, <2>1 DEF Adjacent
  <2> QED
    BY <2>2, <2>3
<1>4. CASE ~Odd(c[1]) /\ Odd(c[2])
  <2>1. PICK m \in Int : /\ 0 <= m /\ m < Size /\ Odd(m)
                         /\ (c[1] = m + 1 \/ c[1] = m - 1)
    BY <1>1, <1>2, <1>4
  <2>2. <<m, c[2]>> \in Nodes
    BY <1>1, <1>4, <2>1, CellOf DEF Nodes, Node
  <2>3. c \in Adjacent(<<m, c[2]>>)
    BY <1>1, <2>1 DEF Adjacent
  <2> QED
    BY <2>2, <2>3
<1> QED
  BY <1>3, <1>4 DEF Node, Pillar

\* What lies next to a pillar is none.
LEMMA BesidePillar ==
  ASSUME NEW c \in Cell, Pillar(c), NEW d \in Adjacent(c)
  PROVE  ~Pillar(d) /\ c \in Adjacent(d)
<1>1. c = <<c[1], c[2]>> /\ c[1] \in Int /\ c[2] \in Int /\ ~Odd(c[1]) /\ ~Odd(c[2])
  BY CellFacts DEF Pillar
<1>2. Odd(c[1] + 1) /\ Odd(c[1] - 1) /\ Odd(c[2] + 1) /\ Odd(c[2] - 1)
  BY <1>1 DEF Odd
<1>3. ~Pillar(d)
  BY <1>2 DEF Adjacent, Pillar
<1>4. c \in Adjacent(d)
  BY <1>1 DEF Adjacent
<1> QED
  BY <1>3, <1>4

\* Everybody gets everywhere in a sector of any size, whatever the search has dug
\* and chance has opened, but into pillars within four walls (world.ts:267-351).
THEOREM OnlyPillarsApart == Spec => []InOnePiece
<1>1. Built => InOnePiece
  <2> SUFFICES ASSUME Built, stage = "done", NEW S, Closed(S), NEW c \in floor \ S
               PROVE  Pillar(c) /\ Adjacent(c) \cap floor = {}
    BY DEF InOnePiece
  <2>1. floor \subseteq Cell /\ Nodes \subseteq floor /\ Nodes \subseteq S
    BY DEF Built, TypeOK, Maze, Searched
  <2>2. ASSUME NEW d \in floor, ~Pillar(d) PROVE d \in S
    <3>1. CASE Node(d)
      BY <2>1, <3>1 DEF Nodes
    <3>2. CASE ~Node(d)
      <4>1. PICK e \in Nodes : d \in Adjacent(e)
        BY <2>1, <2>2, <3>2, BesideNode
      <4>2. e \in S \cap floor
        BY <2>1, <4>1
      <4> QED
        BY <2>2, <4>1, <4>2 DEF Closed
    <3> QED
      BY <3>1, <3>2
  <2>3. Pillar(c)
    BY <2>2
  <2>4. ASSUME NEW d \in Adjacent(c) \cap floor PROVE FALSE
    <3>1. ~Pillar(d) /\ c \in Adjacent(d)
      BY <2>1, <2>3, BesidePillar
    <3>2. d \in S \cap floor
      BY <2>2, <3>1
    <3> QED
      BY <3>1, <3>2 DEF Closed
  <2> QED
    BY <2>3, <2>4
<1> QED
  BY <1>1, BuiltAlways, PTL

-----------------------------------------------------------------------------
(* What one gets to, step by step, is what nobody can leave.               *)

\* A set of cells that one cannot leave in a step.
Stays(S) == Beyond(S) = {}

\* All that can be reached from the cells of a set.
Hull(S) == {c \in Cell : \A C \in SUBSET Cell : S \subseteq C /\ Stays(C) => c \in C}

\* Somebody who cannot leave a set cannot leave it from a part of it.
LEMMA BeyondWithin ==
  ASSUME NEW S, NEW C, S \subseteq C, Stays(C)
  PROVE  Beyond(S) \subseteq C
BY DEF Stays, Beyond

LEMMA BeyondCells ==
  ASSUME floor \subseteq Cell, NEW S \in SUBSET Cell
  PROVE  /\ Beyond(S) \subseteq Cell /\ S \cup Beyond(S) \in SUBSET Cell
         /\ Beyond(S) \cap S = {}
BY DEF Beyond

\* There is a function that fits the definition of GetsTo.
LEMMA GetsToExists ==
  ASSUME floor \subseteq Cell
  PROVE  GetsTo = [S \in SUBSET Cell |->
                      IF Beyond(S) = {} THEN S ELSE GetsTo[S \cup Beyond(S)]]
<1> DEFINE Fits(f) == f = [S \in SUBSET Cell |->
                             IF Beyond(S) = {} THEN S ELSE f[S \cup Beyond(S)]]
           hull == [S \in SUBSET Cell |-> Hull(S)]
<1>1. ASSUME NEW S \in SUBSET Cell, Beyond(S) = {} PROVE Hull(S) = S
  BY <1>1 DEF Hull, Stays
<1>2. ASSUME NEW S \in SUBSET Cell PROVE Hull(S) = Hull(S \cup Beyond(S))
  <2>1. ASSUME NEW C \in SUBSET Cell, Stays(C)
        PROVE  S \subseteq C <=> S \cup Beyond(S) \subseteq C
    BY <2>1, BeyondWithin
  <2> QED
    BY <2>1 DEF Hull
<1>3. ASSUME NEW S \in SUBSET Cell
      PROVE  hull[S] = IF Beyond(S) = {} THEN S ELSE hull[S \cup Beyond(S)]
  <2>1. S \cup Beyond(S) \in SUBSET Cell
    BY BeyondCells
  <2> QED
    BY <1>1, <1>2, <2>1
<1>4. Fits(hull)
  BY <1>3
<1> HIDE DEF hull
<1>5. GetsTo = CHOOSE f : Fits(f)
  BY DEF GetsTo
<1> HIDE DEF Fits
<1>6. Fits(GetsTo)
  BY <1>4, <1>5
<1> QED
  BY <1>6 DEF Fits

\* The smaller one of two sets has fewer cells left out.
LEMMA FewerLeft ==
  ASSUME NEW S \in SUBSET Cell, NEW T \in SUBSET Cell, S \subseteq T, S # T
  PROVE  /\ Cardinality(Cell \ S) \in Nat /\ Cardinality(Cell \ T) \in Nat
         /\ Cardinality(Cell \ T) < Cardinality(Cell \ S)
<1>1. IsFiniteSet(Cell)
  <2>1. IsFiniteSet(0..(Size - 1))
    BY SizeFacts, FS_Interval
  <2> QED
    BY <2>1, FS_Product DEF Cell
<1>2. IsFiniteSet(Cell \ S) /\ IsFiniteSet(Cell \ T)
  BY <1>1, FS_Subset
<1>3. Cell \ T \subseteq Cell \ S /\ Cell \ T # Cell \ S
  OBVIOUS
<1>4. Cardinality(Cell \ T) < Cardinality(Cell \ S)
  <2>1. Cardinality(Cell \ T) \in Nat /\ Cardinality(Cell \ S) \in Nat
    BY <1>2, FS_CardinalityType
  <2>2. /\ Cardinality(Cell \ T) <= Cardinality(Cell \ S)
        /\ Cardinality(Cell \ S) = Cardinality(Cell \ T) => Cell \ S = Cell \ T
    BY <1>2, <1>3, FS_Subset
  <2> QED
    BY <1>3, <2>1, <2>2
<1> QED
  BY <1>2, <1>4, FS_CardinalityType

\* A set of numbers that is not empty has a smallest one.
LEMMA NatMinimum ==
  ASSUME NEW S \in SUBSET Nat, S # {}
  PROVE  \E p \in S : \A q \in S : p <= q
<1> DEFINE R == {ss \in Nat \X Nat : ss[1] < ss[2]}
<1>1. R = OpToRel(<, Nat)
  BY Zenon DEF OpToRel
<1>2. IsWellFoundedOn(R, Nat)
  BY <1>1, NatLessThanWellFounded, Zenon
<1> HIDE DEF R
<1>3. \E p \in S : \A q \in S : ~(<<q, p>> \in R)
  BY <1>2, WFMin, Zenon
<1>4. \E p \in S : \A q \in S : ~(q < p)
  BY <1>3 DEF R
<1> QED
  BY <1>4

\* Step by step one gets to a set that one cannot leave.
LEMMA GetsToStays ==
  ASSUME floor \subseteq Cell, NEW S \in SUBSET Cell
  PROVE  S \subseteq GetsTo[S] /\ Stays(GetsTo[S])
<1> DEFINE Good(T) == T \subseteq GetsTo[T] /\ Stays(GetsTo[T])
           Left == {Cardinality(Cell \ T) : T \in {U \in SUBSET Cell : ~Good(U)}}
<1>1. ASSUME NEW T \in SUBSET Cell
      PROVE  GetsTo[T] = IF Beyond(T) = {} THEN T ELSE GetsTo[T \cup Beyond(T)]
  BY GetsToExists
<1>2. ASSUME NEW T \in SUBSET Cell, ~Good(T)
      PROVE  \E U \in SUBSET Cell : /\ ~Good(U)
                                    /\ Cardinality(Cell \ U) < Cardinality(Cell \ T)
  <2>1. Beyond(T) # {}
    BY <1>1, <1>2 DEF Stays
  <2>2. T \cup Beyond(T) \in SUBSET Cell /\ T # T \cup Beyond(T)
    BY <2>1, BeyondCells
  <2>3. GetsTo[T] = GetsTo[T \cup Beyond(T)]
    BY <1>1, <2>1
  <2>4. ~Good(T \cup Beyond(T))
    BY <1>2, <2>3
  <2>5. Cardinality(Cell \ (T \cup Beyond(T))) < Cardinality(Cell \ T)
    BY <2>2, FewerLeft
  <2> QED
    BY <2>2, <2>4, <2>5
<1> HIDE DEF Good
<1>3. Left \in SUBSET Nat
  <2>1. ASSUME NEW U \in SUBSET Cell PROVE Cardinality(Cell \ U) \in Nat
    <3>1. U = Cell \/ U # Cell
      OBVIOUS
    <3>2. CASE U = Cell
      BY <3>2, FS_EmptySet
    <3>3. CASE U # Cell
      BY <3>3, FewerLeft
    <3> QED
      BY <3>2, <3>3
  <2> QED
    BY <2>1
<1>4. Left = {}
  <2> SUFFICES ASSUME Left # {} PROVE FALSE
    OBVIOUS
  <2>1. PICK n \in Left : \A m \in Left : n <= m
    <3> HIDE DEF Left
    <3> QED
      BY <1>3, NatMinimum, Zenon
  <2>2. PICK T \in SUBSET Cell : ~Good(T) /\ n = Cardinality(Cell \ T)
    BY <2>1
  <2>3. PICK U \in SUBSET Cell : ~Good(U) /\ Cardinality(Cell \ U) < n
    BY <1>2, <2>2
  <2>4. Cardinality(Cell \ U) \in Left
    BY <2>3
  <2>5. n \in Nat /\ Cardinality(Cell \ U) \in Nat /\ n <= Cardinality(Cell \ U)
    <3> HIDE DEF Left
    <3> QED
      BY <1>3, <2>1, <2>4
  <2> QED
    BY <2>3, <2>5
<1>5. Good(S)
  BY <1>4
<1> QED
  BY <1>5 DEF Good

\* What can be reached from the first cell, step by step, is a part of the floor
\* that nobody who starts in it can leave.
LEMMA ReachedClosed ==
  ASSUME floor \subseteq Cell
  PROVE  Closed(Reached)
<1>1. {<<1, 1>>} \in SUBSET Cell
  BY CellOf, SizeFacts
<1>2. {<<1, 1>>} \subseteq Reached /\ Stays(Reached)
  BY <1>1, GetsToStays DEF Reached
<1>3. ASSUME NEW c \in Reached \cap floor, NEW d \in Adjacent(c) \cap floor
      PROVE  d \in Reached
  <2>1. c \in Adjacent(d)
    <3>1. /\ c = <<c[1], c[2]>> /\ c[1] \in Int /\ c[2] \in Int
      BY CellFacts
    <3> QED
      BY <3>1 DEF Adjacent
  <2> QED
    BY <1>2, <2>1 DEF Stays, Beyond
<1> QED
  BY <1>2, <1>3 DEF Closed

\* What can be reached step by step from the first cell is, in a sector of any
\* size, all floor but the pillars within four walls (world.ts:267-351).
THEOREM OnlyPillarsCutOffCorrect == Spec => []OnlyPillarsCutOff
<1>1. TypeOK /\ InOnePiece => OnlyPillarsCutOff
  <2> SUFFICES ASSUME TypeOK, InOnePiece PROVE OnlyPillarsCutOff
    OBVIOUS
  <2>1. floor \subseteq Cell
    BY DEF TypeOK
  <2>2. Closed(Reached)
    BY <2>1, ReachedClosed
  <2> QED
    BY <2>2 DEF InOnePiece, OnlyPillarsCutOff
<1> QED
  BY <1>1, TypeCorrect, OnlyPillarsApart, PTL

=============================================================================
