--------------------------- MODULE MCSectorControl ---------------------------
(* A small map for checking SectorControl with TLC: the four sectors of a   *)
(* match of up to five players, three with two dots and one with one dot.   *)
EXTENDS SectorControl, TLC

CONSTANTS n1, n2, n3, n4, a1, a2, b1, b2, c1, c2, d1

MCSector == {n1, n2, n3, n4}
MCDot == {a1, a2, b1, b2, c1, c2, d1}
MCDotsIn == (n1 :> {a1, a2}) @@ (n2 :> {b1, b2}) @@ (n3 :> {c1, c2}) @@ (n4 :> {d1})

\* No invaders, or one of them in each sector.
MCInvaders == {[s \in MCSector |-> n] : n \in {0, 1}}

MCGrace == <<2, 2, 1, 1, 1, 1>>

\* The dots of a sector are alike, and so are the three sectors of two dots.
Alike ==
  Permutations({a1, a2}) \cup Permutations({b1, b2}) \cup Permutations({c1, c2}) \cup
  {(n1 :> n2) @@ (n2 :> n1) @@ (a1 :> b1) @@ (b1 :> a1) @@ (a2 :> b2) @@ (b2 :> a2),
   (n2 :> n3) @@ (n3 :> n2) @@ (b1 :> c1) @@ (c1 :> b1) @@ (b2 :> c2) @@ (c2 :> b2)}
=============================================================================
