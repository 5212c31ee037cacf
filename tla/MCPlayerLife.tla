---------------------------- MODULE MCPlayerLife ----------------------------
(* A corridor of three cells for checking PlayerLife with TLC: the players  *)
(* at home at its ends, what there is to pick up in the middle.             *)
EXTENDS PlayerLife

MCCell == {1, 2, 3}
MCNeighbours == [c \in MCCell |-> {d \in MCCell : d = c + 1 \/ c = d + 1}]
MCNear == [c \in MCCell |-> {c}]
MCHome == [p \in Player |-> IF p = 1 THEN 1 ELSE 3]
=============================================================================
