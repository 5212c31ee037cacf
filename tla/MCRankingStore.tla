--------------------------- MODULE MCRankingStore ---------------------------
(* Three spellings of two keys and a blank name, and first files that the  *)
(* server did not write itself, for checking RankingStore with TLC.        *)
EXTENDS RankingStore

MCName == {"Ann", "ann", "Bob", " "}
MCKeyOf == [n \in MCName |-> CASE n \in {"Ann", "ann"} -> "ann"
                               [] n = "Bob"            -> "bob"
                               [] OTHER                -> "none"]

\* One entry per spelling, a blank one, and one that does not parse.
HandMade ==
  [state |-> "entries",
   entries |-> {[name |-> "Ann", matches |-> 1, wins |-> 3, best |-> 2, valid |-> TRUE],
                [name |-> "ann", matches |-> 2, wins |-> 1, best |-> 1, valid |-> TRUE],
                [name |-> "Bob", matches |-> 1, wins |-> 0, best |-> -1, valid |-> TRUE],
                [name |-> "Bob", matches |-> 9, wins |-> 9, best |-> 9, valid |-> FALSE],
                [name |-> " ", matches |-> 4, wins |-> 4, best |-> 4, valid |-> TRUE]}]

MCFirstFiles ==
  {HandMade} \cup {[state |-> st, entries |-> {}] : st \in {"missing", "damaged", "foreign"}}
=============================================================================
