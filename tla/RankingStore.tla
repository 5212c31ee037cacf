---------------------------- MODULE RankingStore ----------------------------
(***************************************************************************)
(* The persistent ranking (rust/server/src/ranking_store.rs, and           *)
(* reference/ts-server/src/server/ranking_store.ts before it): totals per  *)
(* human player name in memory, saved to one JSON file after every match   *)
(* and loaded when the process starts.  The process may stop at any        *)
(* moment; the file is rewritten in place, so a stop in the middle leaves  *)
(* a file that does not parse.                                             *)
(*                                                                         *)
(* Two names with the same trimmed lower-case form have the same key.  The *)
(* capture and rescue totals and the time stamps are left out; an entry    *)
(* they make unusable is not `valid`, and entries of a file that agree in  *)
(* all the rest are one.  Where the two differ the model is the Rust one:  *)
(* the TypeScript store drops an entry with a negative best score, and     *)
(* does not ask whether the name of a player is blank, which none is.      *)
(***************************************************************************)
EXTENDS Integers, FiniteSets, Sequences, SequencesExt, Functions

CONSTANTS
  Key,         \* the trimmed lower-case names that are not empty
  Name,        \* names as players write them
  KeyOf,       \* ranking_key: Name -> Key, or NoKey for a blank name
  NoKey,
  FirstFiles,  \* the files the very first start may find
  Score,       \* scores in a match
  MaxHumans,   \* bound: human players in a match
  MaxMatches   \* bound: matches ever recorded

ASSUME RankingAssumption ==
  /\ NoKey \notin Key
  /\ KeyOf \in [Name -> Key \cup {NoKey}]
  /\ Score \subseteq Int
  /\ MaxHumans \in Nat /\ MaxMatches \in Nat

VARIABLES
  phase,    \* "down", "serving", or where `save` is
  players,  \* key -> totals; the memory of the process
  file,     \* the file
  saved,    \* the totals of the last save that completed; not in the code
  played,   \* key -> matches its players have played, so far as the process
            \* knows them; not in the code
  recorded  \* matches recorded so far; not in the code

rankingVars == <<phase, players, file, saved, played, recorded>>

Totals == [name : Name, matches : Nat, wins : Nat, best : Int]
Raw == [name : Name, matches : Nat, wins : Nat, best : Int, valid : BOOLEAN]
Nobody == [k \in {} |-> {}]

\* A file is missing, does not parse, has another version, or holds entries.
File == [state : {"missing", "damaged", "foreign", "entries"},
         entries : SUBSET Raw]
Damaged == [state |-> "damaged", entries |-> {}]

ASSUME FirstFilesAssumption ==
  /\ FirstFiles \subseteq File
  /\ \A f \in FirstFiles : IsFiniteSet(f.entries)

\* What the ranking may be in memory.
IsTable(t) == DOMAIN t \subseteq Key /\ t \in [DOMAIN t -> Totals]

RankingTypeOK ==
  /\ phase \in {"down", "serving", "save", "write"}
  /\ IsTable(players) /\ IsTable(saved)
  /\ file \in File
  /\ played \in [Key -> Nat]
  /\ recorded \in 0..MaxMatches

-----------------------------------------------------------------------------
(* Loading: load_players and sanitize_stored_entry.                        *)

Smaller(a, b) == IF a <= b THEN a ELSE b
Larger(a, b) == IF a >= b THEN a ELSE b

Sanitized(e) ==
  [name |-> e.name, matches |-> e.matches,
   wins |-> Smaller(e.wins, e.matches), best |-> Larger(e.best, 0)]

Usable(S) == {e \in S : e.valid /\ KeyOf[e.name] # NoKey}

\* Entries with the same key are merged in the order of a hash map: their
\* totals do not depend on it, the name that stays is that of the last one.
Merged(a, b) ==
  [name |-> b.name, matches |-> a.matches + b.matches,
   wins |-> a.wins + b.wins, best |-> Larger(a.best, b.best)]

MergedInOrder(q) ==
  LET merged[n \in 1..Len(q)] ==
        IF n = 1 THEN Sanitized(q[1]) ELSE Merged(merged[n - 1], Sanitized(q[n]))
  IN  merged[Len(q)]

SameKey(S, k) == {e \in Usable(S) : KeyOf[e.name] = k}

\* What load_players may return for a file.
Loads(f) ==
  IF f.state # "entries" THEN {Nobody}
  ELSE LET keys   == {KeyOf[e.name] : e \in Usable(f.entries)}
           One(k) == {MergedInOrder(q) : q \in SetToSeqs(SameKey(f.entries, k))}
       IN  {t \in [keys -> UNION {One(k) : k \in keys}] : \A k \in keys : t[k] \in One(k)}

Serialized(table) ==
  [state |-> "entries",
   entries |-> {[name |-> table[k].name, matches |-> table[k].matches,
                 wins |-> table[k].wins, best |-> table[k].best, valid |-> TRUE]
                  : k \in DOMAIN table}]

-----------------------------------------------------------------------------
(* Recording: record_match, over the final ranking of a match.             *)

Human == [name : Name, score : Score]

WithEntry(table, k, t) ==
  [j \in DOMAIN table \cup {k} |-> IF j = k THEN t ELSE table[j]]

\* Mutant: blank names are credited too.
CreditedBlank(table, human, won) ==
  WithEntry(table, KeyOf[human.name],
    [name |-> human.name, matches |-> 1, wins |-> 0, best |-> human.score])

Credited(table, human, won) ==
  LET k   == KeyOf[human.name]
      old == IF k \in DOMAIN table THEN table[k]
             ELSE [name |-> human.name, matches |-> 0, wins |-> 0, best |-> 0]
  IN  IF k = NoKey THEN table
      ELSE WithEntry(table, k,
             [name |-> human.name, matches |-> old.matches + 1,
              wins |-> old.wins + (IF won THEN 1 ELSE 0),
              best |-> Larger(old.best, human.score)])

\* Mutant: a second player of the same name is taken for the first.
CreditedAfterOnce(table, ranking, won) ==
  LET Seen(n)  == \E j \in 1..(n - 1) : KeyOf[ranking[j].name] = KeyOf[ranking[n].name]
      after[n \in 0..Len(ranking)] ==
        IF n = 0 THEN table
        ELSE IF Seen(n) THEN after[n - 1] ELSE Credited(after[n - 1], ranking[n], won)
  IN  after[Len(ranking)]

CreditedAfter(table, ranking, won) ==
  LET after[n \in 0..Len(ranking)] ==
        IF n = 0 THEN table ELSE Credited(after[n - 1], ranking[n], won)
  IN  after[Len(ranking)]

-----------------------------------------------------------------------------
RankingInit ==
  /\ phase = "down"
  /\ players = Nobody
  /\ file \in FirstFiles
  /\ saved = Nobody
  /\ played = [k \in Key |-> 0]
  /\ recorded = 0

Start ==
  /\ phase = "down"
  /\ phase' = "serving"
  /\ players' \in Loads(file)
  /\ played' = [k \in Key |-> IF k \in DOMAIN players' THEN players'[k].matches ELSE 0]
  /\ UNCHANGED <<file, saved, recorded>>

\* AI entries of the ranking are skipped, so only the humans are enumerated.
RecordMatch(ranking, won) ==
  /\ phase = "serving"
  /\ recorded < MaxMatches
  /\ players' = CreditedAfter(players, ranking, won)
  /\ played' = [k \in Key |->
                   played[k] + Cardinality({i \in DOMAIN ranking : KeyOf[ranking[i].name] = k})]
  /\ recorded' = recorded + 1
  /\ phase' = "save"
  /\ UNCHANGED <<file, saved>>

\* The directory cannot be created, or the file not opened: only logged.
SaveImpossible ==
  /\ phase = "save"
  /\ phase' = "serving"
  /\ UNCHANGED <<players, file, saved, played, recorded>>

\* Mutant: the file is written entry by entry.
BeginPiecemeal ==
  /\ phase = "save"
  /\ phase' = "write"
  /\ \E k \in DOMAIN players : file' = Serialized(Restrict(players, {k}))
  /\ UNCHANGED <<players, saved, played, recorded>>

\* fs::write truncates the file first ...
BeginWrite ==
  /\ phase = "save"
  /\ phase' = "write"
  /\ file' = Damaged
  /\ UNCHANGED <<players, saved, played, recorded>>

\* ... and then writes it, or fails halfway, which is only logged.
CompleteWrite ==
  /\ phase = "write"
  /\ phase' = "serving"
  /\ file' = Serialized(players)
  /\ saved' = players
  /\ UNCHANGED <<players, played, recorded>>

WriteFails ==
  /\ phase = "write"
  /\ phase' = "serving"
  /\ UNCHANGED <<players, file, saved, played, recorded>>

Stop ==
  /\ phase # "down"
  /\ phase' = "down"
  /\ players' = Nobody
  /\ played' = [k \in Key |-> 0]
  /\ UNCHANGED <<file, saved, recorded>>

Rankings == BoundedSeq(Human, MaxHumans)

RankingNext ==
  \/ Start
  \/ \E ranking \in Rankings, won \in BOOLEAN : RecordMatch(ranking, won)
  \/ SaveImpossible
  \/ BeginWrite
  \/ CompleteWrite
  \/ WriteFails
  \/ Stop

RankingSpec == RankingInit /\ [][RankingNext]_rankingVars

-----------------------------------------------------------------------------
\* Whatever the file said, the ranking in memory is one a history of matches can
\* have: an entry under the key of its name, no more wins than matches, no
\* negative best score; and every human of a finished match counts once in it,
\* two players who share a name included.
TotalsMakeSense ==
  /\ \A k \in DOMAIN players :
       /\ KeyOf[players[k].name] = k
       /\ players[k].wins <= players[k].matches
       /\ players[k].best >= 0
  /\ \A k \in Key : played[k] = IF k \in DOMAIN players THEN players[k].matches ELSE 0

\* A restart finds exactly the totals of the last save, which merging and
\* sanitising do not change, however they came into memory; or, when a later save
\* was stopped or failed, nobody; never a part of them and never a mixture.
RestartsAreWhole ==
  [][phase = "down" /\ saved # Nobody /\ phase' = "serving" =>
       players' = IF file = Damaged THEN Nobody ELSE saved]_rankingVars

-----------------------------------------------------------------------------
\* docs/dev/persistent-ranking/requirements.md: the results are kept over a
\* restart of the server.
ResultsSurviveRestart ==
  [][phase = "down" /\ phase' = "serving" => saved = Nobody \/ players' = saved]_rankingVars

=============================================================================
