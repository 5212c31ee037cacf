# mmo-packman in TLA+

Specifications, model checking and proofs for *mmo-packman*, a co-operative maze
game for many players: its two servers, its browser client and what they tell
each other. Paths are relative to the repository root; `server.rs` is
`rust/server/src/bin/server.rs`, and `index.ts`, `game.ts` and `world.ts` are
those of `reference/ts-server/src/server/`.

Run everything from this directory: `tlc -config X.cfg M` for a run named in
`PROJECT.json`, `tlapm M.tla` for a module of proofs.

## 1. The system

| Part | Source | State | Operations |
| --- | --- | --- | --- |
| Lobby and match server (Rust) | `server.rs`, `server_utils.rs` | `ServerState` behind one mutex: connections, members with their flags, the active connection of each member, the host, the running game, pings, ranking | connect, `hello` (new, token, repeated), `lobby_start`, `input`, `place_ping`, `ping`, disconnect, tick, game over |
| Room server (TypeScript) | `index.ts`, `aoi.ts` | connections, rooms; in each room what the Rust server has once | as above, with a room in every `hello`; rooms are created and cleaned up |
| Browser client: session | `src/client/main.ts` | socket, reconnect timer, token, room, mode, host and match flags; `localStorage` shared by tabs | connect, reconnect, settings, start, keys, pings, messages |
| Browser client: board and replay | `main.ts`, `replay_model.ts`, `replay_parser.ts` | world, snapshot, dots and pellets, recorded frames, the log, the player of logs | apply differences, record, finalize, open, seek, play, close, import |
| Ping manager | `ping_manager.rs`, `ping_manager.ts` | list of pings, placements per owner | `place`, `snapshot` (prune), `clear` |
| Ranking store | `ranking_store.rs`, `ranking_store.ts` | totals per name in memory, one JSON file | load, `record_match`, `save`, `build_response` |
| Engine (Rust): tick, players, ghosts, collisions | `engine/mod.rs` | players, ghosts, dots, pellets, gates, clock | `step`, `set_player_connection`, `receive_input` |
| Engine (Rust): sectors, rescues, end of match | `engine/sector_system.rs` | sectors, captures, ghost target, milestones | capture, loss, regeneration, pickups, rescues, respawn, `check_game_over` |
| Engine (Rust): spawning | `engine/spawn_system.rs` | none of its own | initial ghosts, respawn of ghosts |
| Engine (TypeScript) | `game.ts`, `gate_utils.ts` | as the Rust engine | `step` with gates, pellets, fruits, players, ghosts, collisions, sectors |
| World generation | `world.ts`, `world.rs`, `rng.*` | none (a function of the seed) | build a maze, place things in it |
| Wire protocol | `server_protocol.rs`, `src/shared/types.ts` | none | parse a message with defaults and clamps |
| Simulators, parity harness, rule generator | `simulate.*`, `parity_harness.ts`, `generate-game-rules.mjs` | none of their own | tools |

How they interact. *Rust server*: one asynchronous task per WebSocket reads
messages in order and takes the mutex on `ServerState` for each critical section;
a writer task per connection empties a bounded queue; one task ticks every
`TICK_MS` under the same mutex, calls `GameEngine::step` and broadcasts. *Room
server*: one thread; a handler runs to its end; one interval per room ticks.
Either lobby writes into its engine only who is connected and which input came
in, and hands the summary of a match to the ranking store. *Client*: one tab has
one socket at a time; all it knows of a match comes as `game_init` (everything) and
`state` (differences); a closed socket is replaced after 1.5 s unless it was closed
with code 4001, by which the server says that another connection took over.

What is hard about it:

* *Two critical sections.* `lobby_start`, `input` and `place_ping` of the Rust
  server look up their sender under one lock and act under the next one.
* *Reconnection.* A token binds a member to a new connection while the old one
  still runs; two tabs with one token, a late close, a repeated `hello` and a
  `hello` for another room must not part what belongs together, nor go on for ever.
* *Sends that fail.* `try_send` on a full queue disconnects its recipient from
  within the handler that sends; the reader of that connection goes on.
* *Match boundaries.* Members are kept in a match and removed between matches,
  and the game over itself can lose connections before and after the game is
  dropped.
* *Differences.* A board kept from differences is wrong for ever after one is
  missed; recordings are taken from it while another recording may be on show.
* *The order of a tick.* Gates, players, rescues, ghosts, collisions and sectors
  are visited one after the other on the same state; clocks are compared in turns.
* *Rules that do not look at each other.* Doors, halls, corners, pellets and spawn
  cells of a map are placed separately.
* *A file written in place* by a process that may stop.

What makes each part correct: connections and members agree who is bound to
whom; the host is present and stable; the seats of a match are its members and
AI plays exactly the absent ones; rooms share nothing; a tab knows what it is and
comes to rest; a client's board is the board of its match and a recording is the
match it names; pings stay within caps and rates; totals count every player and
survive as a whole; a player's clocks fit its state; going down, power and stocks
cost what the rules say; gates take two to open and a third to pass; counters of
sectors count; a match goes on only while somebody can act; a map is in one piece.

The hazards, each at its line with the properties that cover it, are listed in
`PROJECT.json`.

## 2. The modules

| Module | Models | Correspondence |
| --- | --- | --- |
| `SessionTable` | `ServerState` and its helper functions | one record; each helper is an operator from a table to a table under its own name (`DisconnectClients`, `BindClientToPlayer`, `EnsureHostAssigned`, ...) |
| `LobbyServer` | the message handlers, `handle_socket`, the tick loop | one action per critical section; a handler chains the operators in the order of its calls; `pending` is a request between its two sections |
| `MatchRoster` | what the lobby promises its members | abstract: who is present, the host, whether a match runs, its seats; `LobbyServer` implements it |
| `RoomTable` | the state of `index.ts` and its functions | as `SessionTable`, with rooms; what is sent goes to `out`, a channel per connection |
| `TabSessions` | the session part of `main.ts`, the network, and `RoomTable` | one action per event of a tab, of a connection or of a room's interval |
| `ReplayClient` | the board and the replay part of `main.ts`, `replay_parser.ts` and `replay_model.ts`, with the loop that feeds them | one action per message, user action or animation frame |
| `PingManager` | both ping managers | one action per method; a list is the set of its pings ordered by id |
| `RankingStore` | the Rust ranking store | `Loads` is `load_players`; `record_match`, the truncation and the write of `fs::write`, and a stop of the process are actions |
| `PlayerLife` | the Rust `GameEngine::step` as far as players and ghosts live and die | one action per visit, in the order of `step`; `stage`, `at` and `foe` say where in the tick it is |
| `SectorControl` | the Rust `update_sector_control`, `adjust_ghost_population`, `emit_progress_milestones`, `check_game_over` | one action per stage of a tick; a loop over sectors is a set comprehension, the loop that puts dots down a choice of as many free cells |
| `Arena` | the TypeScript `step`, whole, with gates | one action per stage, and one per turn of a player or collision |
| `WorldSector` | one sector of `world.ts` | one action per stage; the search of the maze step by step; random numbers are choices |
| `MC...` | constants, maps, symmetry and first files for TLC | |
| `...Proofs` | proofs about the module they are named after; `StoreProofs` about `PingManager` and `RankingStore` | section 5 |

The two engines share their rules but not their code: the Rust one is split where
its two source files meet, the TypeScript one is modelled in one piece, so that
gates, which need three players in one tick, are seen with rescues, collisions and
sectors. `TabSessions` composes the client with the server that is one thread,
where a handler is one step; the Rust server's critical sections are `LobbyServer`'s
own subject.

Abstractions:

* A member is its number, which is also its reconnect token, since tokens are
  unique. Ids of members and connections are reused only when nothing names them
  any more. In `SessionTable` the set of clients whose send fails is chosen by each
  handler; removing all of them together gives the same table as one after the
  other, since only the last choice of the host survives.
* A room of `RoomTable` keeps its members as a set and who came before whom, which is
  what the order of the code's `Map` is used for.
* `LobbyServer` and `RoomTable` take the engine as who has a seat, whose seat is not
  AI and whose input was taken; the pings as their owners.
* A connection of `TabSessions` is two FIFO channels. Either side may learn first
  that it is over. Messages that a tab only prints are not sent, and of the states
  of a match only the first and the last matter to a session, so a match is two ticks.
* A board of `ReplayClient` is a set of items; what a match does to them is given by
  a `Course`, of which every client sees its own differences. A file may be read at any
  time after it was chosen. `eclipsed` is a history variable: since the last
  `game_init`, a state or the end of the match was handled with a replay open.
* Opening and closing a replay is in both client modules: what it does to board and
  recording in `ReplayClient`, what it does to the mode of the page (`isSpectator`,
  `main.ts:1697` and `main.ts:1732`) in `TabSessions`, where any tab that has seen a
  result may open one at any time. `missed` is a history field there: a `welcome`
  brought another mode than the one that the open replay will put back.
* Time in `PingManager` is an integer instant; in `PlayerLife` and `Arena` every time
  stamp is the number of ticks to or from now, so that no clock has to be bounded.
* Speeds, path finding and the scores of AI only decide which neighbouring cell an
  actor enters, so every one is considered; AI asks for an awakening whenever its
  code could. A cell of `PlayerLife` is a stretch of maze; `Arena` has cells, walls
  and gates. In a tick nobody gets further than one cell.
* Sectors are outside `PlayerLife`: any dots may come back, any ghosts may be
  driven out, and the match may end for another reason. Its number of ghosts is
  fixed: those that `adjust_ghost_population` adds or removes between ticks are
  left to `SectorControl`. `Arena` has both; how many ghosts there should be, which
  cells get dots back and when fruits come is a choice within what the code allows.
* `SectorControl` takes from players and ghosts the dots eaten in a tick (one at
  most for each player that stood, since a player enters at most one cell per
  tick), who stands after it, and the invaders of each sector. Where dots start
  and where they may come back are the same cells of a sector (`world.rs`), so
  `DotsIn` is both. Ratios that the code divides in `f32` are compared as whole
  numbers; for the numbers of sectors and dots that occur both agree, except that
  the number of ghosts wanted can be one off where a half is rounded. What has
  grown of a dot is counted in exact units, where the code adds up in `f32`.
* `world.ts` treats all sectors alike and none looks into another; the two halves of
  a door are dug by one call, and a sector sees its half.
* Names in `RankingStore` are model values with a key; entries that do not parse
  are `valid = FALSE`, and entries of a file that agree in all the rest are one.
  Saturation of the 64-bit counters is left out. The TypeScript store differs in
  negative best scores and blank names; the Rust one is modelled.

## 3. What is checked

| Run | Question | Bounds | Distinct states |
| --- | --- | --- | --- |
| `lobby` | do connections, members, host, seats, AI flags, pings and inputs agree after every critical section, and is the roster implemented? | 3 connections, 2 members, 0 or 1 AI | 178 587 |
| `tabs` | do rooms stay apart, does a tab know what it is, do keys arrive, and do tabs come to rest? | 2 tabs, 3 connections, 2 rooms, 4 moves of users or network (closing a replay is none) | 1 169 480 |
| `replay` | is the client's board that of the match, a log whole, the frame on show the right one? | 2 matches of 5 ticks, every second tick sampled, 2 items, 2 files read at any time, 4 messages under way | 66 678 |
| `pings` | caps, sliding rate limit, order of eviction | 2 owners, 6 pings, 6 instants | 60 444 |
| `ranking` | totals, merging, restarts | 3 spellings of 2 keys and a blank name, 2 matches of up to 2 humans, 4 kinds of first file | 17 408 |
| `player_rescue` | clocks, an end to being down | 3 players, 1 ghost that may come back as the boss, 1 pellet, 3 cells | 641 067 |
| `player_stocks` | what going down and power cost | 2 players, one of whom comes and goes, 1 ghost, 1 dot, 1 pellet, 3 cells | 5 976 898 |
| `sectors` | counters, thresholds, grace, and who ends the match | 3 players, 4 sectors of 2, 2, 2 and 1 dots, 6 ticks of which two make a second | 407 443 |
| `arena` | clocks, counters, and who passes a gate | 5 maps of 4 or 6 cells, 1 to 3 players, up to 2 ghosts | 2 481 878 |
| `world` | are gates, switches, pellets, spawns and dots apart, and is the sector in one piece? | 9 by 9 cells, doors on two sides with a range of 1 | 429 613 |

Why the bounds are enough. *Lobby*: supersession takes two connections and one member;
a third connection makes the earlier one's end race a second supersession, and a
second member gives the host somebody to pass to, and a match an absent seat beside a
present one. *Tabs*: two tabs with one token and a third connection for the one that
reconnects; four moves are enough for open, open, break or close, and one more of
either tab, or for a match whose replay is open when a `welcome` brings another mode;
all that follows of itself is not bounded. *Replay*: with ticks 0 to 5 and
an interval of 2, frames are sampled, skipped and added at the end; the second match
may begin under an open recording, and a recording may open in the middle of it and
hide part of it; one file is whole, one has lost a frame. *Pings*: the caps (2 per
owner, 3 in all) are reached by one owner and only by both together, and the window
(1) ends within the six instants several times. *Ranking*: two spellings of one key
meet in one file, in one match and over a restart. *Players*: the timeout is two ticks
and protection one, so each expires before, with and after the others; a rescue needs
a ghost and two players in three cells; the boss has two hit points with three
players. *Sectors*: in six ticks all four sectors can be captured (victory), or three
and then all lost again (collapse), or one lost and taken a second time; the cost of a
dot is set so that a sector can be lost while another one is captured, and that a dot
comes back within a tick and in several; the grace is two ticks at low pressure and
one at high. A sector of one dot is full at its loss limit and is never lost. Dots of
a sector, and sectors of equal size, are interchangeable (`SYMMETRY`; no liveness is
checked there). *Arena*: three players and a gate of four cells with its switches; two
that hold it for a ghost; one with a key; two that rescue each other with an apple;
one before a boss and a second ghost. *World*: nine is the least odd size for which
hall, corners and doors leave room for each other; all mazes of the search, all
openings and all doors of a sector in the corner of a map are enumerated.

Action properties, refinement and liveness are `PROPERTY`s; the others are
invariants. Deadlock is checked for `replay`, `pings` and `ranking`. It is not for
the lobby and the tabs, where finitely many ids or moves may be used up, nor for a
match, which ends (`PlayerLife`, `SectorControl`, `Arena`), nor for a map, which is
made once.

Fairness. `PlayerLife` has `FairSpec`, weak fairness of `Step` alone, because the
interval timer of `start_tick_loop` calls `GameEngine::step` again and again until
the match is over, whatever players do. Nothing is assumed of players, of ghosts,
or of which branch a visit takes. `TabSessions` has weak fairness of `System`, all
that happens without a user or a fault: messages arrive, a broken connection is
noticed by TCP's end or by the client's own close, timers fire, and every match has
a time limit. It is written out as `Progress` (`System` is not enabled, or takes a
step, again and again), since its steps are those that are no moves. The other
modules make safety claims only.

### Where documents and code differ

Two runs expect a violation; each states a sentence of a document.

| Run | Document | Code |
| --- | --- | --- |
| `lobby_takeover` | `docs/game_design.md:132`: AI takes over at once when a player disconnects | a connection dropped for a full queue keeps reading; its next `hello` makes it active without registering it, and its end goes unnoticed (`server.rs:1005`) |
| `world_sealed` | `docs/game_design.md:11`: together the players eat up all dots of the map | `world.ts:314` opens pillars within four walls, whose dots nobody reaches; `game.ts` captures a sector only when it is empty. The Rust generator puts dots on reachable cells only |

More sentences are stated beside the properties of a module, under "What the
documents promise and the code does not keep", and have no run:

* `LobbyServer!TokenKeepsMember` (`docs/server_protocol.md:72`): a member that
  disconnects between matches is removed; its token admits a new member.
* `PlayerLife!StockTakesDots` (`docs/game_design.md:240`, `docs/mvp_scope.md:40`): at
  the limit of stocks a dot sets the gauge to full; after an awakening the next dot
  yields a stock.
* `SectorControl!AllCapturedWins` (`docs/game_design.md:348`): time out and all down
  are decided first, also in the tick that captures the last sector.
* `RankingStore!ResultsSurviveRestart`
  (`docs/dev/persistent-ranking/requirements.md:7`): `fs::write` truncates first; a
  stop in between leaves a file that loads as empty.
* `TabSessions!ReplacedByAnother` (`main.ts:151`): a tab told of code 4001 does not
  reconnect, also when the tab that replaced it is told the same in turn.

Others were met and are followed as the code has them. *Client*: a file chosen before
a match begins and read after it (`main.ts:1759`) replaces what is on the screen;
states are then dropped, the board is wrong until the next `game_init`, and the log
takes in frames of the file, where `docs/replay_timelapse.md:4` has the log of a match
made of its states. `MirrorsMatch` and `LogIsWhole` except this case by name
(`eclipsed`); without the exception both are violated. Closing a replay puts back the
mode saved at its opening, also over one that a `welcome` has set meanwhile
(`main.ts:1732`); `TabKnowsItself` excepts that by name (`missed`). *Rust engine*: a
hit on the boss leaves the power of the player, where `docs/game_design.md:271`
consumes it (`engine/mod.rs:892`); a match collapses at 12% and after three minutes,
where `docs/game_design.md:358` says 30% (`sector_system.rs:166`); milestones are 20,
40, 60, 80 and 90%, where `docs/game_design.md:458` says 25, 50, 75 and 90%
(`sector_system.rs:181`). *TypeScript engine*: a boss that is hit stays where it is,
where `docs/game_design.md:274` knocks it back; a boss driven out of a captured sector
is healed to full, and may come back in that very sector; a player is rescued by one
that enters its cell, not by one that stands there; a ghost that is eaten may catch
another player where it comes back, in the same tick; two players by themselves never
pass a gate, where `docs/game_design.md:93` asks for two. `docs/game_design.md:134`
lets AI substitutes keep their stocks unused; that is superseded by
`docs/dev/balance-ai-substitution-resilience/requirements.md:8`, which both engines
follow.

## 4. Properties

*Lobby.* `BindingAgrees`: every bound connection is registered and active for a
member. `HostIsConnected`, `HostIsStable`. `SeatsAgree`: seats, AI, spectators,
inputs and pings of a match; a request whose sender was looked up before a match
ended does not reach the next one as somebody without a seat. `SeatsAreKept`.
`ImplementsRoster`: the whole server is a `MatchRoster`.

*Tabs.* `RoomsAreApart`: contexts, active connections, flags, hosts, seats and the
life of rooms agree after every handler, and nobody is in two rooms. `TabKnowsItself`:
once everything sent has arrived, a tab's idea of its member, its host flag and its
mode is the server's. With a replay open, the mode is the one that closing it puts
back; that one is wrong exactly if `missed`. `KeysArrive`: a key that is held is the
direction of the seat. `Settles`: left alone, the tabs come to rest.

*Replay.* `MirrorsMatch`: the board plus what is under way is the board of the match.
With a replay open, the board is the saved one; if a replay has hidden a state, it
need not be right before the next `game_init`. `LogIsWhole`, of the step that saves a
log: it is the match it names, in order, up to its end, unless a replay hid part of
it. `ShowsItsTime`: the frame found by binary search is the last that has begun.

*Pings.* `CapsHold`; `RateLimited` over every interval, against a log the code
does not keep; `EvictsOldest`.

*Ranking.* `TotalsMakeSense`, with a count of matches the code does not keep;
`RestartsAreWhole`.

*Players.* `ClocksAgree`, `DownCosts`, `PowerIsPaid`, `DownEnds`.

*Sectors.* `CountsDots`: the counter that decides over a sector is the number of
dots in it. `Hysteresis`: captured sectors are within the loss limit and open ones
above the capture threshold, so none is captured and lost in turn without dots
eaten and grown. `OnlyOpenMatchesGoOn`. `GraceKept`, against a count of ticks the
code does not keep.

*Arena.* `ClocksAgree`; `SectorsAgree`; `CrossingTakesThree`: a gate without a key is
crossed only while two others stand on its switches, whatever moves, goes down or
comes back in that tick.

*World.* `PlacesApart`, which is what `Arena` assumes of a map; `OnlyPillarsCutOff`.

Each has a mutant: an operator beside the one it changes, marked "Mutant".

## 5. What is proved

The theorems hold for all values of the constants, under the named assumptions of the
modules: non-empty sets and positive limits; `NoClient` is no connection; spawn cells
lie in the maze; an awakening takes more than one dot; sectors are as many as the side
of the map squared and share no dot; the grace does not grow with the pressure; the
maps of `Arena` keep gates, switches, pellets and spawns apart and have a dot in every
sector, as `PlacesCorrect` proves of `WorldSector`; a sector is of odd size, nine at
least, with its doors away from its corners; a match of `ReplayClient` has at least
one tick, and two messages may be under way; every name of `RankingStore` has a key or
is blank, scores are whole numbers, and a first file lists finitely many entries.
Bounds used for checking only (members, instants, pings, moves) are constants there
too. Each theorem of state or action is an induction over the steps of one module,
with one lemma for each action.

* **`LobbyServerProofs`.** `SessionTable` is proved operator by operator: each
  lemma says what a helper keeps of `Core`, the conjunction of the properties of
  one table, and what it does to presence and host. A handler is a chain of
  these lemmas, so a step never looks into a table. The inductive invariant adds
  that member numbers were issued: without it a new member could replace an
  existing one. `Step` collects what every action owes, and type correctness, all
  invariants, the two action properties and the refinement of `MatchRoster`
  (`Refinement`) follow from it.
* **`StoreProofs`, pings.** The caps follow from a lemma that a set with distinct
  ids has at most *k* newest elements, proved by taking the least id among too
  many. The sliding rate limit needs more than the code's state: the history
  contains every logged placement that is not older than a window
  (`HistoryComplete`) and nothing else (`HistorySound`); the limit over all
  intervals is then inductive. The order of eviction (`EvictsOldest`) is a fact of
  one step (`AcceptEvicts`): a ping that is not among the newest *k* is older than
  all of them, and that something had to go means that the cap was reached.
* **`StoreProofs`, ranking.** What `load_players` merges and `record_match` counts are
  recursive functions along a sequence. Each is shown to exist (`MergingExists`,
  `CreditingExists`: there is no least length for which it does not), and then what
  holds of its last value is shown for the least index at which it would fail:
  merging entries of one name in any order gives totals a history of matches can
  have (`MergedInOrderSensible`), and a match adds to each name as many matches as
  its ranking has humans of that name (`CreditedAfterCounts`). `RankingInv` adds to
  the two invariants that the same holds of the last save, and that the file either
  is damaged or is exactly that save. The file alone would not do: that a restart
  finds what was saved (`LoadsSaved`) holds because a save writes one entry for each
  key, under its own key, and these are the entries that `Sanitized` leaves alone.
* **`PlayerLifeProofs`.** `Good(s)` is what a player's record satisfies at any
  time and `Turned(s)` what it satisfies after the player's visit in a tick. Each
  operator on records is shown to keep or establish them. The invariant says that
  all records are good and each is turned or still awaits its visit, which is what
  `ClocksAgree` needs between visits; the position in the tick is needed where a
  tick begins. `PowerPaid` counts stocks and gauge in dots and needs that one dot
  does not pay for a stock.
* **`SectorControlProofs`.** `ThresholdOrder`, arithmetic on the percentages of
  each party size, makes the hysteresis inductive; `RegrowCounts` says what the
  regrowth of one sector does to its counter, its dots and its accumulator. The
  invariant adds that a captured sector was seen captured for as long as its time
  stamp says, which needs that open sectors were seen open when the capture loop
  starts (`SeenAsHeld`), and that a tick has been counted before the capture loop
  runs. `GhostTargetType` bounds the population for every party.
* **`ArenaProofs`.** `Clockwork` is the invariant: the types, the clocks as in
  `PlayerLifeProofs` (good records, turned or awaiting their turn), and where in the
  tick it is (`InTurn`). On top of it, `Guarded` says that an open gate is held by
  two others for as long as players and ghosts move, and that whoever has not had a
  turn is where it was when the tick began: this makes `CrossingTakesThree` hold of
  a step. `Tallied` says that counters count, captured sectors are within their
  limit, and open ones have something left to eat; each operator that eats, sows or
  captures is shown to keep it.
* **`WorldSectorProofs`.** The invariant `Built` knows of the search that what it
  has dug hangs together and that every node with an undug neighbour is still on
  the stack (`Searching`); when the stack is empty, no node is left out, by the
  nearest one that would be (a least counterexample instead of an induction). Being in
  one piece is first stated with closed sets: a set that has the first cell and every
  floor cell next to one of its own has all floor but pillars within four walls
  (`OnlyPillarsApart`). What `Reached` computes is such a set (`ReachedClosed`): the
  function that adds the neighbours of a set until there are none is defined by
  well-founded recursion on the number of cells that are left. `PlacesCorrect` goes
  stage by stage.
* **`TabSessionsProofs`.** First a room by itself (`RoomOK`, `Hosted`), then the
  tables (`Sound`, `Core`), then the tabs (`Consistent`). The invariant is stronger
  than `RoomsAreApart` in two ways: the order in which members came is a strict
  total order, so that `ChooseNextHost` finds somebody when somebody is there (the
  member with the fewest before it), and a spectator is always connected. `hello`
  and leaving a room pass through tables that agree only in part, so each is shown to
  be one replacement of a room and of the bindings to it (`Placed`). Of the tabs it
  is proved that sockets are theirs alone (`SocketKept`, `SocketGone`, `SocketNew`).
  `KnowsCorrect` and `KeysCorrect` speak of a tab that has handled everything, so
  their invariant speaks of what is under way: `Heard` is what a tab will take itself
  for after the messages in its channel, `Truth` what the table says, and `Knowing`
  that the two agree for every connection that is open on both sides (`Claim`), with
  an input under way for each key whose seat has no direction yet, unless a
  `game_init` under way is going to make the tab forget the key. `Sides` is needed
  because the two ends learn of a close at different times: a browser that still
  believes in its connection either is believed by the server or has the close last in
  its channel. Of the mode, `Heard` takes what lies behind an open replay and turns it
  when it was `missed`, so opening and closing a replay change nothing of it. Each
  handler of the server `Tells` every tab what it changes, and
  `Tells` composes, so that `HandleHello` (leave, create, bind, welcome, broadcast) is
  taken part by part; each step of a tab takes one message from the front
  (`HeardHead`, `ToldHears`) or gives up the connection.

* **`ReplayClientProofs`.** `After`, the board when all messages are read, is a
  function along the queue; lemmas say what it is after one more message, without
  the first one, and after a `game_init`. The inductive invariant `Following` is, of
  the queue, that each message may follow the one before it (a difference leads from
  the board that one leaves to the board of its own tick), that the tab is ready for
  the first, and that the last leaves the board of the match (`Chain`); of the
  recording, that its frames are of the match and in order (`RecordIsOrdered`). What it
  says of the tab holds as long as nothing was eclipsed, and behind an open replay of
  the board, the map and the tick that are saved (`Kept`); a `game_init` clears
  `eclipsed` and gives the board anew. That the binary search finds the last frame
  that has begun (`SearchFinds`) is shown for the least range on which it would not.
  `LogsCorrect` and `MirrorsCorrect` assume nothing of when a file is read.

Only model-checked: what is live, `DownEnds` and `Settles`. Every invariant, every
action property and the refinement that a passing run checks is a theorem.

## 6. Not modelled, and what could follow

Not modelled: `build_response` of the ranking, scores, awards, timelines and
drawing, which change no state that others read; the wire protocol, whose parsing
and clamping is a pure function of one message; the parity harness and the
simulators, which run an engine and print statistics; the rule generator, text in
and text out; HTTP routes, logging and metrics. Of the modelled parts: the
weights by which AI players, ghosts and the generator choose, and the formulas
for how many ghosts and dots a match should have in `game.ts` (those of the Rust engine
are in `SectorControl`); camera, HUD, sound, interpolation and prediction of the
client; the Rust generator, which differs from the TypeScript one in putting pellets
and dots on reachable cells only (`world.rs:126`).

What could follow:

1. `StateStream`: the bounded queue of a Rust connection and its dropped states,
   with `ReplayClient`'s board at the other end; `server.rs:1024` drops differences.
2. `TabSessions` over `LobbyServer`: there the frame of code 4001 can be lost, and
   two tabs may take the session from each other.
3. A composition of `LobbyServer` with `PlayerLife` and `SectorControl`: the
   choices `PlayerLife` leaves to the sectors become the steps of `SectorControl`.
