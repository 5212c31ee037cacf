----------------------------- MODULE ReplayClient -----------------------------
(***************************************************************************)
(* What a browser shows and records of the matches of its room             *)
(* (client/main.ts, replay_parser.ts, replay_model.ts): the board it keeps *)
(* up to date from the events of the `state` messages, the replay log it   *)
(* samples from it, and the player that shows a log in place of the match. *)
(*                                                                         *)
(* The server is its loop (reference/ts-server/src/server/index.ts): a     *)
(* step and a `state` message each tick, `game_over` with the last one,    *)
(* and `game_init` with the board as it is for who enters a running match. *)
(* The messages of a connection arrive in their order or not at all.       *)
(*                                                                         *)
(* Of a board only the items matter that come and go, dots and active      *)
(* power pellets.  How the items of a match go is given by `Course`; a     *)
(* tick takes one unit of time.  Reading a file is asynchronous.  Sounds,  *)
(* interpolation, cameras and the HUD are left out.                        *)
(***************************************************************************)
EXTENDS Integers, Sequences, FiniteSets

CONSTANTS
  Item,
  Course,      \* match -> tick -> the items on the board
  LastTick,    \* the tick in which the time is up
  Interval,    \* REPLAY_SAMPLE_TICK_INTERVAL
  Files,       \* JSON files on the user's disk; None for a frame without its parts
  MaxInbox,    \* bounds the messages under way
  None

Match == DOMAIN Course
Tick == 0..LastTick

Snapshot == [match : Match, tick : Tick]
Frame == [match : Match, tick : Tick, items : SUBSET Item]
LogOf(frames) == [match : Match, world : Match, last : Tick, frames : frames]
Playback == [log : LogOf(Seq(Frame)), index : Nat, cursor : Tick, playing : BOOLEAN]
Board == [world : Match \cup {None}, snap : Snapshot \cup {None}, items : SUBSET Item]

ASSUME CourseAssumption ==
  /\ Course \in Seq([Tick -> SUBSET Item])
  /\ LastTick \in Nat \ {0} /\ Interval \in Nat \ {0}
  /\ Files \subseteq LogOf(Seq(Frame \cup {None}))
  /\ MaxInbox \in Nat /\ MaxInbox >= 2

\* None is nothing else.
ASSUME NoneAssumption ==
  None \notin Match \cup Snapshot \cup Frame \cup LogOf(Seq(Frame)) \cup Files
              \cup Playback \cup Board

VARIABLES
  srv,       \* room.game: the match, its tick and whether it runs
  link,      \* whether the client's connection is open
  inbox,     \* messages on it
  world,     \* world: the match whose maze is drawn
  seed,      \* currentMatchSeed
  snap,      \* snapshot
  items,     \* dotSet and pelletMap
  rec,       \* replayRecordingFrames
  latest,    \* latestReplayLog
  playback,  \* replayPlayback
  saved,     \* replaySavedWorld, -Snapshot, -Dots and -Pellets
  panel,     \* whether the result panel is shown
  file,      \* the file that is being read
  eclipsed   \* not in the code: since the last game_init a state or the end of the
             \* match was handled with a replay open, which hid it

server == <<srv, link, inbox>>
board == <<world, seed, snap, items>>
vars == <<srv, link, inbox, world, seed, snap, items, rec, latest, playback,
          saved, panel, file, eclipsed>>

Last(s) == s[Len(s)]

Message ==
  [type : {"init"}, match : Match, items : SUBSET Item]
    \cup [type : {"state"}, match : Match, tick : Tick,
          gone : SUBSET Item, back : SUBSET Item]
    \cup [type : {"over"}, last : Tick]

TypeOK ==
  /\ srv \in [match : 0..Len(Course), tick : Tick, running : BOOLEAN]
  /\ link \in BOOLEAN
  /\ inbox \in Seq(Message) /\ Len(inbox) <= MaxInbox
  /\ world \in Match \cup {None} /\ seed \in Match \cup {None}
  /\ snap \in Snapshot \cup {None}
  /\ items \in SUBSET Item
  /\ rec \in Seq(Frame)
  /\ latest = None \/ latest \in LogOf(Seq(Frame))
  /\ playback = None \/ (playback \in Playback /\ playback.index \in DOMAIN playback.log.frames)
  /\ saved \in Board \cup {None} /\ (saved # None <=> playback # None)
  /\ panel \in BOOLEAN
  /\ file \in Files \cup {None}
  /\ eclipsed \in BOOLEAN

Init ==
  /\ srv = [match |-> 0, tick |-> 0, running |-> FALSE]
  /\ link = TRUE /\ inbox = <<>>
  /\ world = None /\ seed = None /\ snap = None /\ items = {}
  /\ rec = <<>> /\ latest = None /\ playback = None /\ saved = None
  /\ panel = FALSE /\ file = None /\ eclipsed = FALSE

-----------------------------------------------------------------------------
(* The server and the network.                                             *)

InitMsg(m, t) == [type |-> "init", match |-> m, items |-> Course[m][t]]
OverMsg(t) == [type |-> "over", last |-> t]

\* isEventVisible: the area of interest hides nothing of the board.
Visible(events, near) == events

StateMsg(m, t, near) ==
  [type |-> "state", match |-> m, tick |-> t,
   gone |-> Visible(Course[m][t - 1] \ Course[m][t], near),
   back |-> Visible(Course[m][t] \ Course[m][t - 1], near)]

\* buildSnapshot(false) between two ticks: all events were drained.
StateNow(m, t) ==
  [type |-> "state", match |-> m, tick |-> t, gone |-> {}, back |-> {}]

Sent(messages) == IF link THEN inbox \o messages ELSE inbox
Room(n) == Len(inbox) + n <= MaxInbox

Start ==
  /\ ~srv.running /\ srv.match < Len(Course) /\ Room(1)
  /\ srv' = [match |-> srv.match + 1, tick |-> 0, running |-> TRUE]
  /\ inbox' = Sent(<<InitMsg(srv.match + 1, 0)>>)
  /\ UNCHANGED <<link, world, seed, snap, items, rec, latest, playback, saved,
                 panel, file, eclipsed>>

\* The match ends with any tick, for the state it is in or for the time.
Step(near, ends) ==
  LET t == srv.tick + 1 IN
  /\ srv.running /\ Room(2)
  /\ t = LastTick => ends
  /\ srv' = [srv EXCEPT !.tick = t, !.running = ~ends]
  /\ inbox' = Sent(<<StateMsg(srv.match, t, near)>>
                     \o IF ends THEN <<OverMsg(t)>> ELSE <<>>)
  /\ UNCHANGED <<link, world, seed, snap, items, rec, latest, playback, saved,
                 panel, file, eclipsed>>

\* The connection breaks, with all that was under way.
Cut ==
  /\ link
  /\ link' = FALSE /\ inbox' = <<>>
  /\ UNCHANGED <<srv, world, seed, snap, items, rec, latest, playback, saved,
                 panel, file, eclipsed>>

\* sendWelcomeAndInitialState answers the hello of the new connection.
\* Mutant: it sends the board as it was when the match began.
ReconnectedStale ==
  IF srv.running THEN <<InitMsg(srv.match, 0), StateNow(srv.match, srv.tick)>> ELSE <<>>
Reconnected ==
  IF srv.running THEN <<InitMsg(srv.match, srv.tick), StateNow(srv.match, srv.tick)>>
  ELSE <<>>

Reconnect ==
  /\ ~link
  /\ link' = TRUE /\ inbox' = Reconnected
  /\ UNCHANGED <<srv, world, seed, snap, items, rec, latest, playback, saved,
                 panel, file, eclipsed>>

-----------------------------------------------------------------------------
(* handleServerMessage.                                                    *)

Arrives(type) == inbox # <<>> /\ Head(inbox).type = type

\* A replay is closed first; nothing of what it restores is left.
ReceiveInit ==
  LET m == Head(inbox) IN
  /\ Arrives("init")
  /\ world' = m.match /\ seed' = m.match /\ snap' = None /\ items' = m.items
  /\ rec' = <<>>
  /\ playback' = None /\ saved' = None /\ panel' = FALSE
  /\ inbox' = Tail(inbox)
  /\ eclipsed' = FALSE
  /\ UNCHANGED <<srv, link, latest, file>>

\* applyEvent, for the events of a state message.
Applied(on, m) == (on \ m.gone) \cup m.back

\* recordReplayFrame
Recorded(frames, s, on) ==
  IF /\ frames = <<>> \/ s.tick % Interval = 0 \/ s.tick >= LastTick
     /\ frames = <<>> \/ Last(frames).tick # s.tick
  THEN Append(frames, [match |-> s.match, tick |-> s.tick, items |-> on])
  ELSE frames

ReceiveState ==
  LET m == Head(inbox)
      now == [match |-> m.match, tick |-> m.tick]
  IN
  /\ Arrives("state")
  /\ inbox' = Tail(inbox)
  /\ IF playback # None THEN UNCHANGED <<snap, items, rec>>
     ELSE /\ snap' = now
          /\ items' = Applied(items, m)
          /\ rec' = Recorded(rec, now, items')
  /\ eclipsed' = (eclipsed \/ playback # None)
  /\ UNCHANGED <<srv, link, world, seed, latest, playback, saved, panel, file>>

\* finalizeReplayLog adds what is shown as the last frame.
\* Mutant: it does not.
FinalFramesSampled == rec
FinalFrames ==
  IF snap # None /\ Last(rec).tick # snap.tick
  THEN Append(rec, [match |-> snap.match, tick |-> snap.tick, items |-> items])
  ELSE rec

\* game_over, and showResult.
ReceiveOver ==
  /\ Arrives("over")
  /\ IF world = None \/ rec = <<>>
     THEN latest' = None /\ UNCHANGED rec
     ELSE /\ rec' = FinalFrames
          /\ latest' = [match |-> seed, world |-> world, last |-> Head(inbox).last,
                        frames |-> rec']
  /\ panel' = TRUE
  /\ inbox' = Tail(inbox)
  /\ eclipsed' = (eclipsed \/ playback # None)
  /\ UNCHANGED <<srv, link, world, seed, snap, items, playback, saved, file>>

-----------------------------------------------------------------------------
(* The replay player.                                                      *)

Offset(log, i) == LET n == log.frames[i].tick - log.frames[1].tick
                  IN  IF n < 0 THEN 0 ELSE n
Duration(log) == Offset(log, Len(log.frames))

\* findReplayFrameIndex: a binary search for the last frame that has begun.
\* Mutant: the frame that begins just now is not one of them.
FrameIndexBefore(log, cursor) ==
  LET all == 1..Len(log.frames)
      f[range \in all \X all] ==
        LET low  == range[1]
            high == range[2]
            mid  == (low + high + 1) \div 2
        IN  IF low >= high THEN low
            ELSE IF Offset(log, mid) < cursor THEN f[<<mid, high>>] ELSE f[<<low, mid - 1>>]
  IN  f[<<1, Len(log.frames)>>]

FrameIndex(log, cursor) ==
  LET all == 1..Len(log.frames)
      f[range \in all \X all] ==
        LET low  == range[1]
            high == range[2]
            mid  == (low + high + 1) \div 2
        IN  IF low >= high THEN low
            ELSE IF Offset(log, mid) <= cursor THEN f[<<mid, high>>] ELSE f[<<low, mid - 1>>]
  IN  f[<<1, Len(log.frames)>>]

\* setReplayFrameIndex
ShowFrame(log, i) ==
  /\ snap' = [match |-> log.frames[i].match, tick |-> log.frames[i].tick]
  /\ items' = log.frames[i].items

\* What closeReplay puts back: what was saved, as far as there was something.
Restored ==
  [world |-> IF saved.world = None THEN world ELSE saved.world,
   snap  |-> IF saved.snap = None THEN snap ELSE saved.snap,
   items |-> saved.items]

\* openReplay.  Another replay is closed first, and what that puts back is saved.
\* The mode of the tab, which openReplay saves and sets and closeReplay puts back
\* like these, is in TabSessions.
OpenReplay(log) ==
  /\ saved' = IF playback # None THEN Restored
              ELSE [world |-> world, snap |-> snap, items |-> items]
  /\ playback' = [log |-> log, index |-> 1, cursor |-> 0, playing |-> TRUE]
  /\ world' = log.world
  /\ ShowFrame(log, 1)
  /\ panel' = FALSE

OpenLatest ==
  /\ panel /\ latest # None
  /\ OpenReplay(latest)
  /\ UNCHANGED <<srv, link, inbox, seed, rec, latest, file, eclipsed>>

\* importReplayFromFile, up to its `await` and from there.
ChooseFile(log) ==
  /\ panel /\ file = None
  /\ file' = log
  /\ UNCHANGED <<srv, link, inbox, world, seed, snap, items, rec, latest,
                 playback, saved, panel, eclipsed>>

\* parseReplayLog.  Mutant: frames that have lost a part are taken as they are.
ParsedLoosely(raw) == IF raw.frames = <<>> THEN None ELSE raw
Parsed(raw) ==
  IF raw.frames = <<>> \/ \E i \in DOMAIN raw.frames : raw.frames[i] = None
  THEN None ELSE raw

FileIsRead ==
  /\ file # None /\ Parsed(file) # None
  /\ latest' = Parsed(file)
  /\ OpenReplay(Parsed(file))
  /\ file' = None
  /\ UNCHANGED <<srv, link, inbox, seed, rec, eclipsed>>

FileIsRefused ==
  /\ file # None /\ Parsed(file) = None
  /\ file' = None
  /\ UNCHANGED <<server, board, rec, latest, playback, saved, panel, eclipsed>>

CloseReplay ==
  /\ playback # None
  /\ playback' = None /\ saved' = None
  /\ world' = Restored.world /\ snap' = Restored.snap /\ items' = Restored.items
  /\ UNCHANGED <<srv, link, inbox, seed, rec, latest, panel, file, eclipsed>>

\* advanceReplayPlayback, a frame of the animation some time later.
Advance(delta) ==
  LET log == playback.log
      cursor == IF playback.cursor + delta >= Duration(log) THEN Duration(log)
                ELSE playback.cursor + delta
      i == FrameIndex(log, cursor)
  IN
  /\ playback # None
  /\ playback.playing
  /\ IF Duration(log) = 0
     THEN playback' = [playback EXCEPT !.playing = FALSE] /\ UNCHANGED <<snap, items>>
     ELSE /\ playback' = [playback EXCEPT !.cursor = cursor, !.index = i,
                                          !.playing = cursor < Duration(log)]
          /\ ShowFrame(log, i)
  /\ UNCHANGED <<srv, link, inbox, world, seed, rec, latest, saved, panel, file,
                 eclipsed>>

TogglePlaying ==
  /\ playback # None
  /\ playback' = [playback EXCEPT !.playing = ~@]
  /\ UNCHANGED <<server, board, rec, latest, saved, panel, file, eclipsed>>

\* The user moves the slider.
Seek(cursor) ==
  LET i == FrameIndex(playback.log, cursor) IN
  /\ playback # None
  /\ cursor <= Duration(playback.log)
  /\ playback' = [playback EXCEPT !.cursor = cursor, !.index = i, !.playing = FALSE]
  /\ ShowFrame(playback.log, i)
  /\ UNCHANGED <<srv, link, inbox, world, seed, rec, latest, saved, panel, file,
                 eclipsed>>

CloseResult ==
  /\ panel
  /\ panel' = FALSE
  /\ UNCHANGED <<server, board, rec, latest, playback, saved, file, eclipsed>>

-----------------------------------------------------------------------------
Next ==
  \/ Start
  \/ \E near \in SUBSET Item, ends \in BOOLEAN : Step(near, ends)
  \/ Cut
  \/ Reconnect
  \/ ReceiveInit
  \/ ReceiveState
  \/ ReceiveOver
  \/ OpenLatest
  \/ \E log \in Files : ChooseFile(log)
  \/ FileIsRead
  \/ FileIsRefused
  \/ CloseReplay
  \/ \E delta \in 1..2 : Advance(delta)
  \/ TogglePlaying
  \/ \E cursor \in Tick : Seek(cursor)
  \/ CloseResult

Spec == Init /\ [][Next]_vars

-----------------------------------------------------------------------------
\* The items on the client's board when it has read its messages.
Taken(on, m) ==
  IF m.type = "init" THEN m.items ELSE IF m.type = "state" THEN Applied(on, m) ELSE on

After(on, messages) ==
  LET f[i \in 0..Len(messages)] == IF i = 0 THEN on ELSE Taken(f[i - 1], messages[i])
  IN  f[Len(messages)]

\* What the client keeps of the match: behind a replay, what was saved.
Kept == IF playback # None THEN saved.items ELSE items

\* Differences add up: a client with a connection has, as soon as it has read
\* what is under way, the board of the running match, whether it was there from
\* the start, came back in between, or had a replay open when the match began.
\* A replay that opens meanwhile, from a file that was still being read when the
\* match began, changes nothing while no message comes.  What comes behind it is
\* lost, and only then the board stays wrong, to the next game_init.
MirrorsMatch ==
  link /\ srv.running =>
    \/ After(Kept, inbox) = Course[srv.match][srv.tick]
    \/ eclipsed /\ \A i \in DOMAIN inbox : inbox[i].type # "init"

InOrder(frames) == \A i \in DOMAIN frames : i > 1 => frames[i - 1].tick < frames[i].tick

Whole(log) ==
  /\ log.world = log.match
  /\ \A i \in DOMAIN log.frames :
       LET f == log.frames[i] IN f.match = log.match /\ f.items = Course[f.match][f.tick]
  /\ InOrder(log.frames)
  /\ log.frames # <<>> /\ Last(log.frames).tick = log.last

\* What is saved as the replay of a match is that match: each of its frames is
\* what the match looked like in that tick, they are in their order, and the last
\* one is its end, whatever was lost meanwhile or open before it began.  Only a
\* match that was hidden by a replay is not saved so.  A file that was imported
\* stays as it is.
LogIsWhole ==
  [][latest' # latest => latest' = None \/ latest' \in Files \/ Whole(latest') \/ eclipsed']_vars

\* An open replay shows one of its frames as it was, on its own map: the last one
\* that has begun at the time of the cursor, if its frames are in order.
ShowsItsTime ==
  playback # None =>
    LET log == playback.log
        f == log.frames[playback.index]
    IN  /\ world = log.world
        /\ snap = [match |-> f.match, tick |-> f.tick] /\ items = f.items
        /\ InOrder(log.frames) =>
             \A i \in DOMAIN log.frames :
               Offset(log, i) <= playback.cursor <=> i <= playback.index

=============================================================================
