----------------------------- MODULE TabSessions -----------------------------
(***************************************************************************)
(* Browser tabs (src/client/main.ts) and the TypeScript server             *)
(* (RoomTable), with the connections between them.                         *)
(*                                                                         *)
(* A connection is two FIFO channels, `up` and `srv.out`.  Either side may *)
(* learn first that it is over: `link` is the browser's view, and          *)
(* `srv.clients` the server's.  What a browser has sent before its side    *)
(* ended may still reach the server, and a server that has asked for a     *)
(* close still reads what comes before the other side's close, as the `ws` *)
(* library does.  All tabs belong to one browser and share `stored`, its   *)
(* localStorage.                                                           *)
(*                                                                         *)
(* `moves` counts what users and the network do of their own accord, at    *)
(* most MaxMoves in all; everything else follows by itself.                *)
(***************************************************************************)
EXTENDS RoomTable

CONSTANTS
  Tab,        \* tabs of the browser
  Main,       \* the room a page asks for by default
  MaxMoves    \* bound on the moves of users and network

ASSUME SessionAssumption == Main \in Room /\ MaxMoves \in Nat

VARIABLES
  srv,      \* the server
  link,     \* [Conn -> what the browser knows of the connection]
  up,       \* [Conn -> messages on their way to the server]
  tab,      \* [Tab -> the state of its page]
  stored,   \* localStorage: the reconnect token, the room and the mode
  moves

vars == <<srv, link, up, tab, stored, moves>>

Hello(t) == [kind |-> "hello", token |-> tab[t].token, spectator |-> tab[t].prefer,
             room |-> tab[t].room]

TabState ==
  [ open        : BOOLEAN,
    sock        : Conn \cup {NoConn},          \* ws
    timer       : BOOLEAN,                     \* reconnectTimer is pending
    token       : Player \cup {NoPlayer},      \* reconnectToken
    room        : Room,                        \* roomId
    prefer      : BOOLEAN,                     \* preferSpectator
    session     : Player \cup {NoPlayer},      \* sessionId
    isHost      : BOOLEAN,
    isSpectator : BOOLEAN,
    panel       : BOOLEAN,                     \* the lobby is drawn and shown
    startable   : BOOLEAN,                     \* its start button is enabled
    view        : {"none", "init", "live"},    \* world set, snapshot set
    steering    : BOOLEAN,                     \* currentDir # 'none'
    ended       : BOOLEAN,                     \* a result panel has been shown
    replay      : BOOLEAN,                     \* replayPlayback is there
    savedMode   : BOOLEAN,                     \* replaySavedIsSpectator
    missed      : BOOLEAN,                     \* history: see TabKnowsItself
    replaced    : BOOLEAN ]                    \* the tab was told of code 4001

\* A page that loads: its settings come from localStorage.
LoadedTab(c, st) ==
  [ open |-> TRUE, sock |-> c, timer |-> FALSE, token |-> st.token, room |-> st.room,
    prefer |-> st.prefer, session |-> NoPlayer, isHost |-> FALSE,
    isSpectator |-> st.prefer, panel |-> FALSE, startable |-> FALSE, view |-> "none",
    steering |-> FALSE, ended |-> FALSE, replay |-> FALSE, savedMode |-> FALSE, missed |-> FALSE,
    replaced |-> FALSE ]

\* An empty localStorage, and a page that is not there.
Empty == [token |-> NoPlayer, room |-> Main, prefer |-> FALSE]

NoTab == [LoadedTab(NoConn, Empty) EXCEPT !.open = FALSE]

UpMessage ==
  [kind : {"hello"}, token : Player \cup {NoPlayer}, spectator : BOOLEAN, room : Room]
  \cup [kind : {"lobby_start"}, withAi : BOOLEAN]
  \cup [kind : {"input", "place_ping"}]

\* A connection the browser has not seen the end of.
Attached(c) == link[c] \in {"opening", "open"}

\* A tab has a socket or a timer for the next one, never both and never after
\* its page is gone; a connection that is not over is the socket of one tab.
OneSocket ==
  /\ \A t \in Tab :
       /\ tab[t].sock # NoConn => tab[t].open /\ ~tab[t].timer /\ Attached(tab[t].sock)
       /\ tab[t].timer => tab[t].open
  /\ \A t, u \in Tab : t # u => tab[t].sock = NoConn \/ tab[t].sock # tab[u].sock
  /\ \A c \in Conn : Attached(c) => \E t \in Tab : tab[t].sock = c

\* The shape of the state, and one socket or timer for each tab.
TypeOK ==
  /\ OneSocket
  /\ srv \in Table
  /\ link \in [Conn -> {"free", "opening", "open", "gone"}]
  /\ up \in [Conn -> Seq(UpMessage)]
  /\ tab \in [Tab -> TabState]
  /\ stored \in [token : Player \cup {NoPlayer}, room : Room, prefer : BOOLEAN]
  /\ moves \in 0..MaxMoves

Init ==
  /\ srv = EmptyTable
  /\ link = [c \in Conn |-> "free"]
  /\ up = [c \in Conn |-> <<>>]
  /\ stored = Empty
  /\ tab = [t \in Tab |-> NoTab]
  /\ moves = 0

-----------------------------------------------------------------------------
(* Users and the network.                                                  *)

Move == moves < MaxMoves /\ moves' = moves + 1

\* Connections are alike; a new one is the first that is free.
FreeConns == {c \in Conn : link[c] = "free" /\ c \notin srv.clients}
NewConn   == CHOOSE c \in FreeConns : TRUE

Linked(t) == tab[t].sock # NoConn /\ link[tab[t].sock] = "open"

\* `send`: a message on a socket that is not open is dropped.
SentUp(t, msgs) ==
  up' = IF Linked(t) /\ tab[t].sock \in srv.clients
        THEN [up EXCEPT ![tab[t].sock] = @ \o msgs] ELSE up

\* Tabs are alike: which one is the first does not matter.
OpenTab(t) ==
  /\ Move
  /\ ~tab[t].open
  /\ moves = 0 => t = CHOOSE u \in Tab : TRUE
  /\ FreeConns # {}
  /\ tab' = [tab EXCEPT ![t] = LoadedTab(NewConn, stored)]
  /\ link' = [link EXCEPT ![NewConn] = "opening"]
  /\ UNCHANGED <<srv, up, stored>>

\* The end of a connection on the side of the browser.  What the server sends
\* on it afterwards is lost.
Ended(c) == [link EXCEPT ![c] = IF c \in srv.clients THEN "gone" ELSE "free"]

Undelivered(c) == [srv EXCEPT !.out[c] = <<>>]

Carried(s) == [s EXCEPT !.out = [c \in Conn |-> IF link[c] = "gone" THEN <<>> ELSE s.out[c]]]

\* The page is closed or left.
CloseTab(t) ==
  /\ Move
  /\ tab[t].open
  /\ tab' = [tab EXCEPT ![t] = NoTab]
  /\ IF tab[t].sock = NoConn THEN UNCHANGED <<link, srv>>
     ELSE /\ link' = Ended(tab[t].sock)
          /\ srv' = Undelivered(tab[t].sock)
  /\ UNCHANGED <<up, stored>>

\* The settings panel: `setting` saves them, and says hello with them.
Save(t, room, prefer) ==
  /\ Move
  /\ tab[t].open /\ tab[t].panel
  /\ tab' = [tab EXCEPT ![t].room = room, ![t].prefer = prefer]
  /\ stored' = [stored EXCEPT !.room = room, !.prefer = prefer]
  /\ SentUp(t, <<[Hello(t) EXCEPT !.spectator = prefer, !.room = room]>>)
  /\ UNCHANGED <<srv, link>>

Start(t, prefer, withAi) ==
  /\ Move
  /\ tab[t].open /\ tab[t].panel /\ tab[t].startable
  /\ tab' = [tab EXCEPT ![t].prefer = prefer]
  /\ stored' = [stored EXCEPT !.prefer = prefer]
  /\ SentUp(t, <<[Hello(t) EXCEPT !.spectator = prefer],
                 [kind |-> "lobby_start", withAi |-> withAi]>>)
  /\ UNCHANGED <<srv, link>>

\* A direction key; it is sent when the direction changes.
Steer(t) ==
  /\ Move
  /\ tab[t].open /\ ~tab[t].isSpectator /\ ~tab[t].steering
  /\ tab' = [tab EXCEPT ![t].steering = TRUE]
  /\ SentUp(t, <<[kind |-> "input"]>>)
  /\ UNCHANGED <<srv, link, stored>>

PlacePing(t) ==
  /\ Move
  /\ tab[t].open /\ ~tab[t].isSpectator /\ tab[t].view = "live"
  /\ SentUp(t, <<[kind |-> "place_ping"]>>)
  /\ UNCHANGED <<srv, link, tab, stored>>

\* closeReplay
ReplayClosed(s) ==
  IF s.replay
  THEN [s EXCEPT !.replay = FALSE, !.isSpectator = s.savedMode, !.savedMode = FALSE]
  ELSE s

\* openReplay.  Who looks at a replay is a spectator for its page.
\* Mutant: a replay that is open is not closed first.
ReplayOpenedOver(s) ==
  [s EXCEPT !.replay = TRUE, !.savedMode = s.isSpectator, !.isSpectator = TRUE,
            !.view = "live"]

ReplayOpened(s) ==
  LET shut == ReplayClosed(s)
  IN  [shut EXCEPT !.replay = TRUE, !.savedMode = shut.isSpectator,
                   !.isSpectator = TRUE, !.view = "live"]

\* The log of the last match, or a file that was chosen in a result panel: the
\* page may have read it at any time afterwards.
OpenReplay(t) ==
  /\ Move
  /\ tab[t].open /\ tab[t].ended
  /\ tab' = [tab EXCEPT ![t] = ReplayOpened(@)]
  /\ UNCHANGED <<srv, link, up, stored>>

\* No move of its own: a replay is closed at most once.
CloseReplay(t) ==
  /\ tab[t].replay
  /\ tab' = [tab EXCEPT ![t] = ReplayClosed(@)]
  /\ UNCHANGED <<srv, link, up, stored, moves>>

\* Mutant: the tab connects again whatever the code.
AfterCloseAnyCode(t, kind) ==
  [tab[t] EXCEPT !.sock = NoConn, !.steering = FALSE, !.timer = TRUE]

\* The close event of a socket: code 4001, or any other.
AfterClose(t, kind) ==
  [tab[t] EXCEPT !.sock = NoConn, !.steering = FALSE,
                 !.timer = kind # "replaced", !.replaced = kind = "replaced"]

\* The browser finds a connection broken, or cannot open it.
Break(t) ==
  /\ Move
  /\ tab[t].sock # NoConn
  /\ tab' = [tab EXCEPT ![t] = AfterClose(t, "broken")]
  /\ link' = Ended(tab[t].sock)
  /\ srv' = Undelivered(tab[t].sock)
  /\ UNCHANGED <<up, stored>>

\* The close event of connection c at the server.
ServerClosed(s, c) ==
  LET left == HandleClientClose([s EXCEPT !.open = @ \ {c}], c)
  IN  [left EXCEPT !.clients = @ \ {c}]

\* The server finds a connection broken; the browser has yet to.
Cut(c) ==
  /\ Move
  /\ link[c] = "open" /\ c \in srv.clients
  /\ srv' = [ServerClosed(srv, c) EXCEPT !.out[c] = Append(@, [kind |-> "cut"])]
  /\ up' = [up EXCEPT ![c] = <<>>]
  /\ UNCHANGED <<link, tab, stored>>

-----------------------------------------------------------------------------
(* What follows by itself.                                                 *)

\* The connection is open on both sides; the tab says hello.
Establish(t) ==
  LET c == tab[t].sock IN
  /\ c # NoConn /\ link[c] = "opening"
  /\ link' = [link EXCEPT ![c] = "open"]
  /\ srv' = [srv EXCEPT !.clients = @ \cup {c}, !.open = @ \cup {c}]
  /\ up' = [up EXCEPT ![c] = <<Hello(t)>>]
  /\ tab' = [tab EXCEPT ![t].steering = FALSE]
  /\ UNCHANGED <<stored, moves>>

\* Mutant: the timer goes on.
ConnectedAgain(t) == [tab[t] EXCEPT !.sock = NewConn]

Connected(t) == [tab[t] EXCEPT !.timer = FALSE, !.sock = NewConn]

\* 1500 ms after a close.
Reconnect(t) ==
  /\ tab[t].timer
  /\ FreeConns # {}
  /\ tab' = [tab EXCEPT ![t] = Connected(t)]
  /\ link' = [link EXCEPT ![NewConn] = "opening"]
  /\ UNCHANGED <<srv, up, stored, moves>>

\* The server learns of an end the browser knows of.
Notice(c) ==
  /\ link[c] = "gone"
  /\ srv' = Carried(ServerClosed(srv, c))
  /\ link' = [link EXCEPT ![c] = "free"]
  /\ up' = [up EXCEPT ![c] = <<>>]
  /\ UNCHANGED <<tab, stored, moves>>

\* The ids that something names; a new member gets another one.
Named ==
  UNION {srv.room[r].members : r \in Room}
  \cup {tab[t].token : t \in Tab} \cup {tab[t].session : t \in Tab} \cup {stored.token}
  \cup UNION {{up[c][i].token : i \in {j \in DOMAIN up[c] : up[c][j].kind = "hello"}} : c \in Conn}
  \cup UNION {{srv.out[c][i].player :
                 i \in {j \in DOMAIN srv.out[c] : srv.out[c][j].kind = "welcome"}} : c \in Conn}
  \cup UNION {{srv.out[c][i].host :
                 i \in {j \in DOMAIN srv.out[c] : srv.out[c][j].kind = "lobby"}} : c \in Conn}

Fresh == CHOOSE p \in Player \ Named : \A q \in Player \ Named : p <= q

\* A message to a member of a room.
Handled(s, c, msg) ==
  LET p == s.player[c]
      r == s.at[c]
  IN  IF p = NoPlayer \/ r = NoRoom THEN s
      ELSE IF r \notin s.rooms THEN Unbound(s, c)
      ELSE CASE msg.kind = "lobby_start" -> HandleLobbyStart(s, r, p, msg.withAi)
             [] msg.kind = "input"       -> HandleInput(s, r, p)
             [] msg.kind = "place_ping"  -> HandlePlacePing(s, r, p)

\* The server takes the next message of a connection.
Receive(c) ==
  /\ c \in srv.clients /\ up[c] # <<>>
  /\ Player \ Named # {}
  /\ LET msg == Head(up[c]) IN
       srv' = Carried(IF msg.kind = "hello"
                      THEN HandleHello(srv, c, msg.token, msg.spectator, msg.room, Fresh)
                      ELSE Handled(srv, c, msg))
  /\ up' = [up EXCEPT ![c] = Tail(@)]
  /\ UNCHANGED <<link, tab, stored, moves>>

Tick(r) ==
  /\ r \in srv.rooms /\ srv.room[r].running
  /\ srv' = Carried(IF srv.room[r].ticked THEN LastTick(srv, r) ELSE FirstTick(srv, r))
  /\ UNCHANGED <<link, up, tab, stored, moves>>

\* Mutant: the direction that was held is taken for sent.
InitializedSteering(t, msg) ==
  [ReplayClosed(tab[t]) EXCEPT !.view = "init", !.isSpectator = msg.isSpectator,
                               !.missed = FALSE, !.panel = FALSE]

\* A match begins for the tab: nothing of the last one counts, and a replay is
\* closed.
Initialized(t, msg) ==
  [ReplayClosed(tab[t]) EXCEPT !.view = "init", !.isSpectator = msg.isSpectator,
                               !.missed = FALSE, !.steering = FALSE, !.panel = FALSE]

\* `handleServerMessage` and the close event.
Told(t, msg) ==
  CASE msg.kind = "welcome"   ->
         [tab[t] EXCEPT !.session = msg.player, !.token = msg.player,
                        !.isHost = msg.isHost, !.isSpectator = msg.isSpectator,
                        !.missed = tab[t].replay /\ msg.isSpectator # tab[t].savedMode]
    [] msg.kind = "lobby"     ->
         LET host  == msg.host = tab[t].session
             match == msg.running /\ tab[t].view = "live"
         IN  [tab[t] EXCEPT !.isHost = host, !.panel = ~match,
                            !.startable = IF match THEN @
                                          ELSE host /\ msg.canStart /\ ~msg.running]
    [] msg.kind = "game_init" -> Initialized(t, msg)
    [] msg.kind = "state"     -> [tab[t] EXCEPT !.view = "live"]
    [] msg.kind = "game_over" -> [tab[t] EXCEPT !.ended = TRUE]
    [] msg.kind \in {"replaced", "cut"} -> AfterClose(t, msg.kind)

\* A tab handles the next message or the close of its socket.
Deliver(t) ==
  LET c == tab[t].sock IN
  /\ Linked(t) /\ srv.out[c] # <<>>
  /\ LET msg == Head(srv.out[c]) IN
       /\ tab' = [tab EXCEPT ![t] = Told(t, msg)]
       /\ stored' = IF msg.kind = "welcome" THEN [stored EXCEPT !.token = msg.player] ELSE stored
       /\ IF msg.kind \in {"replaced", "cut"}
          THEN link' = Ended(c) /\ srv' = Undelivered(c)
          ELSE link' = link /\ srv' = [srv EXCEPT !.out[c] = Tail(@)]
  /\ UNCHANGED <<up, moves>>

-----------------------------------------------------------------------------
Users ==
  \E t \in Tab :
    \/ \E r \in Room, prefer \in BOOLEAN : Save(t, r, prefer)
    \/ \E prefer, withAi \in BOOLEAN : Start(t, prefer, withAi)
    \/ OpenTab(t) \/ CloseTab(t) \/ Steer(t) \/ PlacePing(t)
    \/ OpenReplay(t) \/ CloseReplay(t)

Network == (\E t \in Tab : Break(t)) \/ (\E c \in Conn : Cut(c))

System ==
  \/ \E t \in Tab : Establish(t) \/ Reconnect(t) \/ Deliver(t)
  \/ \E c \in Conn : Receive(c) \/ Notice(c)
  \/ \E r \in Room : Tick(r)

Next == Users \/ Network \/ System

Spec == Init /\ [][Next]_vars

\* System is not enabled: the guards of its actions.
Resting ==
  /\ \A t \in Tab :
       /\ tab[t].timer => FreeConns = {}
       /\ tab[t].sock # NoConn => link[tab[t].sock] # "opening"
       /\ Linked(t) => srv.out[tab[t].sock] = <<>>
  /\ \A c \in Conn :
       /\ link[c] # "gone"
       /\ c \in srv.clients /\ up[c] # <<>> => Player \ Named = {}
  /\ \A r \in srv.rooms : ~srv.room[r].running

\* Messages arrive, timers fire and matches have a time limit: weak fairness of
\* System, written out.  The steps that are no moves are those of System and,
\* at most once for each move, CloseReplay.
Progress == []<>Resting \/ []<><<moves' = moves>>_vars

FairSpec == Spec /\ Progress

-----------------------------------------------------------------------------
(* Properties.                                                             *)

\* The server's records agree with each other after every handler.  Contexts,
\* active connections and flags name the same connections; nobody is in two
\* rooms; each room has a host that is there, none outlives its last connection
\* and match, and the seats, AI flags, inputs and pings of a match are those of
\* the members of its room.
RoomsAreApart ==
  /\ OneBinding(srv) /\ ActiveIffConnected(srv) /\ OneRoomEach(srv)
  /\ HostConnected(srv) /\ RoomsNeeded(srv) /\ SeatsAreMembers(srv)

\* What the page holds for its mode, outside a replay or behind one.
Mode(s) == IF s.replay THEN s.savedMode ELSE s.isSpectator

\* A tab that has handled everything sent to it knows what the server thinks
\* it is: its member, its token, whether it is host, and its mode.  While a
\* replay is open it is a spectator on its screen, and the mode is the one that
\* closing the replay goes back to.  That one is wrong in one case only, and
\* until the next welcome or match: a welcome that came while a replay was open
\* brought another mode than the one saved, which closing undoes (`missed`).
TabKnowsItself ==
  \A t \in Tab : LET c == tab[t].sock IN
    (Linked(t) /\ srv.out[c] = <<>> /\ srv.player[c] # NoPlayer) =>
      LET m == srv.room[srv.at[c]] IN
        /\ tab[t].session = srv.player[c]
        /\ tab[t].token = srv.player[c]
        /\ tab[t].isHost = (m.host = srv.player[c])
        /\ (Mode(tab[t]) = (srv.player[c] \in m.spectator)) = ~tab[t].missed

\* A direction that a player holds down is the direction of its seat, once the
\* messages both ways have arrived: resets of currentDir on a new connection
\* and a new match lose no key.
KeysArrive ==
  \A t \in Tab : LET c == tab[t].sock IN
    (/\ Linked(t) /\ srv.out[c] = <<>> /\ up[c] = <<>>
     /\ srv.player[c] # NoPlayer /\ tab[t].steering)
    => LET m == srv.room[srv.at[c]] IN
         srv.player[c] \in m.live => srv.player[c] \in m.steered

\* No message is under way, no timer runs and no connection is half open.
Quiet ==
  /\ \A t \in Tab : ~tab[t].timer
  /\ \A c \in Conn :
       /\ link[c] \in {"free", "open"}
       /\ up[c] = <<>> /\ srv.out[c] = <<>>
  /\ \A r \in Room : ~srv.room[r].running

\* When users and network leave them alone, the tabs come to rest: two tabs
\* with one token do not take the session from each other for ever.
Settles == <>[]Quiet

\* A tab that is told that another connection has replaced it (main.ts:151) is
\* right: when all is quiet and no page was closed, some tab has a connection.
ReplacedByAnother ==
  (Quiet /\ \A t \in Tab : tab[t].open) => \E t \in Tab : tab[t].sock # NoConn

=============================================================================
