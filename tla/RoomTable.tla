------------------------------ MODULE RoomTable ------------------------------
(***************************************************************************)
(* The state of the TypeScript server and the functions that rewrite it    *)
(* (reference/ts-server/src/server/index.ts): the connections, the rooms,  *)
(* and in each room the members, the active connection of each member, the *)
(* host and the running game.  Node runs one handler to its end before it  *)
(* takes the next event, so a handler is one operator from a table to a    *)
(* table, composed of the operators of the functions it calls.             *)
(*                                                                         *)
(* A member is a number, which stands for its id and its reconnect token   *)
(* alike: both are fresh random UUIDs.  A number may be given again when   *)
(* nothing names it.  The order of a Map is the order of insertion;        *)
(* `before` holds the pairs of members in that order.  Names, scores and   *)
(* the world are left out; the game is who has a seat, whom the engine     *)
(* takes for a player that is there, and whose input and pings it has      *)
(* taken.                                                                  *)
(*                                                                         *)
(* `out[c]` is what the server has sent on connection c and the browser    *)
(* has not handled.  Messages that a tab only prints are not sent.         *)
(***************************************************************************)
EXTENDS Naturals, Sequences

CONSTANTS
  Conn,       \* connections
  NoConn,     \* absence of a connection
  Room,       \* room ids
  NoRoom,     \* absence of a room
  MaxPlayer   \* members that something names at one time

ASSUME TableAssumption ==
  /\ NoConn \notin Conn
  /\ NoRoom \notin Room
  /\ MaxPlayer \in Nat \ {0}

Player   == 1..MaxPlayer
NoPlayer == 0

Message ==
  [kind : {"welcome"}, player : Player, isHost : BOOLEAN, isSpectator : BOOLEAN]
  \cup [kind : {"lobby"}, host : Player \cup {NoPlayer}, running : BOOLEAN,
        canStart : BOOLEAN]
  \cup [kind : {"game_init"}, isSpectator : BOOLEAN]
  \cup [kind : {"state", "game_over", "replaced", "cut"}]

RoomState ==
  [ members    : SUBSET Player,                   \* keys of lobbyPlayers
    before     : SUBSET (Player \X Player),       \* the first was put in earlier
    connected  : SUBSET Player,                   \* members with that flag
    spectator  : SUBSET Player,                   \* members with that flag
    ai         : SUBSET Player,                   \* members with that flag
    active     : [Player -> Conn \cup {NoConn}],  \* activeClientByPlayerId
    host       : Player \cup {NoPlayer},          \* hostId
    running    : BOOLEAN,         \* game and loop, set and dropped together
    ticked     : BOOLEAN,         \* the game has made its first step
    seats      : SUBSET Player,   \* the humans of the game
    live       : SUBSET Player,   \* seats that the engine does not play by AI
    steered    : SUBSET Player,   \* seats whose direction the engine has taken
    pingOwners : SUBSET Player ]  \* owners of the pings that may be shown

Table ==
  [ clients : SUBSET Conn,                       \* keys of `clients`
    open    : SUBSET Conn,                       \* ws.readyState = OPEN
    player  : [Conn -> Player \cup {NoPlayer}],  \* ClientContext.playerId
    at      : [Conn -> Room \cup {NoRoom}],      \* ClientContext.roomId
    rooms   : SUBSET Room,                       \* keys of `rooms`
    room    : [Room -> RoomState],
    out     : [Conn -> Seq(Message)] ]

CreatedRoom ==
  [ members |-> {}, before |-> {}, connected |-> {}, spectator |-> {},
    ai |-> {}, active |-> [p \in Player |-> NoConn], host |-> NoPlayer,
    running |-> FALSE, ticked |-> FALSE, seats |-> {}, live |-> {},
    steered |-> {}, pingOwners |-> {} ]

EmptyTable ==
  [ clients |-> {}, open |-> {}, player |-> [c \in Conn |-> NoPlayer],
    at |-> [c \in Conn |-> NoRoom], rooms |-> {},
    room |-> [r \in Room |-> CreatedRoom], out |-> [c \in Conn |-> <<>>] ]

-----------------------------------------------------------------------------
(* Members of a room and its host.                                         *)

\* A new key comes last in a Map, and to delete keys leaves the order of the
\* others.
Joined(m, p) ==
  [m EXCEPT !.members = @ \cup {p}, !.before = @ \cup (m.members \X {p})]

Only(m, P) == [m EXCEPT !.members = @ \cap P, !.before = @ \cap (P \X P)]

ChooseNextHost(m) ==
  LET here == m.members \cap m.connected
  IN  IF here = {} THEN NoPlayer
      ELSE CHOOSE p \in here : \A q \in here \ {p} : <<p, q>> \in m.before

EnsureHostAssigned(m, preferred) ==
  IF m.host \in m.connected THEN m
  ELSE [m EXCEPT !.host =
          IF preferred \in m.connected THEN preferred ELSE ChooseNextHost(m)]

-----------------------------------------------------------------------------
(* Sending.                                                                *)

Sent(s, C, msg) ==
  [s EXCEPT !.out = [c \in Conn |-> IF c \in C \cap s.open
                                    THEN Append(s.out[c], msg) ELSE s.out[c]]]

\* The connections a broadcast to room r reaches.
Listeners(s, r) ==
  {c \in s.clients : /\ \E p \in Player : s.room[r].active[p] = c
                     /\ s.player[c] # NoPlayer
                     /\ s.at[c] = r}

LobbyMessage(m) ==
  [kind |-> "lobby", host |-> m.host, running |-> m.running,
   canStart |-> m.host \in m.connected]

BroadcastLobby(s, r) ==
  LET after == [s EXCEPT !.room[r] = EnsureHostAssigned(@, NoPlayer)]
  IN  Sent(after, Listeners(after, r), LobbyMessage(after.room[r]))

\* `broadcastState`: a listener also has to be a member.
BroadcastState(s, r) ==
  Sent(s, {c \in Listeners(s, r) : \E p \in s.room[r].members : s.room[r].active[p] = c},
       [kind |-> "state"])

InitMessage(m, p) == [kind |-> "game_init", isSpectator |-> p \in m.spectator]

SendWelcomeAndInitialState(s, c, r, p) ==
  LET m       == s.room[r]
      welcome == [kind |-> "welcome", player |-> p, isHost |-> m.host = p,
                  isSpectator |-> p \in m.spectator]
      greeted == Sent(s, {c}, welcome)
  IN  IF m.running
      THEN Sent(Sent(greeted, {c}, InitMessage(m, p)), {c}, [kind |-> "state"])
      ELSE greeted

-----------------------------------------------------------------------------
(* Rooms come and go.                                                      *)

GetOrCreateRoom(s, r) ==
  IF r \in s.rooms THEN s
  ELSE [s EXCEPT !.rooms = @ \cup {r}, !.room[r] = CreatedRoom]

CleanupRoomIfIdle(s, r) ==
  IF /\ ~s.room[r].running
     /\ \A p \in Player : s.room[r].active[p] = NoConn
  THEN [s EXCEPT !.rooms = @ \ {r}, !.room[r] = CreatedRoom]
  ELSE s

Unbound(s, c) == [s EXCEPT !.player[c] = NoPlayer, !.at[c] = NoRoom]

-----------------------------------------------------------------------------
(* Leaving a room.                                                         *)

\* What becomes of the member whose active connection has left.
LeftMember(m, p) ==
  LET gone == [m EXCEPT !.active[p] = NoConn]
      left == IF m.running /\ p \notin m.spectator
              THEN [gone EXCEPT !.connected = @ \ {p}, !.ai = @ \cup {p}, !.live = @ \ {p}]
              ELSE [Only(gone, m.members \ {p}) EXCEPT
                     !.connected = @ \ {p}, !.spectator = @ \ {p}, !.ai = @ \ {p}]
  IN  IF p \notin m.members THEN gone
      ELSE IF m.host = p THEN [left EXCEPT !.host = ChooseNextHost(left)]
      ELSE left

LeaveRoom(s, c, r) ==
  LET p    == s.player[c]
      left == [s EXCEPT !.room[r] = LeftMember(@, p)]
      told == IF p \in s.room[r].members THEN BroadcastLobby(left, r) ELSE left
  IN  IF p = NoPlayer \/ s.at[c] # r THEN s
      ELSE IF s.room[r].active[p] # c THEN Unbound(s, c)
      ELSE CleanupRoomIfIdle(Unbound(told, c), r)

HandleClientClose(s, c) ==
  LET r == s.at[c]
  IN  IF s.player[c] = NoPlayer \/ r = NoRoom THEN s
      ELSE IF r \notin s.rooms THEN Unbound(s, c)
      ELSE LeaveRoom(s, c, r)

-----------------------------------------------------------------------------
(* Binding a connection to a member.                                       *)

\* Mutant: the connection that is told to close keeps its player id.
SupersededBound(s, d) ==
  [Sent(s, {d}, [kind |-> "replaced"]) EXCEPT !.open = @ \ {d}]

\* `close(4001)` on the connection that another one replaces.
Superseded(s, d) ==
  [Sent(Unbound(s, d), {d}, [kind |-> "replaced"]) EXCEPT !.open = @ \ {d}]

BindClientToPlayer(s, c, r, p) ==
  LET old      == s.room[r].active[p]
      replaced == IF old # c /\ old \in s.clients THEN Superseded(s, old) ELSE s
      q        == replaced.player[c]
      from     == replaced.at[c]
      freed    == IF q # NoPlayer /\ from \in s.rooms
                  THEN IF replaced.room[from].active[q] = c
                       THEN [replaced EXCEPT !.room[from].active[q] = NoConn]
                       ELSE replaced
                  ELSE replaced
  IN  IF s.player[c] = p /\ s.at[c] = r /\ old = c THEN s
      ELSE [freed EXCEPT !.player[c] = p, !.at[c] = r, !.room[r].active[p] = c]

-----------------------------------------------------------------------------
(* `hello`.                                                                *)

\* The flags of a known member that is back; the mode is fixed in a match.
Returned(m, p, wantsSpectator) ==
  [m EXCEPT !.spectator = IF m.running THEN @
                          ELSE IF wantsSpectator THEN @ \cup {p} ELSE @ \ {p},
            !.connected = @ \cup {p},
            !.ai        = @ \ {p}]

\* The end of every hello that is accepted.
Welcomed(s, c, r, p) ==
  LET hosted == [s EXCEPT !.room[r] = EnsureHostAssigned(@, p)]
  IN  BroadcastLobby(SendWelcomeAndInitialState(hosted, c, r, p), r)

\* A member of room r is back on connection c; the engine is told.
Rejoined(s, c, r, p, wantsSpectator) ==
  LET bound == BindClientToPlayer([s EXCEPT !.room[r] = Returned(@, p, wantsSpectator)],
                                  c, r, p)
      told  == [bound EXCEPT !.room[r].live = @ \cup (({p} \cap s.room[r].seats)
                                                     \ bound.room[r].spectator)]
  IN  Welcomed(told, c, r, p)

\* A new member.
Joining(m, p, wantsSpectator) ==
  [Joined(m, p) EXCEPT !.connected = @ \cup {p},
                       !.spectator = IF wantsSpectator THEN @ \cup {p} ELSE @]

Admitted(s, c, r, p, wantsSpectator) ==
  Welcomed(BindClientToPlayer(
             [s EXCEPT !.room[r] = Joining(@, p, wantsSpectator)], c, r, p), c, r, p)

\* A connection that moves to another room leaves the one it is in first, also
\* when the new room then turns it away.
Moved(s, c, r) ==
  IF s.at[c] = NoRoom \/ s.at[c] = r THEN s
  ELSE IF s.at[c] \notin s.rooms THEN Unbound(s, c)
  ELSE LeaveRoom(s, c, s.at[c])

\* `handleHello`; `fresh` is the id of a new member, if it comes to that.
HandleHello(s, c, token, wantsSpectator, r, fresh) ==
  LET here    == GetOrCreateRoom(Moved(s, c, r), r)
      p       == here.player[c]
      bound   == p # NoPlayer /\ here.at[c] = r
      current == bound /\ p \in here.room[r].members
      loose   == IF bound
                 THEN [Unbound(here, c) EXCEPT !.room[r].active[p] = NoConn]
                 ELSE here
      m       == loose.room[r]
      late    == m.running /\ token \notin m.spectator \cup m.seats
  IN  IF current
      THEN IF token # NoPlayer /\ token # p THEN here
           ELSE Rejoined(here, c, r, p, wantsSpectator)
      ELSE IF token \in m.members
      THEN IF late THEN loose ELSE Rejoined(loose, c, r, token, wantsSpectator)
      ELSE IF m.running /\ ~wantsSpectator THEN loose
      ELSE Admitted(loose, c, r, fresh, wantsSpectator)

-----------------------------------------------------------------------------
(* `lobby_start` and the loop of a match.                                  *)

\* The new game: the connected players have seats; members that are neither
\* seated nor spectators are dropped.
Started(m, humans) ==
  [Only(m, m.spectator \cup humans) EXCEPT
            !.running = TRUE, !.ticked = FALSE, !.seats = humans, !.live = humans,
            !.steered = {}, !.pingOwners = {},
            !.connected = @ \cap (m.spectator \cup humans),
            !.active = [p \in Player |-> IF p \in m.members \ (m.spectator \cup humans)
                                         THEN NoConn ELSE m.active[p]],
            !.ai = humans \ m.connected]

HandleLobbyStart(s, r, p, withAi) ==
  LET m      == EnsureHostAssigned(s.room[r], NoPlayer)
      humans == (m.connected \cap m.members) \ m.spectator
      told   == BroadcastLobby([s EXCEPT !.room[r] = Started(m, humans)], r)
      t      == told.room[r]
  IN  IF s.room[r].running THEN s
      ELSE IF p # m.host \/ (humans = {} /\ ~withAi) THEN [s EXCEPT !.room[r] = m]
      ELSE [told EXCEPT !.out = [c \in Conn |->
             IF \E q \in t.connected : t.active[q] = c /\ c \in told.clients \cap told.open
             THEN Append(@[c], InitMessage(t, told.player[c])) ELSE @[c]]]

HandleInput(s, r, p) ==
  [s EXCEPT !.room[r].steered = @ \cup ({p} \cap s.room[r].live)]

\* `handlePlacePing`; caps and rates are PingManager's.
HandlePlacePing(s, r, p) ==
  LET m == s.room[r]
  IN  IF /\ m.running
         /\ p \in m.members \ m.spectator
         /\ m.active[p] \in s.clients
         /\ p \in m.seats
      THEN [s EXCEPT !.room[r].pingOwners = @ \cup {p}]
      ELSE s

\* The first step of a game; a later state tells a tab nothing new here.
FirstTick(s, r) == BroadcastState([s EXCEPT !.room[r].ticked = TRUE], r)

\* The game and everything in it is dropped.
Over(m) ==
  EnsureHostAssigned(
    [m EXCEPT !.running = FALSE, !.ticked = FALSE, !.seats = {}, !.live = {},
              !.steered = {}, !.pingOwners = {}, !.ai = {}], NoPlayer)

\* The step that ends the game.
LastTick(s, r) ==
  LET told == Sent(s, Listeners(s, r), [kind |-> "game_over"])
  IN  CleanupRoomIfIdle(BroadcastLobby([told EXCEPT !.room[r] = Over(@)], r), r)

-----------------------------------------------------------------------------
(* Consistency of a table, part by part.                                   *)

\* A connection that holds a player id is the active connection of a member
\* of the room it holds, and the other way round.
OneBinding(s) ==
  /\ \A c \in Conn : s.player[c] = NoPlayer <=> s.at[c] = NoRoom
  /\ \A c \in Conn : s.player[c] # NoPlayer =>
       /\ c \in s.clients
       /\ s.at[c] \in s.rooms
       /\ s.room[s.at[c]].active[s.player[c]] = c
  /\ \A r \in Room, p \in Player : s.room[r].active[p] # NoConn =>
       LET c == s.room[r].active[p] IN s.player[c] = p /\ s.at[c] = r

\* A member is connected exactly when it has an active connection.
ActiveIffConnected(s) ==
  \A r \in Room : LET m == s.room[r] IN
    /\ m.connected \cup m.spectator \cup m.ai \subseteq m.members
    /\ \A p \in Player : p \in m.connected <=> m.active[p] # NoConn

\* Nobody is a member of two rooms.
OneRoomEach(s) ==
  \A r, q \in Room : r # q => s.room[r].members \cap s.room[q].members = {}

\* The host is a connected member, as soon as there is one.
HostConnected(s) ==
  \A r \in Room : LET m == s.room[r] IN
    IF m.connected = {} THEN m.host = NoPlayer ELSE m.host \in m.connected

\* A room exists while somebody is connected to it or a match runs in it.
RoomsNeeded(s) ==
  \A r \in Room :
    IF r \in s.rooms
    THEN s.room[r].running \/ s.room[r].connected # {}
    ELSE s.room[r] = CreatedRoom

\* The players of a match are the members that do not watch, the engine plays
\* exactly the absent ones, and only a seat has input or pings.
SeatsAreMembers(s) ==
  \A r \in Room : LET m == s.room[r] IN
    IF m.running
    THEN /\ m.seats = m.members \ m.spectator
         /\ m.live = m.seats \cap m.connected
         /\ m.ai = m.seats \ m.connected
         /\ m.spectator \subseteq m.connected
         /\ m.steered \cup m.pingOwners \subseteq m.seats
    ELSE m.seats \cup m.live \cup m.ai \cup m.steered \cup m.pingOwners = {}

=============================================================================
